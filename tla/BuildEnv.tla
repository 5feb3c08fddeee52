------------------------------ MODULE BuildEnv ------------------------------
(***************************************************************************)
(* init_env.sh: builds the libraries under third_party/ one after the      *)
(* other.  Every function has the same steps and ends with the touch of a  *)
(* flag file, by which a later run of the script skips it.  Under set -e a *)
(* failing command ends the script, and it may be interrupted at any time: *)
(* files stay as they are, shell variables do not.                         *)
(***************************************************************************)
EXTENDS Integers, Sequences

CONSTANT MaxBreaks     (* bound on failures and interruptions              *)

ASSUME BuildAssumption == MaxBreaks \in Nat

Order    == <<"boost", "mongo", "libevent", "libev", "libevent1", "thrift", "poco">>
Packages == {Order[i] : i \in DOMAIN Order}

(* What configure is told to take from third_party/.                       *)
Needs(p) == IF p = "thrift" THEN {"boost", "libevent1"} ELSE {}

VARIABLES
    systemBoost, (* whether the machine has a boost of its own             *)
    mac,       (* whether it is a mac, where thrift does not compile       *)
    running,   (* the script                                               *)
    at,        (* the number of the function it is in                      *)
    stage,     (* and the command it is about to run                       *)
    boostPath, (* whether BOOST_RELEASE_PATH is set                        *)
    source,    (* the directory under env/: "none", "partial", "full", or  *)
               (* "mixed", new files over old ones                         *)
    install,   (* the directory under third_party/                         *)
    flag,      (* the packages with a flag file                            *)
    linked,    (* history: the boost that mongo was built with             *)
    split,     (* history: a run broke off between the flags of boost and  *)
               (* of mongo                                                 *)
    breaks     (* number of failures and interruptions                     *)

machine == <<systemBoost, mac>>
vars == <<machine, running, at, stage, boostPath, source, install, flag, linked, split, breaks>>

Init ==
    /\ systemBoost \in BOOLEAN /\ mac \in BOOLEAN
    /\ running = FALSE /\ at = 1 /\ stage = "check" /\ boostPath = FALSE
    /\ source = [p \in Packages |-> "none"]
    /\ install = [p \in Packages |-> "none"]
    /\ flag = {} /\ linked = "none" /\ split = FALSE /\ breaks = 0

Current == Order[at]

(* Somebody starts the script, unless everything is there.                 *)
Run ==
    /\ ~running /\ flag # Packages
    /\ running' = TRUE /\ at' = 1 /\ stage' = "check" /\ boostPath' = FALSE
    /\ UNCHANGED <<machine, source, install, flag, linked, split, breaks>>

(* return 0: the next function, or the end.                                *)
Leave ==
    IF at = Len(Order) THEN running' = FALSE /\ UNCHANGED <<at, stage>>
    ELSE at' = at + 1 /\ stage' = "check" /\ UNCHANGED running

(* Seeded fault: a function that does not look at its flag.                *)
SkippedNever == FALSE

(* if [ -f "${FLAG}" ]                                                     *)
Skipped == Current \in flag

Check ==
    /\ running /\ stage = "check"
    /\ IF Skipped THEN Leave ELSE stage' = "clean_source" /\ UNCHANGED <<running, at>>
    /\ UNCHANGED <<boostPath, source, install, flag, linked, breaks>>

Do(now, next) ==
    running /\ stage = now /\ stage' = next /\ UNCHANGED <<running, at, breaks>>

(* The state of a directory that a command fills: over, if it was not      *)
(* removed, the old files.                                                 *)
Fill(old, how) == IF old = "none" THEN how ELSE "mixed"

CleanSource ==
    /\ Do("clean_source", "clean_install")
    /\ source' = [source EXCEPT ![Current] = "none"]
    /\ UNCHANGED <<boostPath, install, flag, linked>>

(* Seeded fault: an install directory that is kept.                        *)
RemovedNot == install

Removed == [install EXCEPT ![Current] = "none"]

(* BOOST_RELEASE_PATH is set on the way, and only here.                    *)
PathSet == boostPath \/ Current = "boost"

CleanInstall ==
    /\ Do("clean_install", "unpack")
    /\ install' = Removed
    /\ boostPath' = PathSet
    /\ UNCHANGED <<source, flag, linked>>

Unpack ==
    /\ Do("unpack", "make")
    /\ source' = [source EXCEPT ![Current] = Fill(@, "full")]
    /\ UNCHANGED <<boostPath, install, flag, linked>>

(* Seeded fault: a driver that takes no other boost.                       *)
BoostFoundOurs == boostPath

(* With the variable unset the paths are /include and /lib.                *)
BoostFound == boostPath \/ systemBoost

CanMake ==
    /\ \A n \in Needs(Current) : install[n] = "full"
    /\ Current = "mongo" => BoostFound
    /\ Current = "thrift" => ~mac

Make ==
    /\ Do("make", "install") /\ CanMake
    /\ linked' = IF Current # "mongo" THEN linked
                 ELSE IF boostPath THEN install["boost"] ELSE "system"
    /\ UNCHANGED <<boostPath, source, install, flag>>

MakeFails ==
    /\ running /\ stage = "make" /\ ~CanMake
    /\ running' = FALSE
    /\ UNCHANGED <<at, stage, boostPath, source, install, flag, linked, breaks>>

Install ==
    /\ Do("install", "touch")
    /\ install' = [install EXCEPT ![Current] = Fill(@, "full")]
    /\ UNCHANGED <<boostPath, source, flag, linked>>

Touch ==
    /\ running /\ stage = "touch"
    /\ flag' = flag \union {Current}
    /\ Leave
    /\ UNCHANGED <<boostPath, source, install, linked, breaks>>

(* What a command that removes or fills a directory leaves when it breaks  *)
(* off.                                                                    *)
Half(remove, fill, old) ==
    IF stage = remove /\ old # "none" THEN "partial"
    ELSE IF stage = fill THEN Fill(old, "partial") ELSE old

(* A command fails or the script is interrupted, before or during its work.*)
Broken ==
    /\ running /\ breaks < MaxBreaks
    /\ breaks' = breaks + 1
    /\ split' = (split \/ ("boost" \in flag /\ "mongo" \notin flag))
    /\ running' = FALSE
    /\ source' \in {source, [source EXCEPT ![Current] = Half("clean_source", "unpack", @)]}
    /\ install' \in {install, [install EXCEPT ![Current] = Half("clean_install", "install", @)]}
    /\ UNCHANGED <<machine, at, stage, boostPath, flag, linked>>

Step ==
    /\ \/ Check \/ CleanSource \/ CleanInstall \/ Unpack \/ Make \/ MakeFails
       \/ Install \/ Touch
    /\ UNCHANGED <<machine, split>>

Next == Run \/ Step \/ Broken

(* Commands come to an end, and somebody starts the script again.          *)
Spec == Init /\ [][Next]_vars /\ WF_vars(Run) /\ WF_vars(Step)

-----------------------------------------------------------------------------
Stages   == {"check", "clean_source", "clean_install", "unpack", "make", "install", "touch"}
Contents == {"none", "partial", "full", "mixed"}

Switches ==
    systemBoost \in BOOLEAN /\ mac \in BOOLEAN /\ boostPath \in BOOLEAN /\ split \in BOOLEAN

TypeOK ==
    /\ Switches /\ running \in BOOLEAN /\ breaks \in Nat
    /\ at \in 1..Len(Order) /\ stage \in Stages
    /\ source \in [Packages -> Contents]
    /\ install \in [Packages -> Contents]
    /\ flag \subseteq Packages

(* A flag file means that the package is installed, completely and with    *)
(* nothing left of an earlier attempt, wherever earlier runs broke off.    *)
FlagMeansInstalled ==
    /\ TypeOK
    /\ \A p \in flag : source[p] = "full" /\ install[p] = "full"

(* What no run can make: thrift on a mac; and the mongo driver, if a run   *)
(* broke off right behind build_boost and the machine has no boost: later  *)
(* runs skip build_boost and never set BOOST_RELEASE_PATH.                 *)
NeverMade ==
    (IF mac THEN {"thrift"} ELSE {})
    \union (IF split /\ ~systemBoost THEN {"mongo"} ELSE {})

(* Runs that break off are made up for: in the end everything is built     *)
(* that stands in front of the first package that cannot be made, and      *)
(* nothing behind it, such as poco on a mac.                               *)
AllBuilt ==
    <>[](flag = {Order[i] : i \in {j \in DOMAIN Order :
                                     \A k \in 1..j : Order[k] \notin NeverMade}})

(* What a package is built on is ours and complete, and is not removed     *)
(* again.  Only the mongo driver is built on the boost of the machine, in  *)
(* one case, and then silently: a run broke off between the two flags.     *)
BuiltOnOurs ==
    /\ \A p \in Packages : install[p] # "none" => \A n \in Needs(p) : install[n] = "full"
    /\ "mongo" \in flag =>
        IF split THEN linked = "system" /\ systemBoost ELSE linked = "full"

=============================================================================
