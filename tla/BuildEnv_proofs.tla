--------------------------- MODULE BuildEnv_proofs ---------------------------
(***************************************************************************)
(* What a flag file of init_env.sh means, proved for any number of         *)
(* failures and interruptions (MaxBreaks).                                 *)
(***************************************************************************)
EXTENDS BuildEnv, TLAPS

(* The list of the functions, as the prover needs it.                      *)
LEMMA OrderFacts ==
    /\ Len(Order) = 7
    /\ Order[1] = "boost" /\ Order[2] = "mongo" /\ Order[3] = "libevent"
    /\ Order[4] = "libev" /\ Order[5] = "libevent1" /\ Order[6] = "thrift"
    /\ Order[7] = "poco"
    /\ Packages = {"boost", "mongo", "libevent", "libev", "libevent1", "thrift", "poco"}
<1>1. /\ Len(Order) = 7
      /\ Order[1] = "boost" /\ Order[2] = "mongo" /\ Order[3] = "libevent"
      /\ Order[4] = "libev" /\ Order[5] = "libevent1" /\ Order[6] = "thrift"
      /\ Order[7] = "poco"
  BY DEF Order
<1>2. \A i \in 1..7 : i \in {1, 2, 3, 4, 5, 6, 7}
  OBVIOUS
<1> QED
  BY <1>1, <1>2 DEF Packages

(* What the proofs about flags need of the list.                           *)
LEMMA OrderType == /\ Len(Order) = 7
                   /\ \A i \in 1..7 : Order[i] \in Packages
  BY OrderFacts DEF Packages

(* The stages and contents that actions name.                              *)
LEMMA Names ==
    /\ {"check", "clean_source", "clean_install", "unpack"} \subseteq Stages
    /\ {"make", "install", "touch"} \subseteq Stages
    /\ {"none", "partial", "full", "mixed"} \subseteq Contents
  BY DEF Stages, Contents

(* At the end of a function: the next one, or the end of the script.       *)
LEMMA LeaveMoves ==
    ASSUME TypeOK, Leave
    PROVE  \/ at = 7 /\ running' = FALSE /\ at' = at /\ stage' = stage
           \/ at \in 1..6 /\ at' = at + 1 /\ at' \in 1..7 /\ stage' = "check"
              /\ running' = running
  BY OrderType DEF TypeOK, Leave

(* The script ends behind the last function.                               *)
LEMMA LastLeave == ASSUME at = 7, Leave
                   PROVE  running' = FALSE
  BY OrderType DEF Leave

(* How far the function that runs has got with its two directories.        *)
Progress ==
    running =>
        /\ stage # "check" => Current \notin flag
        /\ stage \in {"clean_install", "unpack"} => source[Current] = "none"
        /\ stage \in {"make", "install", "touch"} => source[Current] = "full"
        /\ stage \in {"unpack", "make", "install"} => install[Current] = "none"
        /\ stage = "touch" => install[Current] = "full"

(* The types of the state, and the invariant that makes FlagMeansInstalled *)
(* inductive: a package without a flag is rebuilt from nothing, one with a *)
(* flag is not touched.                                                    *)
FlagInv == FlagMeansInstalled /\ Progress

(* The machine keeps its boost, and the variable is set or not.            *)
LEMMA SwitchesKept == Switches /\ [Next]_vars => Switches'
<1> SUFFICES ASSUME Switches, [Next]_vars
             PROVE  Switches'
  OBVIOUS
<1>1. CASE Run
  BY <1>1 DEF Run, Switches, machine
<1>2. CASE Step
  <2>1. UNCHANGED <<systemBoost, mac, split>>
    BY <1>2 DEF Step, machine
  <2>2. boostPath' = boostPath \/ boostPath' = PathSet
    BY <1>2 DEF Step, Check, CleanSource, CleanInstall, Unpack, Make, MakeFails, Install, Touch
  <2> QED
    BY <2>1, <2>2 DEF Switches, PathSet
<1>3. CASE Broken
  <2>1. UNCHANGED <<systemBoost, mac, boostPath>> /\ split' \in BOOLEAN
    BY <1>3, Zenon DEF Broken, machine
  <2> QED
    BY <2>1 DEF Switches
<1>4. CASE UNCHANGED vars
  BY <1>4 DEF vars, machine, Switches
<1> QED
  BY <1>1, <1>2, <1>3, <1>4 DEF Next

(* No step, and no break in the middle of one, touches what a flag file    *)
(* vouches for.                                                            *)
LEMMA FlagInvKept == FlagInv /\ [Next]_vars => FlagInv'
<1> SUFFICES ASSUME FlagInv, [Next]_vars
             PROVE  FlagInv'
  OBVIOUS
<1> USE OrderType, Names DEF FlagInv, FlagMeansInstalled, TypeOK, Progress, Current, Do, Fill
<1>1. Current \in Packages /\ Switches'
  BY SwitchesKept
<1>2. CASE Run
  BY <1>1, <1>2 DEF Run
<1>3. CASE Check
  <2>1. CASE Skipped
    BY <1>1, <1>3, <2>1, LeaveMoves DEF Check
  <2>2. CASE ~Skipped
    BY <1>1, <1>3, <2>2 DEF Check, Skipped
  <2> QED
    BY <2>1, <2>2
<1>4. CASE CleanSource
  BY <1>1, <1>4 DEF CleanSource
<1>5. CASE CleanInstall
  BY <1>1, <1>5 DEF CleanInstall, Removed, PathSet
<1>6. CASE Unpack
  BY <1>1, <1>6 DEF Unpack
<1>7. CASE Make
  BY <1>1, <1>7 DEF Make
<1>8. CASE MakeFails
  BY <1>1, <1>8 DEF MakeFails
<1>9. CASE Install
  BY <1>1, <1>9 DEF Install
<1>10. CASE Touch
  BY <1>1, <1>10, LeaveMoves DEF Touch
<1>11. CASE Broken
  <2>1. breaks' \in Nat /\ UNCHANGED <<at, stage, flag>>
    BY <1>11 DEF Broken
  <2>2. running' = FALSE
    BY <1>11 DEF Broken
  <2>3. CASE Current \in flag
    <3>1. stage = "check"
      BY <1>1, <1>11, <2>3 DEF Broken
    <3>2. source' = source /\ install' = install
      BY <1>1, <1>11, <3>1 DEF Broken, Half
    <3> QED
      BY <1>1, <2>1, <2>2, <3>2
  <2>4. CASE Current \notin flag
    <3>1. /\ source' \in [Packages -> Contents]
          /\ \A p \in flag : source'[p] = source[p]
      BY <1>1, <1>11, <2>4 DEF Broken, Half
    <3>2. /\ install' \in [Packages -> Contents]
          /\ \A p \in flag : install'[p] = install[p]
      BY <1>1, <1>11, <2>4 DEF Broken, Half
    <3> QED
      BY <1>1, <2>1, <2>2, <3>1, <3>2
  <2> QED
    BY <2>3, <2>4
<1>12. CASE UNCHANGED vars
  BY <1>1, <1>12 DEF vars
<1> QED
  BY <1>2, <1>3, <1>4, <1>5, <1>6, <1>7, <1>8, <1>9, <1>10, <1>11, <1>12
     DEF Next, Step

(* Before the first run there is nothing to vouch for.                     *)
LEMMA FlagInvFirst == Init => FlagInv
<1> SUFFICES ASSUME Init
             PROVE  FlagInv
  OBVIOUS
<1>1. Switches /\ running \in BOOLEAN /\ ~running /\ flag = {}
  BY DEF Init, Switches
<1>2. at \in 1..Len(Order) /\ stage \in Stages /\ breaks \in Nat
  BY OrderType, Names DEF Init
<1>3. source \in [Packages -> Contents] /\ install \in [Packages -> Contents]
  BY Names DEF Init
<1> QED
  BY <1>1, <1>2, <1>3 DEF FlagInv, FlagMeansInstalled, TypeOK, Progress

(* A flag file means a complete and clean install, wherever earlier runs   *)
(* broke off.                                                              *)
THEOREM FlagsCorrect == Spec => []FlagMeansInstalled
<1>1. FlagInv => FlagMeansInstalled
  BY DEF FlagInv
<1> QED
  BY <1>1, FlagInvFirst, FlagInvKept, PTL DEF Spec

-----------------------------------------------------------------------------
(* Everything before the function that runs is finished, and everything    *)
(* that a package was built on has its flag.                               *)
Sequence ==
    /\ running => \A j \in 1..7 : j < at => Order[j] \in flag
    /\ \A p \in Packages : install[p] # "none" => Needs(p) \subseteq flag

(* The path to boost, and with it the boost of the driver, gets lost only  *)
(* when a run breaks off between the two, and then for good.               *)
Path ==
    /\ "boost" \in flag /\ "mongo" \notin flag /\ ~split => running /\ boostPath
    /\ split => "boost" \in flag /\ (running => ~boostPath)
    /\ running /\ Current = "boost" /\ stage \in {"unpack", "make", "install", "touch"}
         => boostPath
    /\ "mongo" \in flag \/ (running /\ Current = "mongo" /\ stage \in {"install", "touch"})
         => IF split THEN linked = "system" /\ systemBoost ELSE linked = "full"

BuildInv == FlagInv /\ Sequence /\ Path

(* Functions run in order, and an install that others need is not removed  *)
(* any more.                                                               *)
LEMMA SequenceKept == FlagInv /\ Sequence /\ [Next]_vars => Sequence'
<1> SUFFICES ASSUME FlagInv, Sequence, [Next]_vars
             PROVE  Sequence'
  OBVIOUS
<1> USE OrderFacts, Names DEF FlagInv, FlagMeansInstalled, TypeOK, Progress, Sequence, Current, Do, Needs
<1>1. CASE Run
  BY <1>1 DEF Run
<1>2. CASE Check
  <2>1. CASE Skipped
    <3>1. Order[at] \in flag /\ UNCHANGED <<install, flag>> /\ running
      BY <1>2, <2>1 DEF Check, Skipped
    <3>2. CASE at = 7 /\ running' = FALSE
      BY <3>1, <3>2
    <3>3. CASE at' = at + 1 /\ at \in 1..6
      <4>1. \A j \in 1..7 : j < at' => j < at \/ j = at
        BY <3>3
      <4> QED
        BY <3>1, <4>1
    <3> QED
      BY <1>2, <2>1, <3>2, <3>3, LeaveMoves DEF Check
  <2>2. CASE ~Skipped
    BY <1>2, <2>2 DEF Check
  <2> QED
    BY <2>1, <2>2
<1>3. CASE CleanSource \/ Unpack \/ Make \/ MakeFails
  BY <1>3 DEF CleanSource, Unpack, Make, MakeFails
<1>4. CASE CleanInstall
  BY <1>4 DEF CleanInstall, Removed
<1>5. CASE Install
  <2>1. Needs(Current) \subseteq flag
    BY <1>5 DEF Install
  <2> QED
    BY <1>5, <2>1 DEF Install, Fill
<1>6. CASE Touch
  <2>1. /\ flag \subseteq flag' /\ Order[at] \in flag' /\ install' = install
        /\ running /\ Leave
    BY <1>6 DEF Touch
  <2>2. CASE at = 7 /\ running' = FALSE
    BY <2>1, <2>2
  <2>3. CASE at' = at + 1 /\ at \in 1..6
    <3>1. \A j \in 1..7 : j < at' => j < at \/ j = at
      BY <2>3
    <3> QED
      BY <2>1, <3>1
  <2> QED
    BY <2>1, <2>2, <2>3, LeaveMoves
<1>7. CASE Broken
  <2>1. CASE install' = install
    BY <1>7, <2>1 DEF Broken
  <2>2. CASE install' = [install EXCEPT ![Current] = Half("clean_install", "install", @)]
    <3>1. running /\ Needs(Current) \subseteq flag
      BY <1>7 DEF Broken
    <3> QED
      BY <1>7, <2>2, <3>1 DEF Broken
  <2> QED
    BY <1>7, <2>1, <2>2 DEF Broken
<1>8. CASE UNCHANGED vars
  BY <1>8 DEF vars
<1> QED
  BY <1>1, <1>2, <1>3, <1>4, <1>5, <1>6, <1>7, <1>8 DEF Next, Step

(* The driver is built while the path is set, or behind a run that broke   *)
(* off, with the boost of the machine.                                     *)
LEMMA PathKept == BuildInv /\ [Next]_vars => Path'
<1> SUFFICES ASSUME BuildInv, [Next]_vars
             PROVE  Path'
  OBVIOUS
<1> USE OrderFacts, Names
    DEF BuildInv, FlagInv, FlagMeansInstalled, TypeOK, Progress, Sequence, Path, Current, Do, machine
<1>1. CASE Run
  BY <1>1 DEF Run
<1>2. CASE Step
  <2>1. UNCHANGED <<systemBoost, split>>
    BY <1>2 DEF Step
  <2>2. CASE Check
    <3>1. UNCHANGED <<flag, linked, boostPath>> /\ running
      BY <2>2 DEF Check
    <3>2. CASE Skipped /\ at = 7
      <4>1. "mongo" \in flag /\ running' = FALSE
        BY <2>2, <3>2, LastLeave DEF Check
      <4> QED
        BY <2>1, <3>1, <4>1
    <3>3. CASE Skipped /\ at # 7
      <4>1. running' = running /\ stage' = "check"
        BY <2>2, <3>3, LeaveMoves DEF Check
      <4> QED
        BY <2>1, <3>1, <4>1
    <3>4. CASE ~Skipped
      BY <2>1, <2>2, <3>1, <3>4 DEF Check
    <3> QED
      BY <3>2, <3>3, <3>4
  <2>3. CASE CleanSource \/ Unpack
    BY <2>1, <2>3 DEF CleanSource, Unpack
  <2>4. CASE CleanInstall
    BY <2>1, <2>4 DEF CleanInstall, PathSet
  <2>5. CASE Make
    <3>1. UNCHANGED <<flag, boostPath, running, at>> /\ stage' = "install"
      BY <2>5 DEF Make
    <3>2. CASE Current = "mongo"
      <4>1. "boost" \in flag /\ "mongo" \notin flag
        BY <2>5, <3>2 DEF Make
      <4>2. split => linked' = "system" /\ systemBoost
        BY <2>5, <3>2, <4>1 DEF Make, CanMake, BoostFound
      <4>3. ~split => linked' = "full"
        BY <2>5, <3>2, <4>1 DEF Make
      <4> QED
        BY <2>1, <3>1, <3>2, <4>1, <4>2, <4>3
    <3>3. CASE Current # "mongo"
      BY <2>1, <2>5, <3>1, <3>3 DEF Make
    <3> QED
      BY <3>2, <3>3
  <2>6. CASE MakeFails
    <3>1. running /\ running' = FALSE /\ UNCHANGED <<flag, linked, boostPath, at, stage>>
      BY <2>6 DEF MakeFails
    <3>2. Current = "boost" => CanMake
      BY DEF CanMake, Needs
    <3>3. Current = "mongo" /\ boostPath => CanMake
      BY DEF CanMake, Needs, BoostFound
    <3>4. "boost" \in flag /\ "mongo" \notin flag => Current = "mongo"
      BY <2>6, <3>2 DEF MakeFails
    <3> QED
      BY <2>1, <2>6, <3>1, <3>3, <3>4 DEF MakeFails
  <2>7. CASE Install
    BY <2>1, <2>7 DEF Install
  <2>8. CASE Touch
    <3>1. flag' = flag \union {Current} /\ UNCHANGED <<linked, boostPath>>
      BY <2>8 DEF Touch
    <3>2. Current = "boost" => boostPath
      BY <2>8 DEF Touch
    <3>3. Current = "boost" => "mongo" \notin flag' \/ "mongo" \in flag
      BY <3>1
    <3>4. CASE at = 7
      <4>1. "mongo" \in flag /\ running' = FALSE
        BY <2>8, <3>4, LastLeave DEF Touch
      <4> QED
        BY <2>1, <2>8, <3>1, <3>4, <4>1 DEF Touch
    <3>5. CASE at # 7
      <4>1. running' /\ running /\ stage' = "check"
        BY <2>8, <3>5, LeaveMoves DEF Touch
      <4> QED
        BY <2>1, <2>8, <3>1, <3>2, <3>3, <4>1 DEF Touch
    <3> QED
      BY <3>4, <3>5
  <2> QED
    BY <1>2, <2>2, <2>3, <2>4, <2>5, <2>6, <2>7, <2>8 DEF Step
<1>3. CASE Broken
  <2>1. /\ running' = FALSE /\ UNCHANGED <<flag, linked, boostPath, systemBoost>>
        /\ split' = (split \/ ("boost" \in flag /\ "mongo" \notin flag))
    BY <1>3 DEF Broken
  <2> QED
    BY <2>1
<1>4. CASE UNCHANGED vars
  BY <1>4 DEF vars
<1> QED
  BY <1>1, <1>2, <1>3, <1>4 DEF Next

(* What a package is built on is finished before it and stays.  The driver *)
(* is built on the boost of third_party/, unless a run broke off between   *)
(* the flags of the two: then, if it is built at all, on the machine's.    *)
THEOREM BuildsOnOurs == Spec => []BuiltOnOurs
<1>1. Init => BuildInv
  <2> SUFFICES ASSUME Init
               PROVE  BuildInv
    OBVIOUS
  <2>1. Sequence
    BY DEF Init, Sequence
  <2>2. Path
    BY DEF Init, Path
  <2> QED
    BY <2>1, <2>2, FlagInvFirst DEF BuildInv
<1>2. BuildInv /\ [Next]_vars => BuildInv'
  BY FlagInvKept, SequenceKept, PathKept DEF BuildInv
<1>3. BuildInv => BuiltOnOurs
  BY OrderFacts DEF BuildInv, FlagInv, FlagMeansInstalled, Sequence, Path, BuiltOnOurs, Needs
<1> QED
  BY <1>1, <1>2, <1>3, PTL DEF Spec

=============================================================================
