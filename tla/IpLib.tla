-------------------------------- MODULE IpLib --------------------------------
(***************************************************************************)
(* The Python module ip_lib (ip_lib/ip_lib.cpp): a table of its own and    *)
(* IP2Location objects, each with a table, that Python code of any number  *)
(* of threads loads, searches and cleans up.  The interpreter lock makes   *)
(* every call one step, with one exception: __init__ with a callback calls *)
(* back into Python for every line, and there other threads, or the        *)
(* callback itself, call anything, on the same object too.                 *)
(*                                                                         *)
(* A line is the range it stands for (IpTable has the addresses), and a    *)
(* lookup is the whole binary search of IPLib::GetCountry.                 *)
(***************************************************************************)
EXTENDS Integers, Sequences, FiniteSets

CONSTANTS
    Objects,     (* IP2Location objects                                    *)
    Threads,     (* loads with a callback that can go on at a time         *)
    Ranges,      (* [start, end, country]: what a line can stand for       *)
    Paths, Dict, (* Dict[p] is the ranges in the file p, in order          *)
    Missing,     (* a path without a file                                  *)
    Addresses,
    MaxFiles,    (* files a process can have open                          *)
    MaxLoads,    (* bound on the loads with a callback                     *)
    Module,      (* stands for the table of the module                     *)
    None

Tables == Objects \union {Module}

Sorted(rows) ==
    \A i, j \in DOMAIN rows : i < j =>
        rows[i].start <= rows[j].start /\ rows[i].end < rows[j].start

(* A load in a callback: of the object of, at the line at of its file.     *)
Loads == [id : Nat, of : Objects, path : Paths, at : Nat]

(* Dictionaries are sorted, without overlaps, and begin at 0.0.0.0.        *)
ASSUME DictAssumption ==
    /\ Missing \notin Paths /\ Module \notin Objects /\ None \notin Loads
    /\ MaxFiles \in Nat /\ MaxLoads \in Nat
    /\ Addresses \subseteq Nat
    /\ \A r \in Ranges : r.start \in Nat /\ r.end \in Nat
    /\ Dict \in [Paths -> Seq(Ranges)]
    /\ \A p \in Paths : Sorted(Dict[p]) /\ Dict[p] # <<>> /\ Dict[p][1].start = 0

VARIABLES
    table,    (* the rows of each table                                    *)
    load,     (* of each thread: the load it is in a callback of, or None  *)
    files,    (* files open between calls                                  *)
    loads,    (* the number of loads with a callback so far                *)
    error,    (* the error indicator of the interpreter                    *)
    crash,    (* "none", or what has ended the process                     *)
    result,   (* the last call: what it was asked, and answered            *)
    sources,  (* history: the loads the rows of each table came from       *)
    origins,  (* history: the files they came from                         *)
    gaps      (* history: tables where rows of a dictionary were left out  *)

vars == <<table, load, files, loads, error, crash, result, sources, origins, gaps>>

NoResult == [call |-> "none", of |-> None, ip |-> 0, ret |-> None]

Init ==
    /\ table = [o \in Tables |-> <<>>]
    /\ load = [t \in Threads |-> None]
    /\ files = 0 /\ loads = 0 /\ error = FALSE /\ crash = "none"
    /\ result = NoResult
    /\ sources = [o \in Tables |-> {}] /\ origins = [o \in Tables |-> {}] /\ gaps = {}

Loading(o) == \E t \in Threads : load[t] # None /\ load[t].of = o

(* A new table misses what a load under way has put into the old one.      *)
GapsOfNew(o) == IF Loading(o) THEN gaps \union {o} ELSE gaps \ {o}

(* The source of the rows LoadDict reads; loads have numbers from 0.       *)
WholeFile == -1

Answer(call, o, ip, ret) == result' = [call |-> call, of |-> o, ip |-> ip, ret |-> ret]

-----------------------------------------------------------------------------
(* What LoadDict makes of a file; it sees none if it cannot open it.       *)
Read(p) == IF p = Missing \/ files = MaxFiles THEN <<>> ELSE Dict[p]

(* IPLib::LoadDict, of load_dict or of __init__ without a callback: True,  *)
(* whatever came of it.                                                    *)
LoadDict(o, p) ==
    /\ crash = "none"
    /\ table' = [table EXCEPT ![o] = Read(p)]
    /\ Answer("load", o, 0, TRUE)
    /\ sources' = [sources EXCEPT ![o] = IF Read(p) = <<>> THEN {} ELSE {WholeFile}]
    /\ origins' = [origins EXCEPT ![o] = IF Read(p) = <<>> THEN {} ELSE {p}]
    /\ gaps' = GapsOfNew(o)
    /\ UNCHANGED <<load, files, loads, error, crash>>

(* A path or an address that is not a string: the functions set TypeError  *)
(* and return False.  (__init__ returns -1, and nothing has changed.)      *)
BadArgument(o) ==
    /\ crash = "none"
    /\ error' = TRUE
    /\ Answer("bad", o, 0, FALSE)
    /\ UNCHANGED <<table, load, files, loads, crash, sources, origins, gaps>>

CleanUp(o) ==
    /\ crash = "none"
    /\ table' = [table EXCEPT ![o] = <<>>]
    /\ Answer("cleanup", o, 0, TRUE)
    /\ sources' = [sources EXCEPT ![o] = {}]
    /\ origins' = [origins EXCEPT ![o] = {}]
    /\ gaps' = GapsOfNew(o)
    /\ UNCHANGED <<load, files, loads, error, crash>>

Covers(row, ip) == row.start <= ip /\ ip <= row.end

(* A floor and a ceil of the loop of GetCountry.                           *)
Bounds(rows) == (0..Len(rows)) \X (-1..Len(rows) - 1)

(* The loop from floor b[1] and ceil b[2] on: a row, 0 when there is none, *)
(* or -1 when it reads outside of the table (ceil = 0 - 1 is the largest   *)
(* size_t).                                                                *)
Search(rows, ip) ==
    LET Probe[b \in Bounds(rows)] ==
            LET mid == (b[1] + b[2]) \div 2
                row == rows[mid + 1]
            IN  IF b[2] = -1 THEN -1
                ELSE IF b[1] > b[2] THEN 0
                ELSE IF Covers(row, ip) THEN mid + 1
                ELSE IF ip < row.start THEN Probe[<<b[1], mid - 1>>]
                ELSE Probe[<<mid + 1, b[2]>>]
    IN  IF rows = <<>> THEN 0 ELSE Probe[<<0, Len(rows) - 1>>]

(* get_country of the module or of an object.                              *)
GetCountry(o, ip) ==
    /\ crash = "none"
    /\ LET r == Search(table[o], ip)
       IN  IF r = -1 THEN crash' = "overrun" /\ Answer("lookup", o, ip, None)
           ELSE /\ Answer("lookup", o, ip, IF r = 0 THEN None ELSE table[o][r].country)
                /\ UNCHANGED crash
    /\ UNCHANGED <<table, load, files, loads, error, sources, origins, gaps>>

-----------------------------------------------------------------------------
(* __init__ with a callback, on a new object or on one that has a table.   *)

(* fopen, whose result is not looked at, and the first call.  The file is  *)
(* never closed.                                                           *)
InitCallback(t, o, p) ==
    /\ crash = "none" /\ load[t] = None /\ loads < MaxLoads
    /\ loads' = loads + 1
    /\ IF p = Missing \/ files = MaxFiles
       THEN crash' = "no_file" /\ UNCHANGED <<load, files>>
       ELSE /\ load' = [load EXCEPT ![t] = [id |-> loads, of |-> o, path |-> p, at |-> 1]]
            /\ files' = files + 1
            /\ UNCHANGED crash
    /\ result' = NoResult
    /\ UNCHANGED <<table, error, sources, origins, gaps>>

(* Seeded fault: a loop that ends a line early.                            *)
ContinueLess(t) ==
    load' = [load EXCEPT ![t] = IF load[t].at + 1 >= Len(Dict[load[t].path]) THEN None
                                ELSE [load[t] EXCEPT !.at = @ + 1]]

(* fgets: the next line and its callback, or the end of the loop.          *)
Continue(t) ==
    load' = [load EXCEPT ![t] = IF load[t].at = Len(Dict[load[t].path]) THEN None
                                ELSE [load[t] EXCEPT !.at = @ + 1]]

(* Seeded fault: rows go in front.                                         *)
PushItemFront(rows, row) == <<row>> \o rows

PushItem(rows, row) == Append(rows, row)

(* The callback returns the three strings of its line.                     *)
CallbackReturns(t) ==
    /\ crash = "none" /\ load[t] # None
    /\ LET l == load[t]
       IN  /\ table' = [table EXCEPT ![l.of] = PushItem(@, Dict[l.path][l.at])]
           /\ sources' = [sources EXCEPT ![l.of] = @ \union {l.id}]
           /\ origins' = [origins EXCEPT ![l.of] = @ \union {l.path}]
    /\ Continue(t)
    /\ result' = NoResult
    /\ UNCHANGED <<files, loads, error, crash, gaps>>

(* It returns something else: the line is left out, and the error of       *)
(* PyArg_ParseTuple stays.                                                 *)
CallbackReturnsOther(t) ==
    /\ crash = "none" /\ load[t] # None
    /\ error' = TRUE
    /\ gaps' = gaps \union {load[t].of}
    /\ Continue(t)
    /\ result' = NoResult
    /\ UNCHANGED <<table, files, loads, crash, sources, origins>>

(* It raises an exception, or returns things that are not strings: a null  *)
(* pointer is used.                                                        *)
CallbackRaises(t) ==
    /\ crash = "none" /\ load[t] # None
    /\ crash' = "callback"
    /\ result' = NoResult
    /\ UNCHANGED <<table, load, files, loads, error, sources, origins, gaps>>

(* The last reference to an object goes: not during its __init__.          *)
Dealloc(o) ==
    /\ crash = "none" /\ ~Loading(o)
    /\ table' = [table EXCEPT ![o] = <<>>]
    /\ sources' = [sources EXCEPT ![o] = {}]
    /\ origins' = [origins EXCEPT ![o] = {}]
    /\ gaps' = gaps \ {o}
    /\ result' = NoResult
    /\ UNCHANGED <<load, files, loads, error, crash>>

-----------------------------------------------------------------------------
Next ==
    \/ \E o \in Tables :
        \/ \E p \in Paths \union {Missing} : LoadDict(o, p)
        \/ BadArgument(o) \/ CleanUp(o)
        \/ \E ip \in Addresses : GetCountry(o, ip)
    \/ \E o \in Objects, t \in Threads, p \in Paths \union {Missing} : InitCallback(t, o, p)
    \/ \E o \in Objects : Dealloc(o)
    \/ \E t \in Threads :
        CallbackReturns(t) \/ CallbackReturnsOther(t) \/ CallbackRaises(t)

Spec == Init /\ [][Next]_vars

-----------------------------------------------------------------------------
Rows == UNION {{Dict[p][i] : i \in DOMAIN Dict[p]} : p \in Paths}

TypeOK ==
    /\ table \in [Tables -> Seq(Ranges)]
    /\ \A o \in Tables : \A i \in DOMAIN table[o] : table[o][i] \in Rows
    /\ load \in [Threads -> Loads \union {None}]
    /\ \A t \in Threads : load[t] # None =>
        load[t].id < loads /\ load[t].at \in DOMAIN Dict[load[t].path]
    /\ files \in 0..MaxFiles /\ loads \in 0..MaxLoads /\ files <= loads
    /\ error \in BOOLEAN /\ crash \in {"none", "overrun", "no_file", "callback"}
    /\ sources \in [Tables -> SUBSET (WholeFile..loads - 1)] /\ gaps \subseteq Tables
    /\ origins \in [Tables -> SUBSET Paths]

(* Rows of one load are in order, with nothing loaded twice, whatever      *)
(* other threads do meanwhile: only a table with rows of two loads is not  *)
(* sorted.                                                                 *)
UnsortedOnlyIfMixed ==
    /\ TypeOK
    /\ \A o \in Tables : Cardinality(sources[o]) <= 1 => Sorted(table[o])

(* What a dictionary says of an address.                                   *)
Country(p, ip) ==
    LET hits == {i \in DOMAIN Dict[p] : Dict[p][i].start <= ip /\ ip <= Dict[p][i].end}
    IN  IF hits = {} THEN None ELSE Dict[p][CHOOSE i \in hits : TRUE].country

(* A lookup, during a load as well, finds nothing or what a file says from *)
(* which the table got rows since it was last empty: never the country of  *)
(* a file of another object, or of one loaded before.                      *)
AnswersOfADictionary ==
    result.call = "lookup" =>
        result.ret \in {None} \union {Country(p, result.ip) : p \in origins[result.of]}

(* A table that was loaded to the end, by one load and without cleanups    *)
(* meanwhile, holds the file of that load and answers as it says.          *)
WholeAnswers ==
    LET o == result.of
    IN  /\ result.call = "lookup" /\ crash = "none"
        /\ o \notin gaps /\ Cardinality(sources[o]) = 1 /\ ~Loading(o)
        => \E p \in Paths : /\ origins[o] = {p} /\ table[o] = Dict[p]
                            /\ result.ret = Country(p, result.ip)

LookupsAreRight == AnswersOfADictionary /\ WholeAnswers

(* A lookup reads outside of a table only if rows were left out: they were *)
(* cleaned up during the load, the callback left them out, or two loads    *)
(* were mixed.                                                             *)
OverrunOnlyInGaps ==
    crash = "overrun" => result.of \in gaps \/ Cardinality(sources[result.of]) > 1

=============================================================================
