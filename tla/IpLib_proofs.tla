---------------------------- MODULE IpLib_proofs ----------------------------
(***************************************************************************)
(* Tables with the rows of one load are sorted, proved for any number of   *)
(* objects, threads and files and for dictionaries of any size.            *)
(***************************************************************************)
EXTENDS IpLib, FiniteSetTheorems, WellFoundedInduction, TLAPS

(* Rows that follow in a dictionary are rows.                              *)
LEMMA DictRows ==
    ASSUME NEW p \in Paths, NEW i \in DOMAIN Dict[p]
    PROVE  Dict[p][i] \in Rows /\ Dict[p][i] \in Ranges
  BY DictAssumption DEF Rows

(* What LoadDict reads is nothing or a dictionary.                         *)
LEMMA ReadRows ==
    ASSUME NEW p \in Paths \union {Missing}
    PROVE  /\ Read(p) \in Seq(Ranges) /\ Sorted(Read(p))
           /\ \A i \in DOMAIN Read(p) : Read(p)[i] \in Rows
           /\ Read(p) # <<>> => p \in Paths /\ Read(p) = Dict[p]
<1>1. CASE Read(p) = <<>>
  BY <1>1 DEF Sorted
<1>2. CASE p \in Paths /\ Read(p) = Dict[p]
  BY <1>2, DictRows, DictAssumption
<1> QED
  BY <1>1, <1>2 DEF Read

(* A row that begins behind all others is in order at the end.             *)
LEMMA AppendSorted ==
    ASSUME NEW rows \in Seq(Ranges), NEW r \in Ranges, Sorted(rows),
           \A i \in DOMAIN rows : rows[i].start <= r.start /\ rows[i].end < r.start
    PROVE  Sorted(Append(rows, r))
<1> SUFFICES ASSUME NEW i \in 1..Len(rows) + 1, NEW j \in 1..Len(rows) + 1, i < j
             PROVE  /\ Append(rows, r)[i].start <= Append(rows, r)[j].start
                    /\ Append(rows, r)[i].end < Append(rows, r)[j].start
  BY DEF Sorted
<1>1. i \in 1..Len(rows) /\ Append(rows, r)[i] = rows[i]
  OBVIOUS
<1>2. CASE j = Len(rows) + 1
  BY <1>1, <1>2
<1>3. CASE j \in 1..Len(rows)
  BY <1>1, <1>3 DEF Sorted
<1> QED
  BY <1>2, <1>3

-----------------------------------------------------------------------------
(* A load continues at a line of its file, or is over.                     *)
LEMMA ContinueType ==
    ASSUME TypeOK, NEW t \in Threads, load[t] # None, Continue(t)
    PROVE  /\ load' \in [Threads -> Loads \union {None}]
           /\ \A u \in Threads \ {t} : load'[u] = load[u]
           /\ load'[t] # None =>
                /\ load'[t].id = load[t].id /\ load'[t].of = load[t].of
                /\ load'[t].path = load[t].path /\ load'[t].at = load[t].at + 1
                /\ load'[t].at \in DOMAIN Dict[load[t].path]
           /\ load'[t] = None => load[t].at = Len(Dict[load[t].path])
<1> DEFINE l == load[t]
<1>1. l \in Loads /\ l.at \in DOMAIN Dict[l.path] /\ Dict[l.path] \in Seq(Ranges)
  BY DictAssumption DEF TypeOK, Loads
<1>2. CASE l.at = Len(Dict[l.path])
  <2>1. load' = [load EXCEPT ![t] = None]
    BY <1>2 DEF Continue
  <2> QED
    BY <1>2, <2>1 DEF TypeOK
<1>3. CASE l.at # Len(Dict[l.path])
  <2>1. load' = [load EXCEPT ![t] = [l EXCEPT !.at = l.at + 1]]
    <3>1. load' = [load EXCEPT ![t] = IF l.at = Len(Dict[l.path]) THEN None
                                      ELSE [l EXCEPT !.at = l.at + 1]]
      BY DEF Continue
    <3> QED
      BY <1>3, <3>1
  <2>2. [l EXCEPT !.at = l.at + 1] \in Loads
    BY <1>1 DEF Loads
  <2>3. l.at + 1 \in DOMAIN Dict[l.path]
    BY <1>1, <1>3
  <2>4. load'[t] # None
    BY <2>1, <2>2, DictAssumption DEF TypeOK
  <2> QED
    BY <1>1, <2>1, <2>2, <2>3, <2>4 DEF TypeOK, Loads
<1> QED
  BY <1>2, <1>3

(* Types: tables hold rows of the dictionaries, loads are at lines of      *)
(* their files.                                                            *)
THEOREM TypeCorrect == Spec => []TypeOK
<1>1. Init => TypeOK
  <2> SUFFICES ASSUME Init
               PROVE  TypeOK
    OBVIOUS
  <2>1. table \in [Tables -> Seq(Ranges)] /\ \A o \in Tables : DOMAIN table[o] = {}
    BY DEF Init
  <2>2. load \in [Threads -> Loads \union {None}] /\ \A t \in Threads : load[t] = None
    BY DEF Init
  <2>3. files \in 0..MaxFiles /\ loads \in 0..MaxLoads /\ files <= loads
    BY DictAssumption DEF Init
  <2>4. error \in BOOLEAN /\ crash \in {"none", "overrun", "no_file", "callback"}
    BY DEF Init
  <2>5. /\ sources \in [Tables -> SUBSET (WholeFile..loads - 1)] /\ gaps \subseteq Tables
        /\ origins \in [Tables -> SUBSET Paths]
    BY DEF Init
  <2> QED
    BY <2>1, <2>2, <2>3, <2>4, <2>5 DEF TypeOK
<1>2. TypeOK /\ [Next]_vars => TypeOK'
  <2> SUFFICES ASSUME TypeOK, [Next]_vars
               PROVE  TypeOK'
    OBVIOUS
  <2> USE DictAssumption DEF TypeOK, Tables, WholeFile
  <2>1. ASSUME NEW o \in Tables, NEW p \in Paths \union {Missing}, LoadDict(o, p)
        PROVE  TypeOK'
    BY <2>1, ReadRows DEF LoadDict, GapsOfNew
  <2>2. ASSUME NEW o \in Tables, BadArgument(o)
        PROVE  TypeOK'
    BY <2>2 DEF BadArgument
  <2>3. ASSUME NEW o \in Tables, CleanUp(o)
        PROVE  TypeOK'
    BY <2>3 DEF CleanUp, GapsOfNew
  <2>4. ASSUME NEW o \in Tables, NEW ip \in Addresses, GetCountry(o, ip)
        PROVE  TypeOK'
    BY <2>4 DEF GetCountry
  <2>5. ASSUME NEW o \in Objects, NEW t \in Threads, NEW p \in Paths \union {Missing},
               InitCallback(t, o, p)
        PROVE  TypeOK'
    <3>1. CASE p = Missing \/ files = MaxFiles
      <4>1. crash' = "no_file" /\ UNCHANGED <<load, files, table, error, sources, origins, gaps>>
        BY <2>5, <3>1 DEF InitCallback
      <4>2. loads' = loads + 1 /\ loads < MaxLoads
        BY <2>5 DEF InitCallback
      <4>3. sources' \in [Tables -> SUBSET (WholeFile..loads' - 1)]
        BY <4>1, <4>2
      <4>4. \A u \in Threads : load'[u] # None =>
              load'[u].id < loads' /\ load'[u].at \in DOMAIN Dict[load'[u].path]
        BY <4>1, <4>2 DEF Loads
      <4>5. loads' \in 0..MaxLoads /\ files' <= loads'
        BY <4>1, <4>2
      <4> QED
        BY <4>1, <4>3, <4>4, <4>5
    <3>2. CASE ~(p = Missing \/ files = MaxFiles)
      <4>1. Dict[p] \in Seq(Ranges) /\ 1 \in DOMAIN Dict[p]
        BY <3>2
      <4>2. [id |-> loads, of |-> o, path |-> p, at |-> 1] \in Loads
        BY <3>2 DEF Loads
      <4>3. /\ load' = [load EXCEPT ![t] = [id |-> loads, of |-> o, path |-> p, at |-> 1]]
            /\ loads' = loads + 1 /\ loads < MaxLoads /\ files' = files + 1
            /\ UNCHANGED <<table, error, sources, origins, gaps, crash>>
        BY <2>5, <3>2 DEF InitCallback
      <4>4. /\ load' \in [Threads -> Loads \union {None}]
            /\ \A u \in Threads : load'[u] # None =>
                 load'[u].id < loads' /\ load'[u].at \in DOMAIN Dict[load'[u].path]
        <5>1. load'[t].id < loads' /\ load'[t].at \in DOMAIN Dict[load'[t].path]
          BY <4>1, <4>3
        <5>2. ASSUME NEW u \in Threads \ {t}, load'[u] # None
              PROVE  load'[u].id < loads' /\ load'[u].at \in DOMAIN Dict[load'[u].path]
          BY <4>3, <5>2 DEF Loads
        <5> QED
          BY <4>2, <4>3, <5>1, <5>2
      <4>5. files' \in 0..MaxFiles /\ loads' \in 0..MaxLoads /\ files' <= loads'
        BY <3>2, <4>3
      <4>6. sources' \in [Tables -> SUBSET (WholeFile..loads' - 1)]
        BY <4>3
      <4> QED
        BY <4>3, <4>4, <4>5, <4>6
    <3> QED
      BY <3>1, <3>2
  <2>6. ASSUME NEW o \in Objects, Dealloc(o)
        PROVE  TypeOK'
    BY <2>6 DEF Dealloc
  <2>7. ASSUME NEW t \in Threads, CallbackReturns(t)
        PROVE  TypeOK'
    <3> DEFINE l == load[t]
               row == Dict[l.path][l.at]
    <3>1. l \in Loads /\ row \in Rows /\ row \in Ranges
      BY <2>7, DictRows DEF CallbackReturns, Loads
    <3>2. table' = [table EXCEPT ![l.of] = Append(@, row)]
      BY <2>7 DEF CallbackReturns, PushItem
    <3>3. sources' = [sources EXCEPT ![l.of] = @ \union {l.id}]
      BY <2>7 DEF CallbackReturns
    <3>4. /\ load' \in [Threads -> Loads \union {None}]
          /\ \A u \in Threads : load'[u] # None =>
               load'[u].id < loads /\ load'[u].at \in DOMAIN Dict[load'[u].path]
      BY <2>7, ContinueType DEF CallbackReturns
    <3>5. /\ table' \in [Tables -> Seq(Ranges)]
          /\ \A o \in Tables : \A i \in DOMAIN table'[o] : table'[o][i] \in Rows
      BY <3>1, <3>2 DEF Loads
    <3>6. sources' \in [Tables -> SUBSET (WholeFile..loads - 1)]
      BY <2>7, <3>1, <3>3 DEF CallbackReturns, Loads
    <3>7. origins' \in [Tables -> SUBSET Paths]
      BY <2>7, <3>1 DEF CallbackReturns, Loads
    <3> QED
      BY <2>7, <3>4, <3>5, <3>6, <3>7 DEF CallbackReturns
  <2>8. ASSUME NEW t \in Threads, CallbackReturnsOther(t)
        PROVE  TypeOK'
    <3>1. /\ load[t] # None /\ Continue(t) /\ error' = TRUE /\ gaps' = gaps \union {load[t].of}
          /\ UNCHANGED <<table, files, loads, crash, sources, origins>>
      BY <2>8 DEF CallbackReturnsOther
    <3>2. load[t] \in Loads /\ load[t].id < loads /\ load[t].of \in Objects
      BY <3>1 DEF Loads
    <3>3. /\ load' \in [Threads -> Loads \union {None}]
          /\ \A u \in Threads : load'[u] # None =>
               load'[u].id < loads /\ load'[u].at \in DOMAIN Dict[load'[u].path]
      BY <3>1, <3>2, ContinueType
    <3> QED
      BY <3>1, <3>2, <3>3
  <2>9. ASSUME NEW t \in Threads, CallbackRaises(t)
        PROVE  TypeOK'
    BY <2>9 DEF CallbackRaises
  <2>10. CASE UNCHANGED vars
    BY <2>10 DEF vars
  <2> QED
    BY <2>1, <2>2, <2>3, <2>4, <2>5, <2>6, <2>7, <2>8, <2>9, <2>10 DEF Next
<1> QED
  BY <1>1, <1>2, PTL DEF Spec

-----------------------------------------------------------------------------
(* The invariant behind UnsortedOnlyIfMixed.  Loads under way have numbers *)
(* of their own; a table with rows of one load only has rows from in front *)
(* of the line at which that load is, and they are sorted.                 *)
Numbered ==
    \A t, u \in Threads :
        load[t] # None /\ load[u] # None /\ load[t].id = load[u].id => t = u

Behind(o, l) ==
    \A i \in DOMAIN table[o] : \E j \in 1..l.at - 1 : table[o][i] = Dict[l.path][j]

RowsBehind ==
    \A t \in Threads :
        load[t] # None /\ sources[load[t].of] \subseteq {load[t].id}
            => Behind(load[t].of, load[t])

OneSource(o) == \A m, n \in sources[o] : m = n

SortedTables ==
    \A o \in Tables :
        /\ sources[o] = {} => table[o] = <<>>
        /\ OneSource(o) => Sorted(table[o])

OrderInv == Numbered /\ RowsBehind /\ SortedTables

(* Loads that push nothing change nothing for the others, and what resets  *)
(* a table leaves it without rows of a load under way.                     *)
LEMMA ResetKeepsOrder ==
    ASSUME TypeOK, OrderInv, NEW o \in Tables, NEW rows, NEW srcs,
           Sorted(rows), load' = load,
           table' = [table EXCEPT ![o] = rows],
           sources' = [sources EXCEPT ![o] = srcs],
           \/ rows = <<>> /\ srcs = {}
           \/ srcs = {WholeFile}
    PROVE  OrderInv'
<1> USE DEF TypeOK, Tables
<1>1. Numbered'
  BY DEF OrderInv, Numbered
<1>2. SortedTables'
  BY DEF OrderInv, SortedTables, OneSource
<1>3. RowsBehind'
  <2> SUFFICES ASSUME NEW t \in Threads, load[t] # None,
                      sources'[load[t].of] \subseteq {load[t].id}
               PROVE  Behind(load[t].of, load[t])'
    BY DEF RowsBehind
  <2>1. load[t].id \in Nat /\ load[t].of \in Objects
    BY DEF Loads
  <2>2. CASE load[t].of # o
    BY <2>1, <2>2 DEF OrderInv, RowsBehind, Behind
  <2>3. CASE load[t].of = o /\ rows = <<>>
    BY <2>1, <2>3 DEF Behind
  <2>4. CASE load[t].of = o /\ srcs = {WholeFile}
    BY <2>1, <2>4 DEF WholeFile
  <2> QED
    BY <2>2, <2>3, <2>4
<1> QED
  BY <1>1, <1>2, <1>3 DEF OrderInv

(* A new load has a number that no table and no other load has.            *)
LEMMA NewLoadKeepsOrder ==
    ASSUME TypeOK, OrderInv, NEW t \in Threads, NEW o \in Objects,
           NEW p \in Paths \union {Missing}, InitCallback(t, o, p)
    PROVE  OrderInv'
<1> USE DEF TypeOK, Tables
<1>1. table' = table /\ sources' = sources
  BY DEF InitCallback
<1>2. SortedTables'
  BY <1>1 DEF OrderInv, SortedTables, OneSource
<1>3. CASE load' = load
  BY <1>1, <1>2, <1>3 DEF OrderInv, Numbered, RowsBehind, Behind
<1>4. CASE load' # load
  <2> DEFINE l == [id |-> loads, of |-> o, path |-> p, at |-> 1]
  <2>1. load' = [load EXCEPT ![t] = l]
    BY <1>4 DEF InitCallback
  <2>2. \A u \in Threads : load[u] # None => load[u].id < loads /\ load[u].id \in Nat
    BY DEF Loads
  <2>3. load'[t] = l /\ \A u \in Threads \ {t} : load'[u] = load[u]
    BY <2>1
  <2>4. Numbered'
    BY <2>2, <2>3 DEF OrderInv, Numbered
  <2>5. sources[o] \subseteq {loads} => table[o] = <<>>
    BY DEF OrderInv, SortedTables, WholeFile
  <2>6. RowsBehind'
    <3> SUFFICES ASSUME NEW u \in Threads, load'[u] # None,
                        sources[load'[u].of] \subseteq {load'[u].id}
                 PROVE  Behind(load[u].of, load[u])'
      BY <1>1 DEF RowsBehind
    <3>1. CASE u = t
      BY <1>1, <2>3, <2>5, <3>1 DEF Behind
    <3>2. CASE u # t
      <4>1. load'[u] = load[u] /\ load[u] # None
        BY <2>3, <3>2
      <4>2. sources[load[u].of] \subseteq {load[u].id}
        BY <4>1
      <4>3. Behind(load[u].of, load[u])
        BY <4>1, <4>2 DEF OrderInv, RowsBehind
      <4> QED
        BY <1>1, <4>1, <4>3 DEF Behind
    <3> QED
      BY <3>1, <3>2
  <2> QED
    BY <1>2, <2>4, <2>6 DEF OrderInv
<1> QED
  BY <1>3, <1>4

(* A line that is left out only moves its load on.                         *)
LEMMA SkipKeepsOrder ==
    ASSUME TypeOK, OrderInv, NEW t \in Threads, CallbackReturnsOther(t)
    PROVE  OrderInv'
<1> USE DEF TypeOK, Tables
<1>1. table' = table /\ sources' = sources /\ load[t] # None /\ Continue(t)
  BY DEF CallbackReturnsOther
<1>2. SortedTables'
  BY <1>1 DEF OrderInv, SortedTables, OneSource
<1>3. Numbered'
  BY <1>1, ContinueType DEF OrderInv, Numbered
<1>4. RowsBehind'
  <2> SUFFICES ASSUME NEW u \in Threads, load'[u] # None,
                      sources[load'[u].of] \subseteq {load'[u].id}
               PROVE  Behind(load[u].of, load[u])'
    BY <1>1 DEF RowsBehind
  <2>1. CASE u = t
    <3>1. /\ load'[t].of = load[t].of /\ load'[t].path = load[t].path
          /\ load'[t].id = load[t].id /\ load'[t].at = load[t].at + 1
      BY <1>1, <2>1, ContinueType
    <3>2. Behind(load[t].of, load[t]) /\ load[t].at \in Nat
      BY <1>1, <2>1, <3>1 DEF OrderInv, RowsBehind, Loads
    <3>3. 1..load[t].at - 1 \subseteq 1..load'[t].at - 1
      BY <3>1, <3>2
    <3> QED
      BY <1>1, <2>1, <3>1, <3>2, <3>3 DEF Behind
  <2>2. CASE u # t
    <3>1. load'[u] = load[u] /\ load[u] # None
      BY <1>1, <2>2, ContinueType
    <3>2. sources[load[u].of] \subseteq {load[u].id}
      BY <3>1
    <3>3. Behind(load[u].of, load[u])
      BY <3>1, <3>2 DEF OrderInv, RowsBehind
    <3> QED
      BY <1>1, <3>1, <3>3 DEF Behind
  <2> QED
    BY <2>1, <2>2
<1> QED
  BY <1>2, <1>3, <1>4 DEF OrderInv

(* The row a load pushes comes behind all rows of that load.               *)
LEMMA PushKeepsOrder ==
    ASSUME TypeOK, OrderInv, NEW t \in Threads, CallbackReturns(t)
    PROVE  OrderInv'
<1> DEFINE l == load[t]
           row == Dict[l.path][l.at]
<1> USE DEF TypeOK, Tables
<1>1. /\ l \in Loads /\ l # None /\ Continue(t) /\ l.of \in Objects
      /\ l.at \in DOMAIN Dict[l.path] /\ l.at \in Nat /\ l.path \in Paths /\ row \in Ranges
  BY DictRows DEF CallbackReturns, Loads
<1>2. table' = [table EXCEPT ![l.of] = Append(@, row)]
  BY DEF CallbackReturns, PushItem
<1>3. sources' = [sources EXCEPT ![l.of] = @ \union {l.id}]
  BY DEF CallbackReturns
<1>4. Numbered'
  BY <1>1, ContinueType DEF OrderInv, Numbered
<1>5. \A o \in Tables : o # l.of => table'[o] = table[o] /\ sources'[o] = sources[o]
  BY <1>2, <1>3
<1>6. /\ table[l.of] \in Seq(Ranges) /\ table'[l.of] = Append(table[l.of], row)
      /\ sources'[l.of] = sources[l.of] \union {l.id}
  BY <1>1, <1>2, <1>3
<1>7. SortedTables'
  <2> SUFFICES ASSUME NEW o \in Tables
               PROVE  /\ sources'[o] = {} => table'[o] = <<>>
                      /\ OneSource(o)' => Sorted(table'[o])
    BY DEF SortedTables
  <2>1. CASE o # l.of
    BY <1>5, <2>1 DEF OrderInv, SortedTables, OneSource
  <2>2. CASE o = l.of
    <3> SUFFICES ASSUME OneSource(o)'
                 PROVE  Sorted(table'[o])
      BY <1>6, <2>2
    <3>1. sources[o] \subseteq {l.id} /\ OneSource(o)
      BY <1>6, <2>2 DEF OneSource
    <3>2. Behind(o, l) /\ Sorted(table[o])
      BY <1>1, <2>2, <3>1 DEF OrderInv, RowsBehind, SortedTables
    <3>3. Sorted(Dict[l.path]) /\ Dict[l.path] \in Seq(Ranges)
      BY <1>1, DictAssumption
    <3>4. \A j \in 1..l.at - 1 :
            Dict[l.path][j].start <= row.start /\ Dict[l.path][j].end < row.start
      <4>1. \A j \in 1..l.at - 1 : j \in DOMAIN Dict[l.path] /\ j < l.at
        BY <1>1, <3>3
      <4> QED
        BY <1>1, <3>3, <4>1 DEF Sorted
    <3>5. \A i \in DOMAIN table[o] :
            table[o][i].start <= row.start /\ table[o][i].end < row.start
      BY <3>2, <3>4 DEF Behind
    <3> QED
      BY <1>1, <1>6, <2>2, <3>2, <3>5, AppendSorted
  <2> QED
    BY <2>1, <2>2
<1>8. RowsBehind'
  <2> SUFFICES ASSUME NEW u \in Threads, load'[u] # None,
                      sources'[load'[u].of] \subseteq {load'[u].id}
               PROVE  Behind(load[u].of, load[u])'
    BY DEF RowsBehind
  <2>1. CASE u = t
    <3>1. /\ load'[t].of = l.of /\ load'[t].path = l.path
          /\ load'[t].id = l.id /\ load'[t].at = l.at + 1
      BY <1>1, <2>1, ContinueType
    <3>2. Behind(l.of, l)
      BY <1>1, <1>6, <2>1, <3>1 DEF OrderInv, RowsBehind
    <3> SUFFICES ASSUME NEW i \in DOMAIN table'[l.of]
                 PROVE  \E j \in 1..l.at : table'[l.of][i] = Dict[l.path][j]
      BY <1>1, <2>1, <3>1 DEF Behind
    <3>3. CASE i \in DOMAIN table[l.of]
      <4>1. PICK j \in 1..l.at - 1 : table[l.of][i] = Dict[l.path][j]
        BY <3>2, <3>3 DEF Behind
      <4>2. table'[l.of][i] = table[l.of][i] /\ j \in 1..l.at
        BY <1>1, <1>6, <3>3
      <4> QED
        BY <4>1, <4>2
    <3>4. CASE i \notin DOMAIN table[l.of]
      <4>1. i = Len(table[l.of]) + 1
        BY <1>6, <3>4
      <4>2. table'[l.of][i] = row
        BY <1>6, <4>1
      <4>3. l.at \in 1..l.at
        <5>1. Dict[l.path] \in Seq(Ranges)
          BY <1>1, DictAssumption
        <5> QED
          BY <1>1, <5>1
      <4> QED
        BY <4>2, <4>3
    <3> QED
      BY <3>3, <3>4
  <2>2. CASE u # t
    <3>1. load'[u] = load[u] /\ load[u] # None
      BY <1>1, <2>2, ContinueType
    <3>2. load[u].id # l.id /\ load[u].of \in Objects
      BY <1>1, <2>2, <3>1 DEF OrderInv, Numbered, Loads
    <3>3. load[u].of # l.of
      BY <1>6, <3>1, <3>2
    <3>4. /\ table'[load[u].of] = table[load[u].of]
          /\ sources'[load[u].of] = sources[load[u].of]
      BY <1>5, <3>2, <3>3
    <3>5. Behind(load[u].of, load[u])
      BY <3>1, <3>4 DEF OrderInv, RowsBehind
    <3> QED
      BY <3>1, <3>4, <3>5 DEF Behind
  <2> QED
    BY <2>1, <2>2
<1> QED
  BY <1>4, <1>7, <1>8 DEF OrderInv

(* The rows of a table come from finitely many loads.                      *)
LEMMA FiniteSources ==
    ASSUME TypeOK, NEW o \in Tables
    PROVE  IsFiniteSet(sources[o])
<1>1. loads \in Int /\ WholeFile \in Int /\ loads - 1 \in Int
  BY DictAssumption DEF TypeOK, WholeFile
<1>2. IsFiniteSet(WholeFile..loads - 1)
  BY <1>1, FS_Interval
<1>3. sources[o] \in SUBSET (WholeFile..loads - 1)
  BY DEF TypeOK
<1> HIDE DEF WholeFile
<1> QED
  BY <1>2, <1>3, FS_Subset

(* A set with at most one member.                                          *)
LEMMA AtMostOne ==
    ASSUME TypeOK, NEW o \in Tables, Cardinality(sources[o]) <= 1
    PROVE  OneSource(o)
<1> SUFFICES ASSUME NEW m \in sources[o], NEW n \in sources[o], m # n
             PROVE  FALSE
  BY DEF OneSource
<1>2. IsFiniteSet(sources[o])
  BY FiniteSources
<1>3. Cardinality({m, n}) = 2
  <2>1. IsFiniteSet({n}) /\ Cardinality({n}) = 1
    BY FS_Singleton
  <2>2. {m, n} = {n} \union {m} /\ m \notin {n}
    OBVIOUS
  <2> QED
    BY <2>1, <2>2, FS_AddElement
<1>4. Cardinality({m, n}) <= Cardinality(sources[o])
  BY <1>2, FS_Subset
<1>5. Cardinality(sources[o]) \in Nat
  BY <1>2, FS_CardinalityType
<1> QED
  BY <1>3, <1>4, <1>5

(* An empty table is in order.                                             *)
LEMMA OrderFirst == Init => OrderInv
  BY DEF Init, OrderInv, Numbered, RowsBehind, SortedTables, Sorted

(* Every step keeps the order.                                             *)
LEMMA OrderKept == TypeOK /\ OrderInv /\ [Next]_vars => OrderInv'
<1> SUFFICES ASSUME TypeOK, OrderInv, [Next]_vars
             PROVE  OrderInv'
  OBVIOUS
<1>1. ASSUME NEW o \in Tables, NEW p \in Paths \union {Missing}, LoadDict(o, p)
      PROVE  OrderInv'
  BY <1>1, ReadRows, ResetKeepsOrder DEF LoadDict
<1>2. ASSUME NEW o \in Tables, CleanUp(o) \/ (o \in Objects /\ Dealloc(o))
      PROVE  OrderInv'
  <2>1. Sorted(<<>>)
    BY DEF Sorted
  <2> QED
    BY <1>2, <2>1, ResetKeepsOrder DEF CleanUp, Dealloc
<1>3. ASSUME UNCHANGED <<table, sources, load>>
      PROVE  OrderInv'
  BY <1>3 DEF OrderInv, Numbered, RowsBehind, Behind, SortedTables, OneSource
<1>4. ASSUME NEW o \in Tables,
             BadArgument(o) \/ (\E ip \in Addresses : GetCountry(o, ip))
      PROVE  UNCHANGED <<table, sources, load>>
  BY <1>4 DEF BadArgument, GetCountry
<1>5. ASSUME NEW t \in Threads, CallbackRaises(t)
      PROVE  UNCHANGED <<table, sources, load>>
  BY <1>5 DEF CallbackRaises
<1>6. CASE UNCHANGED vars
  BY <1>3, <1>6 DEF vars
<1> QED
  BY <1>1, <1>2, <1>3, <1>4, <1>5, <1>6, NewLoadKeepsOrder, SkipKeepsOrder, PushKeepsOrder
     DEF Next, Tables

(* A table is unsorted only if it holds rows of two loads, whatever other  *)
(* threads load, look up, clean up and drop during a callback.             *)
THEOREM TablesSorted == Spec => []UnsortedOnlyIfMixed
<1>1. TypeOK /\ OrderInv => UnsortedOnlyIfMixed
  BY AtMostOne DEF UnsortedOnlyIfMixed, OrderInv, SortedTables
<1> QED
  BY <1>1, OrderFirst, OrderKept, TypeCorrect, PTL DEF Spec

-----------------------------------------------------------------------------
(* The binary search.  Its bounds come closer with every round, so the     *)
(* least distance at which something is not as stated does not exist.      *)

(* A set of naturals has a least member.                                   *)
LEMMA LeastNatural ==
    ASSUME NEW S \in SUBSET Nat, S # {}
    PROVE  \E m \in S : \A n \in S : m <= n
<1>1. \E x \in S : \A y \in S : ~(<<y, x>> \in OpToRel(<, Nat))
  BY NatLessThanWellFounded, WFMin
<1>2. \A x, y \in S : y < x => <<y, x>> \in OpToRel(<, Nat)
  BY DEF OpToRel
<1>3. \A x, y \in S : ~(y < x) => x <= y
  OBVIOUS
<1> QED
  BY <1>1, <1>2, <1>3, Zenon

(* One round of the loop, with f for the rounds that follow it.            *)
Round(rows, ip, f, b) ==
    LET mid == (b[1] + b[2]) \div 2
        row == rows[mid + 1]
    IN  IF b[2] = -1 THEN -1
        ELSE IF b[1] > b[2] THEN 0
        ELSE IF Covers(row, ip) THEN mid + 1
        ELSE IF ip < row.start THEN f[<<b[1], mid - 1>>]
        ELSE f[<<mid + 1, b[2]>>]

Width(b) == b[2] - b[1]

(* The row a round looks at is between its bounds, and the bounds of the   *)
(* next one are closer.                                                    *)
LEMMA Closer ==
    ASSUME NEW rows \in Seq(Ranges), NEW b \in Bounds(rows), b[1] <= b[2],
           NEW mid, mid = (b[1] + b[2]) \div 2
    PROVE  /\ b[1] <= mid /\ mid <= b[2] /\ mid \in 0..Len(rows) - 1
           /\ <<b[1], mid - 1>> \in Bounds(rows) /\ Width(<<b[1], mid - 1>>) < Width(b)
           /\ <<mid + 1, b[2]>> \in Bounds(rows) /\ Width(<<mid + 1, b[2]>>) < Width(b)
<1>1. b[1] \in 0..Len(rows) /\ b[2] \in -1..Len(rows) - 1 /\ Len(rows) \in Nat
  BY DEF Bounds
<1>2. mid \in Int /\ b[1] <= mid /\ mid <= b[2]
  BY <1>1
<1> QED
  BY <1>1, <1>2 DEF Bounds, Width

(* What a round answers depends on the rounds with closer bounds only.     *)
LEMMA RoundsAgree ==
    ASSUME NEW rows \in Seq(Ranges), NEW ip, NEW b \in Bounds(rows), NEW f, NEW g,
           \A c \in Bounds(rows) : Width(c) < Width(b) => f[c] = g[c]
    PROVE  Round(rows, ip, f, b) = Round(rows, ip, g, b)
<1> DEFINE mid == (b[1] + b[2]) \div 2
<1>1. CASE b[1] <= b[2]
  <2>1. f[<<b[1], mid - 1>>] = g[<<b[1], mid - 1>>] /\ f[<<mid + 1, b[2]>>] = g[<<mid + 1, b[2]>>]
    BY <1>1, Closer
  <2> QED
    BY <2>1 DEF Round
<1>2. CASE ~(b[1] <= b[2])
  BY <1>2 DEF Round, Bounds
<1> QED
  BY <1>1, <1>2

(* Rounds enough for bounds less than w apart.                             *)
RoundsUpTo(rows, ip, f, w) ==
    \A b \in Bounds(rows) : Width(b) < w => f[b] = Round(rows, ip, f, b)

(* The recursive definition of the search has a solution.                  *)
LEMMA RoundsExist ==
    ASSUME NEW rows \in Seq(Ranges), NEW ip
    PROVE  \A w \in Nat : \E f : RoundsUpTo(rows, ip, f, w)
<1> DEFINE Bad == {w \in Nat : ~ \E f : RoundsUpTo(rows, ip, f, w)}
<1> SUFFICES ASSUME Bad # {}
             PROVE  FALSE
  OBVIOUS
<1>1. PICK w \in Bad : \A v \in Bad : w <= v
  BY LeastNatural
<1>2. \A b \in Bounds(rows) : b[1] \in Nat /\ b[2] \in Int /\ Width(b) \in Int
  BY DEF Bounds, Width
<1>3. CASE w = 0
  <2> DEFINE f == [b \in Bounds(rows) |-> IF b[2] = -1 THEN -1 ELSE 0]
  <2>1. ASSUME NEW b \in Bounds(rows), Width(b) < 0
        PROVE  f[b] = Round(rows, ip, f, b)
    <3>1. b[1] > b[2] /\ f[b] = IF b[2] = -1 THEN -1 ELSE 0
      BY <1>2, <2>1 DEF Width
    <3> HIDE DEF f
    <3> QED
      BY <3>1 DEF Round
  <2> QED
    BY <1>1, <1>3, <2>1 DEF RoundsUpTo
<1>4. CASE w # 0
  <2>1. w - 1 \in Nat /\ w - 1 \notin Bad
    BY <1>1, <1>4
  <2>2. PICK g : RoundsUpTo(rows, ip, g, w - 1)
    BY <2>1
  <2> DEFINE f == [b \in Bounds(rows) |-> Round(rows, ip, g, b)]
  <2>3. ASSUME NEW b \in Bounds(rows), Width(b) < w
        PROVE  f[b] = Round(rows, ip, f, b)
    <3>1. ASSUME NEW c \in Bounds(rows), Width(c) < Width(b)
          PROVE  f[c] = g[c]
      <4>1. Width(c) < w - 1
        BY <1>1, <1>2, <2>3, <3>1
      <4>2. g[c] = Round(rows, ip, g, c)
        BY <2>2, <4>1 DEF RoundsUpTo
      <4> QED
        BY <4>2
    <3>2. Round(rows, ip, f, b) = Round(rows, ip, g, b)
      <4> HIDE DEF f
      <4> QED
        BY <3>1, RoundsAgree
    <3> QED
      BY <3>2
  <2>4. RoundsUpTo(rows, ip, f, w)
    BY <2>3 DEF RoundsUpTo
  <2> QED
    BY <1>1, <2>4
<1> QED
  BY <1>3, <1>4

(* The recursive function of Search, and that it is what it recurs to.     *)
Probes(rows, ip) ==
    CHOOSE f : f = [b \in Bounds(rows) |-> Round(rows, ip, f, b)]

(* Probes is that solution.                                                *)
LEMMA ProbesRound ==
    ASSUME NEW rows \in Seq(Ranges), NEW ip
    PROVE  \A b \in Bounds(rows) : Probes(rows, ip)[b] = Round(rows, ip, Probes(rows, ip), b)
<1>1. PICK g : RoundsUpTo(rows, ip, g, Len(rows) + 1)
  BY RoundsExist
<1> DEFINE f == [b \in Bounds(rows) |-> g[b]]
<1>2. \A b \in Bounds(rows) : Width(b) < Len(rows) + 1
  BY DEF Bounds, Width
<1>3. ASSUME NEW b \in Bounds(rows)
      PROVE  f[b] = Round(rows, ip, f, b)
  <2>1. g[b] = Round(rows, ip, g, b)
    BY <1>1, <1>2 DEF RoundsUpTo
  <2>2. \A c \in Bounds(rows) : Width(c) < Width(b) => f[c] = g[c]
    OBVIOUS
  <2>3. Round(rows, ip, f, b) = Round(rows, ip, g, b)
    <3> HIDE DEF f
    <3> QED
      BY <2>2, RoundsAgree
  <2> QED
    BY <2>1, <2>3
<1>4. f = [b \in Bounds(rows) |-> Round(rows, ip, f, b)]
  BY <1>3
<1>5. Probes(rows, ip) = [b \in Bounds(rows) |-> Round(rows, ip, Probes(rows, ip), b)]
  <2> HIDE DEF f
  <2> QED
    BY <1>4 DEF Probes
<1> QED
  BY <1>5

(* The search begins with the whole table.                                 *)
LEMMA SearchProbes ==
    ASSUME NEW rows, NEW ip
    PROVE  Search(rows, ip) = IF rows = <<>> THEN 0 ELSE Probes(rows, ip)[<<0, Len(rows) - 1>>]
  BY DEF Search, Probes, Round

(* What holds of the answer r of the rounds from the bounds b on.          *)
RightFrom(rows, ip, b, r) ==
    /\ r \in -1..Len(rows)
    /\ r >= 1 => Covers(rows[r], ip)
    /\ Sorted(rows) /\ r = 0 => \A i \in b[1] + 1..b[2] + 1 : ~Covers(rows[i], ip)
    /\ rows[1].start = 0 /\ b[2] # -1 => r # -1

(* Rows of a sorted table below a row that ends too early, and above one   *)
(* that starts too late, need not be looked at.                            *)
LEMMA HalvesLeftOut ==
    ASSUME NEW rows \in Seq(Ranges), Sorted(rows), NEW ip \in Nat, NEW m \in DOMAIN rows,
           ~Covers(rows[m], ip), NEW i \in DOMAIN rows,
           \/ ip < rows[m].start /\ m <= i
           \/ ~(ip < rows[m].start) /\ i <= m
    PROVE  ~Covers(rows[i], ip)
<1>1. rows[m] \in Ranges /\ rows[i] \in Ranges /\ m \in Nat /\ i \in Nat
  OBVIOUS
<1>2. /\ rows[m].start \in Nat /\ rows[m].end \in Nat
      /\ rows[i].start \in Nat /\ rows[i].end \in Nat
  BY <1>1, DictAssumption
<1>3. CASE i = m
  BY <1>3
<1>4. CASE m < i
  <2>1. rows[m].start <= rows[i].start /\ ip < rows[m].start
    BY <1>1, <1>4 DEF Sorted
  <2> QED
    BY <1>2, <2>1 DEF Covers
<1>5. CASE i < m
  <2>1. rows[i].end < rows[m].start /\ ~(ip < rows[m].start)
    BY <1>1, <1>5 DEF Sorted
  <2> QED
    BY <1>2, <2>1 DEF Covers
<1> QED
  BY <1>1, <1>3, <1>4, <1>5

(* A round keeps what holds of the rounds with closer bounds.              *)
LEMMA RoundRight ==
    ASSUME NEW rows \in Seq(Ranges), NEW ip \in Nat, NEW b \in Bounds(rows), NEW f,
           f[b] = Round(rows, ip, f, b),
           \A c \in Bounds(rows) : Width(c) < Width(b) => RightFrom(rows, ip, c, f[c])
    PROVE  RightFrom(rows, ip, b, f[b])
<1> DEFINE mid == (b[1] + b[2]) \div 2
           row == rows[mid + 1]
           low == <<b[1], mid - 1>>
           high == <<mid + 1, b[2]>>
<1>1. b[1] \in 0..Len(rows) /\ b[2] \in -1..Len(rows) - 1 /\ Len(rows) \in Nat
  BY DEF Bounds
<1>2. CASE b[2] = -1 \/ b[1] > b[2]
  <2>1. f[b] = IF b[2] = -1 THEN -1 ELSE 0
    BY <1>2 DEF Round
  <2> QED
    BY <1>1, <1>2, <2>1 DEF RightFrom
<1>3. CASE b[2] # -1 /\ b[1] <= b[2]
  <2>1. /\ b[1] <= mid /\ mid <= b[2] /\ mid \in 0..Len(rows) - 1
        /\ RightFrom(rows, ip, low, f[low]) /\ RightFrom(rows, ip, high, f[high])
    BY <1>3, Closer
  <2>2. f[b] = IF Covers(row, ip) THEN mid + 1 ELSE IF ip < row.start THEN f[low] ELSE f[high]
    BY <1>1, <1>3 DEF Round
  <2>3. row \in Ranges /\ row.start \in Nat /\ row.end \in Nat /\ mid + 1 \in DOMAIN rows
    BY <2>1, DictAssumption
  <2> HIDE DEF mid, row
  <2>4. CASE Covers(row, ip)
    BY <1>1, <2>1, <2>2, <2>4 DEF RightFrom, row
  <2>5. CASE ~Covers(row, ip) /\ ip < row.start
    <3>1. f[b] = f[low]
      BY <2>2, <2>5
    <3>2. rows[1].start = 0 => mid # 0
      BY <2>5 DEF row
    <3>3. ASSUME Sorted(rows), f[b] = 0, NEW i \in b[1] + 1..b[2] + 1
          PROVE  ~Covers(rows[i], ip)
      <4>1. i \in DOMAIN rows /\ (i <= mid \/ mid + 1 <= i)
        BY <1>1, <2>1
      <4>2. CASE i <= mid
        BY <2>1, <3>1, <3>3, <4>2 DEF RightFrom
      <4>3. CASE mid + 1 <= i
        BY <2>3, <2>5, <3>3, <4>1, <4>3, HalvesLeftOut DEF row
      <4> QED
        BY <4>1, <4>2, <4>3
    <3> QED
      BY <1>1, <2>1, <3>1, <3>2, <3>3 DEF RightFrom
  <2>6. CASE ~Covers(row, ip) /\ ~(ip < row.start)
    <3>1. f[b] = f[high]
      BY <2>2, <2>6
    <3>2. ASSUME Sorted(rows), f[b] = 0, NEW i \in b[1] + 1..b[2] + 1
          PROVE  ~Covers(rows[i], ip)
      <4>1. i \in DOMAIN rows /\ (i <= mid + 1 \/ mid + 2 <= i)
        BY <1>1, <2>1
      <4>2. CASE mid + 2 <= i
        BY <1>1, <2>1, <3>1, <3>2, <4>2 DEF RightFrom
      <4>3. CASE i <= mid + 1
        BY <2>3, <2>6, <3>2, <4>1, <4>3, HalvesLeftOut DEF row
      <4> QED
        BY <4>1, <4>2, <4>3
    <3> QED
      BY <1>1, <1>3, <2>1, <3>1, <3>2 DEF RightFrom
  <2> QED
    BY <2>4, <2>5, <2>6
<1> QED
  BY <1>1, <1>2, <1>3

(* Every pair of bounds is searched right, by the closest for which not.   *)
LEMMA ProbesRight ==
    ASSUME NEW rows \in Seq(Ranges), NEW ip \in Nat
    PROVE  \A b \in Bounds(rows) : RightFrom(rows, ip, b, Probes(rows, ip)[b])
<1> DEFINE P == Probes(rows, ip)
           WrongAt(b) == ~RightFrom(rows, ip, b, P[b])
           Bad == {w \in Nat : \E b \in Bounds(rows) : Width(b) + Len(rows) + 1 = w /\ WrongAt(b)}
<1>1. \A b \in Bounds(rows) : Width(b) \in Int /\ Width(b) + Len(rows) + 1 \in Nat
  BY DEF Bounds, Width
<1> SUFFICES ASSUME Bad # {}
             PROVE  FALSE
  BY <1>1
<1>2. PICK w \in Bad : \A v \in Bad : w <= v
  BY LeastNatural
<1>3. PICK b \in Bounds(rows) : Width(b) + Len(rows) + 1 = w /\ WrongAt(b)
  BY <1>2
<1>4. ASSUME NEW c \in Bounds(rows), Width(c) < Width(b)
      PROVE  ~WrongAt(c)
  <2>1. Width(c) + Len(rows) + 1 \in Nat /\ Width(c) + Len(rows) + 1 < w
    BY <1>1, <1>3, <1>4
  <2> QED
    BY <1>2, <2>1
<1>5. RightFrom(rows, ip, b, P[b])
  <2> HIDE DEF P
  <2>1. P[b] = Round(rows, ip, P, b)
    BY ProbesRound DEF P
  <2> QED
    BY <1>4, <2>1, RoundRight
<1> QED
  BY <1>3, <1>5

(* What a lookup answers: the row it finds covers the address, in any      *)
(* table; in a sorted one it misses only what no row covers; and in one    *)
(* that starts at 0 it stays.                                              *)
LEMMA SearchRight ==
    ASSUME NEW rows \in Seq(Ranges), NEW ip \in Nat
    PROVE  /\ Search(rows, ip) \in -1..Len(rows)
           /\ Search(rows, ip) >= 1 => Covers(rows[Search(rows, ip)], ip)
           /\ Sorted(rows) /\ Search(rows, ip) = 0
                => \A i \in DOMAIN rows : ~Covers(rows[i], ip)
           /\ rows = <<>> \/ rows[1].start = 0 => Search(rows, ip) # -1
<1>1. CASE rows = <<>>
  <2>1. Search(rows, ip) = 0
    BY <1>1, SearchProbes
  <2>2. Len(rows) \in Nat /\ DOMAIN rows = {}
    BY <1>1
  <2> QED
    BY <2>1, <2>2
<1>2. CASE rows # <<>>
  <2> DEFINE b == <<0, Len(rows) - 1>>
  <2>1. b \in Bounds(rows) /\ b[1] = 0 /\ b[2] = Len(rows) - 1 /\ b[2] # -1 /\ Len(rows) \in Nat
    BY <1>2 DEF Bounds
  <2>2. Search(rows, ip) = Probes(rows, ip)[b]
    BY <1>2, SearchProbes
  <2>3. RightFrom(rows, ip, b, Search(rows, ip))
    BY <2>1, <2>2, ProbesRight
  <2>4. DOMAIN rows = b[1] + 1..b[2] + 1
    BY <2>1
  <2> HIDE DEF b
  <2> QED
    BY <1>2, <2>1, <2>3, <2>4 DEF RightFrom
<1> QED
  BY <1>1, <1>2

(* The rows of a dictionary that cover an address are one row, and its     *)
(* country is the dictionary's answer.                                     *)
LEMMA CountryOfRow ==
    ASSUME NEW p \in Paths, NEW ip \in Nat, NEW i \in DOMAIN Dict[p], Covers(Dict[p][i], ip)
    PROVE  Country(p, ip) = Dict[p][i].country
<1> DEFINE hits == {j \in DOMAIN Dict[p] : Dict[p][j].start <= ip /\ ip <= Dict[p][j].end}
<1>1. i \in hits
  BY DEF Covers
<1>2. ASSUME NEW j \in hits
      PROVE  j = i
  <2>1. /\ Dict[p][i].start \in Nat /\ Dict[p][i].end \in Nat
        /\ Dict[p][j].start \in Nat /\ Dict[p][j].end \in Nat
    BY DictRows, DictAssumption
  <2>2. i \in Nat /\ j \in Nat /\ Sorted(Dict[p])
    BY DictAssumption
  <2>3. CASE i < j
    BY <2>1, <2>2, <2>3 DEF Sorted, Covers
  <2>4. CASE j < i
    BY <2>1, <2>2, <2>4 DEF Sorted, Covers
  <2> QED
    BY <2>2, <2>3, <2>4
<1>3. (CHOOSE j \in hits : TRUE) = i
  BY <1>1, <1>2, Zenon
<1> HIDE DEF hits
<1>4. Country(p, ip) = Dict[p][CHOOSE j \in hits : TRUE].country
  BY <1>1 DEF Country, hits
<1> QED
  BY <1>3, <1>4

(* It has none for an address that no row covers.                          *)
LEMMA CountryOfNone ==
    ASSUME NEW p \in Paths, NEW ip \in Nat,
           \A i \in DOMAIN Dict[p] : ~Covers(Dict[p][i], ip)
    PROVE  Country(p, ip) = None
<1>1. {i \in DOMAIN Dict[p] : Dict[p][i].start <= ip /\ ip <= Dict[p][i].end} = {}
  BY DEF Covers
<1> QED
  BY <1>1 DEF Country

-----------------------------------------------------------------------------
(* The invariant behind LookupsAreRight and OverrunOnlyInGaps.  In a table *)
(* without gaps whose rows come from one load, that load has put all rows  *)
(* in front of its line there (Pushed, Growing), and when it is over they  *)
(* are a whole dictionary (Complete).  Every row is one of a file that the *)
(* table was loaded from (Originated).  A lookup has been answered from    *)
(* the table as it still is (Looked).                                      *)
Pushed ==
    \A t \in Threads :
        load[t] # None /\ load[t].of \notin gaps /\ load[t].at > 1
            => load[t].id \in sources[load[t].of]

FirstRows(o, l) ==
    /\ Len(table[o]) = l.at - 1 /\ origins[o] = {l.path}
    /\ \A i \in DOMAIN table[o] : table[o][i] = Dict[l.path][i]

Growing ==
    \A t \in Threads :
        /\ load[t] # None /\ load[t].of \notin gaps
        /\ OneSource(load[t].of) /\ load[t].id \in sources[load[t].of]
        => FirstRows(load[t].of, load[t])

LoadOf(o, t) == load[t] # None /\ load[t].of = o /\ load[t].id \in sources[o]

Complete ==
    \A o \in Tables :
        /\ o \notin gaps /\ OneSource(o) /\ sources[o] # {}
        /\ \A t \in Threads : ~LoadOf(o, t)
        => \E p \in Paths : table[o] = Dict[p] /\ origins[o] = {p}

RowsOf(p) == {Dict[p][i] : i \in DOMAIN Dict[p]}

Originated ==
    \A o \in Tables :
        /\ sources[o] = {} => origins[o] = {}
        /\ \A i \in DOMAIN table[o] : \E p \in origins[o] : table[o][i] \in RowsOf(p)

Found(rows, ip) ==
    IF Search(rows, ip) \in {0, -1} THEN None ELSE rows[Search(rows, ip)].country

Looked ==
    IF result.call = "lookup"
    THEN /\ result.of \in Tables /\ result.ip \in Addresses
         /\ crash = IF Search(table[result.of], result.ip) = -1 THEN "overrun" ELSE "none"
         /\ result.ret = Found(table[result.of], result.ip)
    ELSE crash # "overrun"

RowsInv == Pushed /\ Growing /\ Complete /\ Originated

(* What empties a table or reads a whole file into it: without gaps only   *)
(* where no load is under way.                                             *)
LEMMA ResetKeepsRows ==
    ASSUME TypeOK, RowsInv, NEW o \in Tables, NEW rows, NEW srcs, NEW orgs,
           load' = load, table' = [table EXCEPT ![o] = rows],
           sources' = [sources EXCEPT ![o] = srcs],
           origins' = [origins EXCEPT ![o] = orgs],
           gaps \ {o} \subseteq gaps', o \notin gaps' => ~Loading(o),
           \/ rows = <<>> /\ srcs = {} /\ orgs = {}
           \/ srcs # {} /\ \E p \in Paths : rows = Dict[p] /\ orgs = {p}
    PROVE  RowsInv'
<1> USE DEF TypeOK, Tables
<1>1. /\ table'[o] = rows /\ sources'[o] = srcs /\ origins'[o] = orgs
      /\ \A q \in Tables \ {o} :
            table'[q] = table[q] /\ sources'[q] = sources[q] /\ origins'[q] = origins[q]
      /\ \A q \in Tables : q \notin gaps' /\ q # o => q \notin gaps
  OBVIOUS
<1>2. \A t \in Threads : load[t] # None => load[t].of \in Tables
  BY DEF Loads
<1>3. \A t \in Threads : load[t] # None /\ load[t].of \notin gaps' => load[t].of # o
  BY DEF Loading
<1>4. Pushed'
  BY <1>1, <1>2, <1>3 DEF RowsInv, Pushed
<1>5. Growing'
  BY <1>1, <1>2, <1>3 DEF RowsInv, Growing, OneSource, FirstRows
<1>6. Complete'
  <2> SUFFICES ASSUME NEW q \in Tables, q \notin gaps', OneSource(q)', sources'[q] # {},
                      \A t \in Threads : ~LoadOf(q, t)'
               PROVE  \E p \in Paths : table'[q] = Dict[p] /\ origins'[q] = {p}
    BY DEF Complete
  <2>1. CASE q = o
    BY <1>1, <2>1
  <2>2. CASE q # o
    <3>1. q \notin gaps /\ OneSource(q) /\ sources[q] # {} /\ \A t \in Threads : ~LoadOf(q, t)
      BY <1>1, <2>2 DEF OneSource, LoadOf
    <3>2. table'[q] = table[q] /\ origins'[q] = origins[q]
      BY <1>1, <2>2
    <3> QED
      BY <3>1, <3>2 DEF RowsInv, Complete
  <2> QED
    BY <2>1, <2>2
<1>7. Originated'
  <2> SUFFICES ASSUME NEW q \in Tables
               PROVE  /\ sources'[q] = {} => origins'[q] = {}
                      /\ \A i \in DOMAIN table'[q] :
                            \E p \in origins'[q] : table'[q][i] \in RowsOf(p)
    BY DEF Originated
  <2>1. CASE q = o
    BY <1>1, <2>1 DEF RowsOf
  <2>2. CASE q # o
    <3>1. table'[q] = table[q] /\ sources'[q] = sources[q] /\ origins'[q] = origins[q]
      BY <1>1, <2>2
    <3> QED
      BY <3>1 DEF RowsInv, Originated
  <2> QED
    BY <2>1, <2>2
<1> QED
  BY <1>4, <1>5, <1>6, <1>7 DEF RowsInv

(* A new load has pushed nothing yet.                                      *)
LEMMA NewLoadKeepsRows ==
    ASSUME TypeOK, RowsInv, NEW t \in Threads, NEW o \in Objects,
           NEW p \in Paths \union {Missing}, InitCallback(t, o, p)
    PROVE  RowsInv'
<1> USE DEF TypeOK, Tables
<1>1. /\ UNCHANGED <<table, sources, origins, gaps>> /\ load[t] = None
      /\ load' = load \/ load' = [load EXCEPT ![t] = [id |-> loads, of |-> o, path |-> p, at |-> 1]]
  BY DEF InitCallback
<1>2. /\ \A u \in Threads \ {t} : load'[u] = load[u]
      /\ load'[t] # None => load'[t].id = loads /\ load'[t].at = 1 /\ load'[t].of = o
  BY <1>1
<1>3. \A q \in Tables : loads \notin sources[q]
  OBVIOUS
<1>4. Pushed'
  BY <1>1, <1>2 DEF RowsInv, Pushed
<1>5. Growing'
  <2> SUFFICES ASSUME NEW u \in Threads, load'[u] # None, load'[u].of \notin gaps',
                      OneSource(load[u].of)', load'[u].id \in sources'[load'[u].of]
               PROVE  FirstRows(load[u].of, load[u])'
    BY DEF Growing
  <2>1. u # t
    BY <1>1, <1>2, <1>3
  <2>2. load'[u] = load[u]
    BY <1>2, <2>1
  <2>3. FirstRows(load[u].of, load[u])
    BY <1>1, <2>2 DEF RowsInv, Growing, OneSource
  <2> QED
    BY <1>1, <2>2, <2>3 DEF FirstRows
<1>6. Complete'
  <2> SUFFICES ASSUME NEW q \in Tables, q \notin gaps', OneSource(q)', sources'[q] # {},
                      \A u \in Threads : ~LoadOf(q, u)'
               PROVE  \E d \in Paths : table'[q] = Dict[d] /\ origins'[q] = {d}
    BY DEF Complete
  <2>1. \A u \in Threads : ~LoadOf(q, u)
    BY <1>1, <1>2 DEF LoadOf
  <2> QED
    BY <1>1, <2>1 DEF RowsInv, Complete, OneSource
<1>7. Originated'
  BY <1>1 DEF RowsInv, Originated
<1> QED
  BY <1>4, <1>5, <1>6, <1>7 DEF RowsInv

(* A line that is left out is a gap.                                       *)
LEMMA SkipKeepsRows ==
    ASSUME TypeOK, RowsInv, NEW t \in Threads, CallbackReturnsOther(t)
    PROVE  RowsInv'
<1> USE DEF TypeOK, Tables
<1>1. /\ UNCHANGED <<table, sources, origins>> /\ load[t] # None /\ Continue(t)
      /\ gaps' = gaps \union {load[t].of}
  BY DEF CallbackReturnsOther
<1>2. /\ \A u \in Threads \ {t} : load'[u] = load[u]
      /\ load'[t] # None => load'[t].of = load[t].of
  BY <1>1, ContinueType
<1>3. \A u \in Threads :
        load'[u] # None /\ load'[u].of \notin gaps'
            => load'[u] = load[u] /\ load[u].of \notin gaps
  BY <1>1, <1>2
<1>4. Pushed'
  BY <1>1, <1>3 DEF RowsInv, Pushed
<1>5. Growing'
  <2> SUFFICES ASSUME NEW u \in Threads, load'[u] # None, load'[u].of \notin gaps',
                      OneSource(load[u].of)', load'[u].id \in sources'[load'[u].of]
               PROVE  FirstRows(load[u].of, load[u])'
    BY DEF Growing
  <2>1. load'[u] = load[u] /\ load[u].of \notin gaps
    BY <1>3
  <2>2. FirstRows(load[u].of, load[u])
    BY <1>1, <2>1 DEF RowsInv, Growing, OneSource
  <2> QED
    BY <1>1, <2>1, <2>2 DEF FirstRows
<1>6. Complete'
  <2> SUFFICES ASSUME NEW q \in Tables, q \notin gaps', OneSource(q)', sources'[q] # {},
                      \A u \in Threads : ~LoadOf(q, u)'
               PROVE  \E d \in Paths : table'[q] = Dict[d] /\ origins'[q] = {d}
    BY DEF Complete
  <2>1. q \notin gaps /\ q # load[t].of
    BY <1>1
  <2>2. \A u \in Threads : ~LoadOf(q, u)
    BY <1>1, <1>2, <2>1 DEF LoadOf
  <2> QED
    BY <1>1, <2>1, <2>2 DEF RowsInv, Complete, OneSource
<1>7. Originated'
  BY <1>1 DEF RowsInv, Originated
<1> QED
  BY <1>4, <1>5, <1>6, <1>7 DEF RowsInv

(* A row that is pushed is the next one of the dictionary.                 *)
LEMMA PushKeepsRows ==
    ASSUME TypeOK, OrderInv, RowsInv, NEW t \in Threads, CallbackReturns(t)
    PROVE  RowsInv'
<1> USE DEF TypeOK, Tables
<1>0. PICK l \in Loads : l = load[t]
  BY DEF CallbackReturns
<1>o. PICK o \in Tables : o = l.of
  BY DEF Loads
<1> DEFINE row == Dict[l.path][l.at]
<1>1. /\ l # None /\ Continue(t) /\ l.path \in Paths
      /\ l.at \in DOMAIN Dict[l.path] /\ l.at \in Nat /\ Dict[l.path] \in Seq(Ranges)
  BY <1>0, DictAssumption DEF CallbackReturns, Loads
<1>2. /\ table' = [table EXCEPT ![o] = Append(@, row)] /\ gaps' = gaps
      /\ sources' = [sources EXCEPT ![o] = @ \union {l.id}]
      /\ origins' = [origins EXCEPT ![o] = @ \union {l.path}]
  BY <1>0, <1>o DEF CallbackReturns, PushItem
<1>3. /\ table'[o] = Append(table[o], row) /\ sources'[o] = sources[o] \union {l.id}
      /\ table[o] \in Seq(Ranges) /\ origins'[o] = origins[o] \union {l.path}
      /\ \A q \in Tables \ {o} :
            table'[q] = table[q] /\ sources'[q] = sources[q] /\ origins'[q] = origins[q]
  BY <1>1, <1>2
<1>4. /\ \A u \in Threads \ {t} : load'[u] = load[u]
      /\ load'[t] # None =>
           load'[t].id = l.id /\ load'[t].of = o /\ load'[t].path = l.path /\ load'[t].at = l.at + 1
  BY <1>0, <1>o, <1>1, ContinueType
<1>5. \A u \in Threads \ {t} : load[u] # None => load[u].id # l.id /\ load[u].of \in Tables
  BY <1>0, <1>1 DEF OrderInv, Numbered, Loads
<1>6. Pushed'
  BY <1>0, <1>o, <1>2, <1>3, <1>4, <1>5 DEF RowsInv, Pushed
<1>7. ASSUME o \notin gaps, OneSource(o)'
      PROVE  /\ Len(table'[o]) = l.at /\ origins'[o] = {l.path}
             /\ \A i \in DOMAIN table'[o] : table'[o][i] = Dict[l.path][i]
  <2>1. sources[o] \subseteq {l.id} /\ OneSource(o)
    BY <1>3, <1>7 DEF OneSource
  <2>2. CASE sources[o] = {}
    <3>1. table[o] = <<>> /\ origins[o] = {}
      BY <2>2 DEF OrderInv, SortedTables, RowsInv, Originated
    <3>2. l.at = 1
      BY <1>0, <1>o, <1>1, <1>7, <2>2 DEF RowsInv, Pushed
    <3> QED
      BY <1>1, <1>3, <3>1, <3>2
  <2>3. CASE l.id \in sources[o]
    <3>1. FirstRows(o, l)
      BY <1>0, <1>o, <1>1, <1>7, <2>1, <2>3 DEF RowsInv, Growing
    <3> QED
      BY <1>1, <1>3, <3>1 DEF FirstRows
  <2> QED
    BY <2>1, <2>2, <2>3
<1>8. Growing'
  <2> SUFFICES ASSUME NEW u \in Threads, load'[u] # None, load'[u].of \notin gaps',
                      OneSource(load[u].of)', load'[u].id \in sources'[load'[u].of]
               PROVE  FirstRows(load[u].of, load[u])'
    BY DEF Growing
  <2>1. CASE u = t
    <3>1. /\ Len(table'[o]) = l.at /\ origins'[o] = {l.path}
          /\ \A i \in DOMAIN table'[o] : table'[o][i] = Dict[l.path][i]
      BY <1>2, <1>4, <1>7, <2>1 DEF OneSource
    <3>2. load'[t].at - 1 = l.at
      BY <1>1, <1>4, <2>1
    <3> QED
      BY <1>4, <2>1, <3>1, <3>2 DEF FirstRows
  <2>2. CASE u # t
    <3>1. load'[u] = load[u] /\ load[u].id # l.id /\ load[u].of \in Tables
      BY <1>4, <1>5, <2>2
    <3>2. load[u].of # o
      BY <1>3, <3>1 DEF OneSource
    <3>3. FirstRows(load[u].of, load[u])
      BY <1>2, <1>3, <3>1, <3>2 DEF RowsInv, Growing, OneSource
    <3> QED
      BY <1>3, <3>1, <3>2, <3>3 DEF FirstRows
  <2> QED
    BY <2>1, <2>2
<1>9. Complete'
  <2> SUFFICES ASSUME NEW q \in Tables, q \notin gaps', OneSource(q)', sources'[q] # {},
                      \A u \in Threads : ~LoadOf(q, u)'
               PROVE  \E d \in Paths : table'[q] = Dict[d] /\ origins'[q] = {d}
    BY DEF Complete
  <2>1. CASE q = o
    <3>1. load'[t] = None
      BY <1>3, <1>4, <2>1 DEF LoadOf
    <3>2. l.at = Len(Dict[l.path])
      BY <1>0, <1>1, <3>1, ContinueType
    <3>3. /\ Len(table'[o]) = l.at /\ origins'[o] = {l.path}
          /\ \A i \in DOMAIN table'[o] : table'[o][i] = Dict[l.path][i]
      BY <1>2, <1>7, <2>1 DEF OneSource
    <3>4. table'[o] = Dict[l.path]
      <4>1. Len(table'[o]) = Len(Dict[l.path]) /\ table'[o] \in Seq(Ranges)
        BY <1>1, <1>3, <3>2, <3>3
      <4> QED
        BY <1>1, <3>3, <4>1
    <3> QED
      BY <1>1, <2>1, <3>3, <3>4, Zenon
  <2>2. CASE q # o
    <3>1. \A u \in Threads : ~LoadOf(q, u)
      <4>1. ~LoadOf(q, t)
        BY <1>0, <1>o, <2>2 DEF LoadOf
      <4>2. ASSUME NEW u \in Threads \ {t}
            PROVE  ~LoadOf(q, u)
        BY <1>3, <1>4, <2>2 DEF LoadOf
      <4> QED
        BY <4>1, <4>2
    <3>2. /\ table'[q] = table[q] /\ sources'[q] = sources[q] /\ origins'[q] = origins[q]
          /\ q \notin gaps /\ OneSource(q) /\ sources[q] # {}
      BY <1>2, <1>3, <2>2 DEF OneSource
    <3> QED
      BY <3>1, <3>2 DEF RowsInv, Complete
  <2> QED
    BY <2>1, <2>2
<1>10. Originated'
  <2> SUFFICES ASSUME NEW q \in Tables
               PROVE  /\ sources'[q] = {} => origins'[q] = {}
                      /\ \A i \in DOMAIN table'[q] :
                            \E p \in origins'[q] : table'[q][i] \in RowsOf(p)
    BY DEF Originated
  <2>1. CASE q = o
    <3> SUFFICES ASSUME NEW i \in DOMAIN table'[o]
                 PROVE  \E p \in origins'[o] : table'[o][i] \in RowsOf(p)
      BY <1>3, <2>1
    <3>1. CASE i \in DOMAIN table[o]
      <4>1. table'[o][i] = table[o][i]
        BY <1>3, <3>1
      <4>2. PICK p \in origins[o] : table[o][i] \in RowsOf(p)
        BY <3>1 DEF RowsInv, Originated
      <4> QED
        BY <1>3, <4>1, <4>2
    <3>2. CASE i \notin DOMAIN table[o]
      <4>1. table'[o][i] = row
        BY <1>3, <3>2
      <4>2. row \in RowsOf(l.path)
        BY <1>1 DEF RowsOf
      <4> QED
        BY <1>3, <4>1, <4>2
    <3> QED
      BY <3>1, <3>2
  <2>2. CASE q # o
    <3>1. table'[q] = table[q] /\ sources'[q] = sources[q] /\ origins'[q] = origins[q]
      BY <1>3, <2>2
    <3> QED
      BY <3>1 DEF RowsInv, Originated
  <2> QED
    BY <2>1, <2>2
<1> QED
  BY <1>6, <1>8, <1>9, <1>10 DEF RowsInv

(* Gaps are forgotten only where no load is under way.                     *)
LEMMA GapsStay ==
    ASSUME NEW o, gaps' = GapsOfNew(o)
    PROVE  gaps \ {o} \subseteq gaps' /\ (o \notin gaps' => ~Loading(o))
  BY DEF GapsOfNew

(* Every step keeps what is known of the rows.                             *)
LEMMA RowsKept == TypeOK /\ OrderInv /\ RowsInv /\ [Next]_vars => RowsInv'
<1> SUFFICES ASSUME TypeOK, OrderInv, RowsInv, [Next]_vars
             PROVE  RowsInv'
  OBVIOUS
<1>1. ASSUME NEW o \in Tables, NEW p \in Paths \union {Missing}, LoadDict(o, p)
      PROVE  RowsInv'
  <2> DEFINE srcs == IF Read(p) = <<>> THEN {} ELSE {WholeFile}
             orgs == IF Read(p) = <<>> THEN {} ELSE {p}
  <2>1. /\ load' = load /\ table' = [table EXCEPT ![o] = Read(p)]
        /\ sources' = [sources EXCEPT ![o] = srcs] /\ gaps' = GapsOfNew(o)
        /\ origins' = [origins EXCEPT ![o] = orgs]
    BY <1>1 DEF LoadDict
  <2>2. \/ Read(p) = <<>> /\ srcs = {} /\ orgs = {}
        \/ srcs # {} /\ \E d \in Paths : Read(p) = Dict[d] /\ orgs = {d}
    BY ReadRows
  <2> HIDE DEF srcs, orgs
  <2> QED
    BY <2>1, <2>2, GapsStay, ResetKeepsRows
<1>2. ASSUME NEW o \in Tables, CleanUp(o)
      PROVE  RowsInv'
  <2>1. /\ load' = load /\ table' = [table EXCEPT ![o] = <<>>]
        /\ sources' = [sources EXCEPT ![o] = {}] /\ origins' = [origins EXCEPT ![o] = {}]
        /\ gaps' = GapsOfNew(o)
    BY <1>2 DEF CleanUp
  <2> QED
    BY <2>1, GapsStay, ResetKeepsRows
<1>3. ASSUME NEW o \in Objects, Dealloc(o)
      PROVE  RowsInv'
  <2>1. /\ load' = load /\ table' = [table EXCEPT ![o] = <<>>]
        /\ sources' = [sources EXCEPT ![o] = {}] /\ origins' = [origins EXCEPT ![o] = {}]
        /\ gaps' = gaps \ {o} /\ ~Loading(o)
        /\ o \in Tables
    BY <1>3 DEF Dealloc, Tables
  <2>2. gaps \ {o} \subseteq gaps' /\ (o \notin gaps' => ~Loading(o))
    BY <2>1
  <2> QED
    BY <2>1, <2>2, ResetKeepsRows
<1>4. ASSUME UNCHANGED <<table, sources, origins, load, gaps>>
      PROVE  RowsInv'
  BY <1>4 DEF RowsInv, Pushed, Growing, Complete, Originated, FirstRows, LoadOf, OneSource
<1>5. ASSUME NEW o \in Tables,
             BadArgument(o) \/ (\E ip \in Addresses : GetCountry(o, ip))
      PROVE  UNCHANGED <<table, sources, origins, load, gaps>>
  BY <1>5 DEF BadArgument, GetCountry
<1>6. ASSUME NEW t \in Threads, CallbackRaises(t)
      PROVE  UNCHANGED <<table, sources, origins, load, gaps>>
  BY <1>6 DEF CallbackRaises
<1>7. CASE UNCHANGED vars
  BY <1>4, <1>7 DEF vars
<1> QED
  BY <1>1, <1>2, <1>3, <1>4, <1>5, <1>6, <1>7, NewLoadKeepsRows, SkipKeepsRows, PushKeepsRows
     DEF Next, Tables

(* Every call but a lookup forgets the answer of the last one.             *)
LEMMA LookupsKept == TypeOK /\ Looked /\ [Next]_vars => Looked'
<1> SUFFICES ASSUME TypeOK, Looked, [Next]_vars
             PROVE  Looked'
  OBVIOUS
<1> USE DEF TypeOK
<1>1. crash = "none" /\ crash' \in {"none", "no_file", "callback"} /\ result'.call # "lookup"
        => Looked'
  BY DEF Looked
<1>2. ASSUME NEW o \in Tables,
             BadArgument(o) \/ CleanUp(o) \/ (\E p \in Paths \union {Missing} : LoadDict(o, p))
      PROVE  Looked'
  BY <1>1, <1>2 DEF BadArgument, CleanUp, LoadDict, Answer
<1>3. ASSUME NEW o \in Objects, Dealloc(o)
      PROVE  Looked'
  BY <1>1, <1>3 DEF Dealloc, NoResult
<1>4. ASSUME NEW t \in Threads, NEW o \in Objects, NEW p \in Paths \union {Missing},
             InitCallback(t, o, p)
      PROVE  Looked'
  BY <1>1, <1>4 DEF InitCallback, NoResult
<1>5. ASSUME NEW t \in Threads,
             CallbackReturns(t) \/ CallbackReturnsOther(t) \/ CallbackRaises(t)
      PROVE  Looked'
  BY <1>1, <1>5 DEF CallbackReturns, CallbackReturnsOther, CallbackRaises, NoResult
<1>6. ASSUME NEW o \in Tables, NEW ip \in Addresses, GetCountry(o, ip)
      PROVE  Looked'
  <2> DEFINE r == Search(table[o], ip)
  <2>1. table' = table /\ crash = "none"
    BY <1>6 DEF GetCountry
  <2>2. /\ crash' = IF r = -1 THEN "overrun" ELSE "none"
        /\ result' = [call |-> "lookup", of |-> o, ip |-> ip, ret |-> Found(table[o], ip)]
    BY <1>6, <2>1 DEF GetCountry, Answer, Found
  <2> QED
    BY <2>1, <2>2 DEF Looked
<1>7. CASE UNCHANGED vars
  BY <1>7 DEF vars, Looked
<1> QED
  BY <1>2, <1>3, <1>4, <1>5, <1>6, <1>7 DEF Next

(* A table without gaps, with rows of one load, begins at 0.0.0.0.         *)
LEMMA BeginsAtZero ==
    ASSUME TypeOK, OrderInv, RowsInv, NEW o \in Tables, o \notin gaps, OneSource(o)
    PROVE  table[o] = <<>> \/ table[o][1].start = 0
<1> USE DEF TypeOK
<1> SUFFICES ASSUME table[o] # <<>>
             PROVE  table[o][1].start = 0
  OBVIOUS
<1>1. table[o] \in Seq(Ranges) /\ 1 \in DOMAIN table[o] /\ sources[o] # {}
  BY DEF OrderInv, SortedTables
<1>2. CASE \E t \in Threads : LoadOf(o, t)
  <2>1. PICK t \in Threads : LoadOf(o, t)
    BY <1>2
  <2>2. FirstRows(o, load[t]) /\ load[t].path \in Paths
    BY <2>1 DEF RowsInv, Growing, LoadOf, Loads
  <2> QED
    BY <1>1, <2>2, DictAssumption DEF FirstRows
<1>3. CASE \A t \in Threads : ~LoadOf(o, t)
  BY <1>1, <1>3, DictAssumption DEF RowsInv, Complete
<1> QED
  BY <1>2, <1>3

(* What was looked up is right, and only gaps explain an overrun.          *)
LEMMA AnswersRight ==
    TypeOK /\ OrderInv /\ RowsInv /\ Looked => LookupsAreRight /\ OverrunOnlyInGaps
<1> SUFFICES ASSUME TypeOK, OrderInv, RowsInv, Looked
             PROVE  LookupsAreRight /\ OverrunOnlyInGaps
  OBVIOUS
<1> USE DEF TypeOK
<1>1. CASE result.call # "lookup"
  BY <1>1 DEF Looked, LookupsAreRight, AnswersOfADictionary, WholeAnswers, OverrunOnlyInGaps
<1>2. CASE result.call = "lookup"
  <2>1. PICK o \in Tables, ip \in Addresses : o = result.of /\ ip = result.ip
    BY <1>2 DEF Looked
  <2> DEFINE rows == table[o]
             r == Search(rows, ip)
  <2>2. /\ crash = IF r = -1 THEN "overrun" ELSE "none"
        /\ result.ret = IF r \in {0, -1} THEN None ELSE rows[r].country
    BY <1>2, <2>1 DEF Looked, Found
  <2>3. rows \in Seq(Ranges) /\ ip \in Nat
    BY DictAssumption
  <2>4. /\ r \in -1..Len(rows)
        /\ r >= 1 => Covers(rows[r], ip)
        /\ Sorted(rows) /\ r = 0 => \A i \in DOMAIN rows : ~Covers(rows[i], ip)
        /\ rows = <<>> \/ rows[1].start = 0 => r # -1
    BY <2>3, SearchRight
  <2> HIDE DEF r
  <2>5. AnswersOfADictionary
    <3>1. CASE r \in {0, -1}
      BY <2>2, <3>1 DEF AnswersOfADictionary
    <3>2. CASE r \notin {0, -1}
      <4>1. r >= 1 /\ r \in DOMAIN rows
        BY <2>3, <2>4, <3>2
      <4>2. PICK p \in origins[o] : \E i \in DOMAIN Dict[p] : rows[r] = Dict[p][i]
        BY <4>1 DEF RowsInv, Originated, RowsOf
      <4>3. Country(p, ip) = rows[r].country
        BY <2>3, <2>4, <4>1, <4>2, CountryOfRow
      <4> QED
        BY <2>1, <2>2, <3>2, <4>2, <4>3 DEF AnswersOfADictionary
    <3> QED
      BY <3>1, <3>2
  <2>6. WholeAnswers
    <3> SUFFICES ASSUME crash = "none", o \notin gaps, Cardinality(sources[o]) = 1, ~Loading(o)
                 PROVE  \E p \in Paths : /\ origins[o] = {p} /\ rows = Dict[p]
                                         /\ result.ret = Country(p, ip)
      BY <2>1 DEF WholeAnswers
    <3>1. OneSource(o) /\ sources[o] # {}
      <4>1. Cardinality(sources[o]) <= 1
        OBVIOUS
      <4>2. OneSource(o)
        BY <4>1, AtMostOne
      <4>3. sources[o] # {}
        <5>1. sources[o] = {} => Cardinality(sources[o]) = 0
          BY FS_EmptySet, Zenon
        <5> QED
          BY <5>1
      <4> QED
        BY <4>2, <4>3
    <3>2. PICK p \in Paths : rows = Dict[p] /\ origins[o] = {p}
      BY <3>1 DEF RowsInv, Complete, LoadOf, Loading
    <3>3. Sorted(rows)
      BY <3>2, DictAssumption
    <3>4. CASE r = 0
      BY <2>2, <2>3, <2>4, <3>2, <3>3, <3>4, CountryOfNone
    <3>5. CASE r # 0
      <4>1. r >= 1 /\ r \in DOMAIN Dict[p]
        BY <2>2, <2>3, <2>4, <3>2, <3>5
      <4>2. Country(p, ip) = Dict[p][r].country
        BY <2>3, <2>4, <3>2, <4>1, CountryOfRow
      <4> QED
        BY <2>2, <2>4, <3>2, <4>1, <4>2
    <3> QED
      BY <3>4, <3>5
  <2>7. OverrunOnlyInGaps
    <3> SUFFICES ASSUME crash = "overrun", o \notin gaps, ~(Cardinality(sources[o]) > 1)
                 PROVE  FALSE
      BY <2>1 DEF OverrunOnlyInGaps
    <3>1. Cardinality(sources[o]) \in Nat
      <4>1. IsFiniteSet(sources[o])
        BY FiniteSources
      <4> QED
        BY <4>1, FS_CardinalityType
    <3>2. OneSource(o)
      BY <3>1, AtMostOne
    <3>3. r # -1
      BY <2>4, <3>2, BeginsAtZero
    <3> QED
      BY <2>2, <3>3
  <2> QED
    BY <2>5, <2>6, <2>7 DEF LookupsAreRight
<1> QED
  BY <1>1, <1>2

(* No row is there at first.                                               *)
LEMMA RowsFirst == Init => RowsInv /\ Looked
  BY DEF Init, RowsInv, Pushed, Growing, Complete, Originated, Looked, NoResult

(* A lookup finds nothing or what one of the files says that the table has *)
(* rows of, and in a table that one load has filled to the end, without    *)
(* cleanups meanwhile, exactly what the file of that load says: for        *)
(* dictionaries of any size, the binary search of GetCountry included.     *)
THEOREM LookupsCorrect == Spec => []LookupsAreRight
  BY OrderFirst, OrderKept, RowsFirst, RowsKept, LookupsKept, AnswersRight, TypeCorrect, PTL
     DEF Spec

(* A lookup reads outside of a table only where rows of a load were        *)
(* cleaned up or left out, or two loads were mixed.                        *)
THEOREM OverrunsExplained == Spec => []OverrunOnlyInGaps
  BY OrderFirst, OrderKept, RowsFirst, RowsKept, LookupsKept, AnswersRight, TypeCorrect, PTL
     DEF Spec

=============================================================================
