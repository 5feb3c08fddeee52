-------------------------- MODULE MongoDump_proofs --------------------------
(***************************************************************************)
(* Proofs about MongoDump, for any number of shards and documents, any     *)
(* capacity of the queue and any width of int, while clients change the    *)
(* collection.                                                             *)
(***************************************************************************)
EXTENDS MongoDump, FiniteSetTheorems, TLAPS

LEMMA ToIntType == ASSUME NEW n \in Nat PROVE ToInt(n) \in Int
  BY DumpAssumption DEF ToInt

(* Every variable keeps its type, the queue never holds more than its      *)
(* capacity, and a cursor has only stored documents in front of it.        *)
THEOREM TypeCorrect == Spec => []TypeOK
<1> USE DumpAssumption DEF server, cursor, writer
<1>0. NoDoc \notin Documents
  BY DEF Documents
<1>1. Init => TypeOK
  BY <1>0 DEF Init, TypeOK, Documents
<1>2. TypeOK /\ [Next]_vars => TypeOK'
  <2> SUFFICES ASSUME TypeOK, [Next]_vars
               PROVE  TypeOK'
    OBVIOUS
  <2> USE DEF TypeOK
  <2>1. CASE MainStep
    <3>1. CASE MainCount
      <4>1. Cardinality(docs) \in Nat
        BY FS_CardinalityType, FS_Subset, FS_Product DEF Documents
      <4> QED
        BY <3>1, <4>1, ToIntType DEF MainCount
    <3>2. CASE MainConnect \/ MainIsMongos \/ MainShards \/ MainThrows \/ MainDies
      BY <3>2 DEF MainConnect, MainIsMongos, MainShards, MainThrows, MainDies
    <3>3. ASSUME NEW s \in Shards, SpawnDumper(s)
          PROVE  TypeOK'
      BY <3>3 DEF SpawnDumper
    <3>4. CASE SpawnWriter
      BY <3>4 DEF SpawnWriter
    <3>5. CASE Join \/ LastCount
      BY <3>5 DEF Join, LastCount
    <3> QED
      BY <2>1, <3>1, <3>2, <3>3, <3>4, <3>5 DEF MainStep
  <2>2. ASSUME NEW s \in Shards, DumperStep(s)
        PROVE  TypeOK'
    <3>1. CASE DumperConnect(s) \/ DumperEnd(s) \/ DumperDies(s)
      BY <3>1 DEF DumperConnect, DumperEnd, DumperDies
    <3>2. CASE DumperQuery(s)
      BY <3>2 DEF DumperQuery, Receive, Of
    <3>3. CASE DumperGetMore(s)
      BY <3>3 DEF DumperGetMore, Receive, Of
    <3>4. CASE DumperNext(s)
      BY <1>0, <3>4 DEF DumperNext, Of
    <3>5. CASE DumperPut(s)
      BY <1>0, <3>5 DEF DumperPut
    <3> QED
      BY <2>2, <3>1, <3>2, <3>3, <3>4, <3>5 DEF DumperStep
  <2>3. CASE WriterStep
    <3>1. CASE WriterOpen \/ WriterFree \/ WriterEnd
      BY <3>1 DEF WriterOpen, WriterFree, WriterEnd
    <3>2. CASE WriterTake
      BY <1>0, <3>2 DEF WriterTake
    <3>3. CASE WriterWrite
      <4>1. wdoc \in Documents
        BY <3>3 DEF WriterWrite
      <4>2. CASE disk = "good" /\ out' = Append(out, wdoc) /\ UNCHANGED disk
        BY <3>3, <4>1, <4>2 DEF WriterWrite
      <4>3. CASE disk' = "failed" /\ UNCHANGED out
        BY <3>3, <4>3 DEF WriterWrite
      <4> QED
        BY <3>3, <4>2, <4>3 DEF WriterWrite
    <3> QED
      BY <2>3, <3>1, <3>2, <3>3 DEF WriterStep
  <2>4. ASSUME NEW d \in Documents, Insert(d) \/ Remove(d)
        PROVE  TypeOK'
    BY <2>4 DEF Insert, Remove
  <2>5. CASE UNCHANGED vars
    BY <2>5 DEF vars
  <2> QED
    BY <2>1, <2>2, <2>3, <2>4, <2>5 DEF Next, Program, Clients, Finished
<1> QED
  BY <1>1, <1>2, PTL DEF Spec

-----------------------------------------------------------------------------
(* What NoneForgotten rests on: what was counted, or in front of a cursor, *)
(* and not removed is stored; no dumper runs before the count; the stream is good before  *)
(* it is open; and the writer comes to the delete with the document in the *)
(* file.                                                                   *)
Bookkeeping ==
    /\ (counted \union reached) \ gone \subseteq docs
    /\ mpc \in {"connect", "is_mongos", "count", "shards"} =>
          \A s \in Shards : dpc[s] = "none"
    /\ wpc \in {"none", "open"} => disk = "good"
    /\ wpc = "free" /\ disk = "good" => wdoc \in Range(out)

LEMMA RangeOfAppend ==
    ASSUME NEW S, NEW q \in Seq(S), NEW x \in S
    PROVE  Range(Append(q, x)) = Range(q) \union {x}
<1>1. DOMAIN Append(q, x) = 1..(Len(q) + 1) /\ DOMAIN q = 1..Len(q)
  OBVIOUS
<1>2. \A i \in 1..Len(q) : Append(q, x)[i] = q[i]
  OBVIOUS
<1>3. Append(q, x)[Len(q) + 1] = x
  OBVIOUS
<1> QED
  BY <1>1, <1>2, <1>3 DEF Range

LEMMA BookkeepingKept == Spec => []Bookkeeping
<1>1. Init => Bookkeeping
  BY DEF Init, Bookkeeping
<1>2. TypeOK /\ Bookkeeping /\ [Next]_vars => Bookkeeping'
  <2> SUFFICES ASSUME TypeOK, Bookkeeping, [Next]_vars
               PROVE  Bookkeeping'
    OBVIOUS
  <2> USE DEF Bookkeeping, server, cursor, writer
  <2>1. CASE MainStep
    <3>1. CASE MainConnect \/ MainIsMongos \/ MainCount \/ MainShards
      BY <3>1 DEF MainConnect, MainIsMongos, MainCount, MainShards
    <3>2. CASE MainThrows \/ MainDies \/ Join \/ LastCount
      BY <3>2 DEF MainThrows, MainDies, Join, LastCount
    <3>3. CASE SpawnWriter \/ \E s \in Shards : SpawnDumper(s)
      BY <3>3 DEF SpawnWriter, SpawnDumper, TypeOK
    <3> QED
      BY <2>1, <3>1, <3>2, <3>3 DEF MainStep
  <2>2. ASSUME NEW s \in Shards, DumperStep(s)
        PROVE  Bookkeeping'
    <3>1. UNCHANGED <<server, writer>> /\ reached' \subseteq reached \union docs
      BY <2>2 DEF DumperStep, DumperConnect, DumperQuery, DumperGetMore,
                 DumperNext, DumperPut, DumperEnd, DumperDies, Of
    <3>2. dpc[s] # "none" /\ mpc' \in {mpc, "aborted"}
      BY <2>2 DEF DumperStep, DumperConnect, DumperQuery, DumperGetMore,
                 DumperNext, DumperPut, DumperEnd, DumperDies
    <3> QED
      BY <3>1, <3>2
  <2>3. CASE WriterStep
    <3>1. CASE WriterOpen \/ WriterTake \/ WriterFree \/ WriterEnd
      BY <3>1 DEF WriterOpen, WriterTake, WriterFree, WriterEnd
    <3>2. CASE WriterWrite
      <4>1. wdoc \in Documents
        BY <3>2 DEF WriterWrite, TypeOK
      <4>2. disk' = "good" => out' = Append(out, wdoc)
        BY <3>2 DEF WriterWrite
      <4>3. Range(Append(out, wdoc)) = Range(out) \union {wdoc}
        BY <4>1, RangeOfAppend DEF TypeOK
      <4> QED
        BY <3>2, <4>2, <4>3 DEF WriterWrite
    <3> QED
      BY <2>3, <3>1, <3>2 DEF WriterStep
  <2>4. ASSUME NEW d \in Documents, Insert(d) \/ Remove(d)
        PROVE  Bookkeeping'
    BY <2>4 DEF Insert, Remove
  <2>5. CASE UNCHANGED vars
    BY <2>5 DEF vars
  <2> QED
    BY <2>1, <2>2, <2>3, <2>4, <2>5 DEF Next, Program, Clients, Finished
<1> QED
  BY <1>1, <1>2, TypeCorrect, PTL DEF Spec

(* A document that stays in the collection, and was counted or came in     *)
(* front of a cursor, is never lost between its cursor and the file,       *)
(* whatever the interleaving of dumpers, writer and other clients, as long *)
(* as the stream is good.                                                  *)
THEOREM NothingForgotten == Spec => []NoneForgotten
<1>1. Init => NoneForgotten
  BY DEF Init, NoneForgotten
<1>2. TypeOK /\ Bookkeeping /\ NoneForgotten /\ [Next]_vars => NoneForgotten'
  <2> SUFFICES ASSUME TypeOK, Bookkeeping, NoneForgotten, [Next]_vars,
                      disk' = "good", NEW s \in servers',
                      dpc'[s] \in {"more", "put", "done"},
                      NEW d \in Of(s, counted' \union reached') \ gone'
               PROVE  d \in ahead' \union batch' \union heap' \union Range(out')
    BY DEF NoneForgotten
  <2> USE DEF Bookkeeping, NoneForgotten, server, cursor, writer, Of
  <2>1. servers' = servers /\ s \in Shards
    <3>1. servers' = servers
      BY DEF Next, Program, MainStep, MainConnect, MainIsMongos, MainCount,
             MainShards, MainThrows, MainDies, SpawnDumper, SpawnWriter, Join,
             LastCount, DumperStep, DumperConnect, DumperQuery, DumperGetMore,
             DumperNext, DumperPut, DumperEnd, DumperDies, WriterStep,
             WriterOpen, WriterTake, WriterWrite, WriterFree, WriterEnd,
             Clients, Insert, Remove, Finished, vars
    <3> QED
      BY <3>1 DEF TypeOK
  <2>2. CASE MainStep
    <3>1. CASE MainCount
      BY <2>1, <3>1 DEF MainCount
    <3>2. CASE MainConnect \/ MainIsMongos \/ MainShards \/ MainThrows \/ MainDies
      BY <2>1, <3>2 DEF MainConnect, MainIsMongos, MainShards, MainThrows, MainDies
    <3>3. CASE SpawnWriter \/ Join \/ LastCount
      BY <2>1, <3>3 DEF SpawnWriter, Join, LastCount
    <3>4. ASSUME NEW u \in Shards, SpawnDumper(u)
          PROVE  d \in ahead' \union batch' \union heap' \union Range(out')
      <4>1. dpc[s] = dpc'[s]
        BY <2>1, <3>4 DEF SpawnDumper, TypeOK
      <4> QED
        BY <2>1, <3>4, <4>1 DEF SpawnDumper
    <3> QED
      BY <2>2, <3>1, <3>2, <3>3, <3>4 DEF MainStep
  <2>3. ASSUME NEW u \in Shards, DumperStep(u)
        PROVE  d \in ahead' \union batch' \union heap' \union Range(out')
    <3>1. UNCHANGED <<server, writer>>
      BY <2>3 DEF DumperStep, DumperConnect, DumperQuery, DumperGetMore,
                 DumperNext, DumperPut, DumperEnd, DumperDies
    <3>2. ahead \union batch \union heap \subseteq ahead' \union batch' \union heap'
      BY <2>3 DEF DumperStep, DumperConnect, DumperQuery, DumperGetMore,
                 DumperNext, DumperPut, DumperEnd, DumperDies, Receive
    <3>3. CASE dpc[s] \in {"more", "put", "done"}
      <4>1. d \in Of(s, counted \union reached)
        <5>1. CASE DumperQuery(u)
          <6>1. u # s /\ reached' = reached \union Of(u, docs)
            BY <3>3, <5>1 DEF DumperQuery
          <6> QED
            BY <3>1, <6>1
        <5>2. CASE ~DumperQuery(u)
          BY <2>3, <3>1, <5>2 DEF DumperStep, DumperConnect, DumperGetMore, DumperNext,
                                  DumperPut, DumperEnd, DumperDies
        <5> QED
          BY <5>1, <5>2
      <4> QED
        BY <2>1, <3>1, <3>2, <3>3, <4>1
    <3>4. CASE dpc[s] \notin {"more", "put", "done"}
      <4>1. u = s /\ DumperQuery(s)
        <5>1. u = s
          BY <2>1, <2>3, <3>4
             DEF DumperStep, DumperConnect, DumperQuery, DumperGetMore,
                 DumperNext, DumperPut, DumperEnd, DumperDies, TypeOK
        <5>2. ~ (DumperGetMore(u) \/ DumperNext(u) \/ DumperPut(u) \/ DumperEnd(u))
          BY <3>4, <5>1 DEF DumperGetMore, DumperNext, DumperPut, DumperEnd
        <5>3. ~ DumperConnect(u) /\ ~ DumperDies(u)
          BY <2>1, <3>4, <5>1 DEF DumperConnect, DumperDies, TypeOK
        <5> QED
          BY <2>3, <5>1, <5>2, <5>3 DEF DumperStep
      <4>2. Of(s, docs) \subseteq ahead' \union batch'
        BY <4>1 DEF DumperQuery, Receive
      <4>3. d \in Of(s, docs)
        <5>1. reached' = reached \union Of(s, docs)
          BY <4>1 DEF DumperQuery
        <5> QED
          BY <3>1, <5>1
      <4> QED
        BY <4>2, <4>3
    <3> QED
      BY <3>3, <3>4
  <2>4. CASE WriterStep
    <3>1. CASE WriterOpen \/ WriterTake \/ WriterEnd
      BY <2>1, <3>1 DEF WriterOpen, WriterTake, WriterEnd
    <3>2. CASE WriterWrite
      <4>1. wdoc \in Documents
        BY <3>2 DEF WriterWrite, TypeOK
      <4>2. disk = "good" /\ out' = Append(out, wdoc)
        BY <3>2 DEF WriterWrite
      <4>3. Range(out) \subseteq Range(out')
        BY <4>1, <4>2, RangeOfAppend DEF TypeOK
      <4> QED
        BY <2>1, <3>2, <4>2, <4>3 DEF WriterWrite
    <3>3. CASE WriterFree
      <4>1. wdoc \in Range(out) /\ out' = out /\ heap' = heap \ {wdoc}
        BY <3>3 DEF WriterFree
      <4> QED
        BY <2>1, <3>3, <4>1 DEF WriterFree
    <3> QED
      BY <2>4, <3>1, <3>2, <3>3 DEF WriterStep
  <2>5. ASSUME NEW e \in Documents, Insert(e) \/ Remove(e)
        PROVE  d \in ahead' \union batch' \union heap' \union Range(out')
    BY <2>1, <2>5 DEF Insert, Remove
  <2>6. CASE UNCHANGED vars
    BY <2>6 DEF vars
  <2> QED
    BY <2>2, <2>3, <2>4, <2>5, <2>6 DEF Next, Program, Clients, Finished
<1> QED
  BY <1>1, <1>2, TypeCorrect, BookkeepingKept, PTL DEF Spec

-----------------------------------------------------------------------------
(* Where a document can be.  At any time it is in one place: in front of   *)
(* its cursor, with the client, in a dumper's hand, in the queue, or with  *)
(* the writer; and what was written is in none of them, except for the     *)
(* writer until the delete.                                                *)
Opened == {"more", "put", "done"}

Distinct(q) == \A i, j \in DOMAIN q : q[i] = q[j] => i = j

Seen(d) ==
    \/ d \in ahead \/ d \in batch \/ hand[d[1]] = d
    \/ d \in Range(queue) \/ d = wdoc \/ d \in Range(out)

(* Only what is or was stored is anywhere, and only after its cursor was   *)
(* opened; a dumper that is done has emptied its cursor.                   *)
SeenStored ==
    \A d \in Documents :
        /\ Seen(d) => d \in docs \union gone /\ dpc[d[1]] \in Opened /\ d \in reached
        /\ d \in ahead \/ d \in batch => dpc[d[1]] # "done"

HandOfShard == \A s \in Shards : hand[s] # NoDoc => hand[s][1] = s

OnePlace ==
    /\ \A d \in Documents :
        /\ d \in ahead => d \notin batch
        /\ d \in ahead \/ d \in batch =>
              hand[d[1]] # d /\ d \notin Range(queue) /\ d # wdoc /\ d \notin Range(out)
        /\ hand[d[1]] = d => d \notin Range(queue) /\ d # wdoc /\ d \notin Range(out)
        /\ d \in Range(queue) => d # wdoc /\ d \notin Range(out)
    /\ wpc = "write" => wdoc \notin Range(out)
    /\ Distinct(queue)

Places == SeenStored /\ HandOfShard /\ OnePlace

LEMMA DistinctAppend ==
    ASSUME NEW S, NEW q \in Seq(S), NEW x \in S, Distinct(q), x \notin Range(q)
    PROVE  Distinct(Append(q, x))
<1>1. \A i \in 1..Len(q) : Append(q, x)[i] = q[i] /\ q[i] # x
  BY DEF Range
<1>2. Append(q, x)[Len(q) + 1] = x /\ DOMAIN Append(q, x) = 1..Len(q) + 1
  OBVIOUS
<1> QED
  BY <1>1, <1>2 DEF Distinct

LEMMA RangeOfTail ==
    ASSUME NEW S, NEW q \in Seq(S), q # <<>>
    PROVE  /\ Range(q) = Range(Tail(q)) \union {Head(q)}
           /\ Distinct(q) => Distinct(Tail(q)) /\ Head(q) \notin Range(Tail(q))
<1>1. /\ DOMAIN Tail(q) = 1..Len(q) - 1 /\ DOMAIN q = 1..Len(q)
      /\ Len(q) \in Nat /\ Len(q) >= 1 /\ Head(q) = q[1]
  OBVIOUS
<1>2. \A i \in 1..Len(q) - 1 : Tail(q)[i] = q[i + 1]
  OBVIOUS
<1>3. \A i \in 2..Len(q) : i - 1 \in 1..Len(q) - 1 /\ q[i] = Tail(q)[i - 1]
  BY <1>1, <1>2
<1>4. Range(q) = Range(Tail(q)) \union {Head(q)}
  <2>1. Range(q) \subseteq Range(Tail(q)) \union {Head(q)}
    <3> SUFFICES ASSUME NEW i \in 1..Len(q)
                 PROVE  q[i] \in Range(Tail(q)) \union {Head(q)}
      BY <1>1 DEF Range
    <3>1. i = 1 \/ i \in 2..Len(q)
      BY <1>1
    <3> QED
      BY <1>1, <1>3, <3>1 DEF Range
  <2>2. Range(Tail(q)) \union {Head(q)} \subseteq Range(q)
    <3>1. \A i \in 1..Len(q) - 1 : i + 1 \in 1..Len(q)
      BY <1>1
    <3> QED
      BY <1>1, <1>2, <3>1 DEF Range
  <2> QED
    BY <2>1, <2>2
<1>5. ASSUME Distinct(q)
      PROVE  Distinct(Tail(q)) /\ Head(q) \notin Range(Tail(q))
  <2>1. \A i \in 1..Len(q) - 1 : i + 1 \in 1..Len(q) /\ i + 1 # 1
    BY <1>1
  <2>2. \A i \in 1..Len(q) - 1 : Tail(q)[i] # q[1]
    BY <1>1, <1>2, <1>5, <2>1 DEF Distinct
  <2>3. ASSUME NEW i \in 1..Len(q) - 1, NEW j \in 1..Len(q) - 1, Tail(q)[i] = Tail(q)[j]
        PROVE  i = j
    <3>1. i + 1 = j + 1
      BY <1>1, <1>2, <1>5, <2>1, <2>3 DEF Distinct
    <3> QED
      BY <1>1, <3>1
  <2> QED
    BY <1>1, <2>2, <2>3 DEF Distinct, Range
<1> QED
  BY <1>4, <1>5

LEMMA ShardOf == ASSUME NEW d \in Documents PROVE d[1] \in Shards /\ d # NoDoc
  BY DumpAssumption DEF Documents

(* Main moves no document.                                                 *)
LEMMA MainKeepsPlaces == ASSUME TypeOK, Places, MainStep PROVE Places'
<1> USE DEF Places, SeenStored, HandOfShard, OnePlace, Seen, Opened, server, cursor, writer
<1>1. CASE MainConnect \/ MainIsMongos \/ MainCount \/ MainShards
  BY <1>1 DEF MainConnect, MainIsMongos, MainCount, MainShards
<1>2. CASE MainThrows \/ MainDies \/ Join \/ LastCount
  BY <1>2 DEF MainThrows, MainDies, Join, LastCount
<1>3. CASE SpawnWriter
  BY <1>3 DEF SpawnWriter
<1>4. ASSUME NEW s \in Shards, SpawnDumper(s)
      PROVE  Places'
  <2>1. /\ UNCHANGED <<docs, gone, cursor, hand, queue, wdoc, wpc, out>>
        /\ dpc[s] = "none" /\ dpc'[s] = "connect"
        /\ \A u \in Shards \ {s} : dpc'[u] = dpc[u]
    BY <1>4 DEF SpawnDumper, TypeOK
  <2>2. ASSUME NEW d \in Documents, Seen(d)
        PROVE  dpc'[d[1]] = dpc[d[1]]
    BY <2>1, <2>2, ShardOf
  <2> QED
    BY <2>1, <2>2
<1> QED
  BY <1>1, <1>2, <1>3, <1>4 DEF MainStep

(* A dumper takes documents from in front of its cursor to the queue.      *)
LEMMA DumperKeepsPlaces ==
    ASSUME TypeOK, Places, NEW s \in Shards, DumperStep(s)
    PROVE  Places'
<1> USE DEF server, cursor, writer
<1>0. \A u \in Shards \ {s} : dpc'[u] = dpc[u] /\ hand'[u] = hand[u]
  BY DEF DumperStep, DumperConnect, DumperQuery, DumperGetMore, DumperNext,
         DumperPut, DumperEnd, DumperDies, TypeOK
<1>1. CASE DumperDies(s)
  BY <1>1 DEF DumperDies, Places, SeenStored, HandOfShard, OnePlace, Seen
<1>2. CASE DumperConnect(s)
  <2>1. /\ UNCHANGED <<docs, gone, cursor, hand, queue, wdoc, wpc, out>>
        /\ dpc[s] = "connect"
    BY <1>2 DEF DumperConnect
  <2>2. ASSUME NEW d \in Documents, Seen(d)
        PROVE  dpc'[d[1]] = dpc[d[1]]
    BY <1>0, <2>1, <2>2, ShardOf DEF Places, SeenStored, Opened
  <2> QED
    BY <2>1, <2>2 DEF Places, SeenStored, HandOfShard, OnePlace, Seen
<1>3. CASE DumperQuery(s)
  <2>1. /\ UNCHANGED <<docs, gone, hand, queue, wdoc, wpc, out>>
        /\ dpc[s] = "query" /\ dpc'[s] = "more"
    BY <1>3 DEF DumperQuery, TypeOK
  <2>2. PICK B \in SUBSET Of(s, docs) :
          /\ batch' = batch \union B /\ ahead' = ahead \union (Of(s, docs) \ B)
          /\ reached' = reached \union Of(s, docs)
    BY <1>3 DEF DumperQuery, Receive
  <2>3. \A d \in Documents : d[1] = s => ~Seen(d)
    BY <2>1 DEF Places, SeenStored, Opened
  <2>4. \A d \in Documents : d[1] # s => dpc'[d[1]] = dpc[d[1]]
    BY <1>0, ShardOf
  <2>5. SeenStored'
    BY <2>1, <2>2, <2>3, <2>4 DEF Places, SeenStored, Seen, Of, Opened
  <2>6. OnePlace'
    BY <2>1, <2>2, <2>3 DEF Places, OnePlace, Seen, Of
  <2> QED
    BY <2>1, <2>5, <2>6 DEF Places, HandOfShard
<1>4. CASE DumperGetMore(s)
  <2>1. UNCHANGED <<docs, gone, reached, dpc, hand, queue, wdoc, wpc, out>>
    BY <1>4 DEF DumperGetMore
  <2>2. PICK B \in SUBSET Of(s, ahead) : batch' = batch \union B /\ ahead' = ahead \ B
    BY <1>4 DEF DumperGetMore, Receive
  <2>3. SeenStored' /\ HandOfShard'
    BY <2>1, <2>2 DEF Places, SeenStored, HandOfShard, Seen, Of
  <2>4. OnePlace'
    BY <2>1, <2>2 DEF Places, OnePlace, Of
  <2> QED
    BY <2>3, <2>4 DEF Places
<1>5. CASE DumperNext(s)
  <2>1. UNCHANGED <<docs, gone, ahead, reached, queue, wdoc, wpc, out>>
    BY <1>5 DEF DumperNext
  <2>2. PICK d \in Of(s, batch) :
          batch' = batch \ {d} /\ hand' = [hand EXCEPT ![s] = d]
    BY <1>5 DEF DumperNext
  <2>3. dpc[s] = "more" /\ dpc'[s] = "put" /\ hand'[s] = d /\ hand[s] = NoDoc
    BY <1>5, <2>2 DEF DumperNext, TypeOK
  <2>4. d \in Documents /\ d[1] = s /\ d \in batch
    BY <2>2 DEF Of, TypeOK
  <2>5. \A e \in Documents : hand'[e[1]] = e => e = d \/ hand[e[1]] = e
    BY <1>0, <2>3, ShardOf
  <2>6. \A e \in Documents :
          dpc'[e[1]] = dpc[e[1]] \/ (dpc[e[1]] \in Opened /\ dpc'[e[1]] = "put")
    BY <1>0, <2>3, ShardOf DEF Opened
  <2>7. SeenStored'
    BY <2>1, <2>2, <2>4, <2>5, <2>6 DEF Places, SeenStored, Seen, Opened
  <2>8. HandOfShard'
    BY <1>0, <2>3, <2>4 DEF Places, HandOfShard
  <2>9. OnePlace'
    BY <2>1, <2>2, <2>4, <2>5 DEF Places, OnePlace
  <2> QED
    BY <2>7, <2>8, <2>9 DEF Places
<1>6. CASE DumperPut(s)
  <2>1. UNCHANGED <<docs, gone, cursor, wdoc, wpc, out>>
    BY <1>6 DEF DumperPut
  <2>2. /\ dpc[s] = "put" /\ dpc'[s] = "more" /\ hand'[s] = NoDoc
        /\ queue' = Append(queue, hand[s])
    BY <1>6 DEF DumperPut, TypeOK
  <2> DEFINE d == hand[s]
  <2>3. d \in Documents /\ d[1] = s
    BY <2>2 DEF Places, HandOfShard, TypeOK
  <2>4. Range(queue') = Range(queue) \union {d}
    BY <2>2, <2>3, RangeOfAppend DEF TypeOK
  <2>5. \A e \in Documents : hand'[e[1]] = e => hand[e[1]] = e /\ e # d
    BY <1>0, <2>2, <2>3, ShardOf
  <2>6. \A e \in Documents :
          dpc'[e[1]] = dpc[e[1]] \/ (dpc[e[1]] = "put" /\ dpc'[e[1]] = "more")
    BY <1>0, <2>2, ShardOf
  <2>7. SeenStored'
    BY <2>1, <2>3, <2>4, <2>5, <2>6 DEF Places, SeenStored, Seen, Opened
  <2>8. HandOfShard'
    BY <1>0, <2>2 DEF Places, HandOfShard
  <2>9. Distinct(queue')
    BY <2>2, <2>3, DistinctAppend DEF Places, OnePlace, TypeOK
  <2>10. OnePlace'
    BY <2>1, <2>3, <2>4, <2>5, <2>9 DEF Places, OnePlace
  <2> QED
    BY <2>7, <2>8, <2>10 DEF Places
<1>7. CASE DumperEnd(s)
  <2>1. UNCHANGED <<docs, gone, cursor, hand, queue, wdoc, wpc, out>>
    BY <1>7 DEF DumperEnd
  <2>2. /\ dpc[s] = "more" /\ dpc'[s] = "done"
        /\ \A d \in Documents : d[1] = s => d \notin ahead /\ d \notin batch
    BY <1>7 DEF DumperEnd, TypeOK, Of
  <2>3. \A d \in Documents :
          dpc'[d[1]] = dpc[d[1]] \/ (d[1] = s /\ dpc'[d[1]] = "done")
    BY <1>0, <2>2, ShardOf
  <2> QED
    BY <2>1, <2>2, <2>3 DEF Places, SeenStored, HandOfShard, OnePlace, Seen, Opened
<1> QED
  BY <1>1, <1>2, <1>3, <1>4, <1>5, <1>6, <1>7 DEF DumperStep

(* The writer takes documents from the queue to the file.                  *)
LEMMA WriterKeepsPlaces == ASSUME TypeOK, Places, WriterStep PROVE Places'
<1> USE DEF server, cursor
<1>1. UNCHANGED <<docs, gone, cursor, hand, dpc>>
  BY DEF WriterStep, WriterOpen, WriterTake, WriterWrite, WriterFree, WriterEnd
<1>2. CASE WriterOpen \/ WriterEnd
  BY <1>1, <1>2 DEF WriterOpen, WriterEnd, Places, SeenStored, HandOfShard, OnePlace, Seen
<1>3. CASE WriterTake
  <2>1. /\ queue # <<>> /\ wdoc' = Head(queue) /\ queue' = Tail(queue) /\ wdoc = NoDoc
        /\ out' = out /\ wpc' = "write"
    BY <1>3 DEF WriterTake, TypeOK
  <2>2. /\ Range(queue) = Range(queue') \union {wdoc'}
        /\ Distinct(queue') /\ wdoc' \notin Range(queue')
    BY <2>1, RangeOfTail DEF TypeOK, Places, OnePlace
  <2>3. wdoc' \in Documents
    BY <2>1 DEF TypeOK
  <2>4. SeenStored' /\ HandOfShard'
    BY <1>1, <2>1, <2>2, <2>3 DEF Places, SeenStored, HandOfShard, Seen
  <2>5. OnePlace'
    BY <1>1, <2>1, <2>2, <2>3 DEF Places, OnePlace
  <2> QED
    BY <2>4, <2>5 DEF Places
<1>4. CASE WriterWrite
  <2>1. wdoc \in Documents /\ UNCHANGED <<queue, wdoc>> /\ wpc = "write" /\ wpc' = "free"
    BY <1>4 DEF WriterWrite, TypeOK
  <2>2. Range(out') \subseteq Range(out) \union {wdoc}
    <3>1. Range(Append(out, wdoc)) = Range(out) \union {wdoc}
      BY <2>1, RangeOfAppend DEF TypeOK
    <3>2. out' = Append(out, wdoc) \/ out' = out
      BY <1>4 DEF WriterWrite
    <3> QED
      BY <3>1, <3>2
  <2>3. SeenStored' /\ HandOfShard'
    BY <1>1, <2>1, <2>2 DEF Places, SeenStored, HandOfShard, Seen
  <2>4. OnePlace'
    BY <1>1, <2>1, <2>2 DEF Places, OnePlace
  <2> QED
    BY <2>3, <2>4 DEF Places
<1>5. CASE WriterFree
  <2>1. UNCHANGED <<queue, out>> /\ wdoc' = NoDoc /\ wpc' = "loop"
    BY <1>5 DEF WriterFree
  <2>2. \A d \in Documents : d # wdoc'
    BY <2>1, ShardOf
  <2>3. SeenStored' /\ HandOfShard'
    BY <1>1, <2>1, <2>2 DEF Places, SeenStored, HandOfShard, Seen
  <2>4. OnePlace'
    BY <1>1, <2>1, <2>2 DEF Places, OnePlace
  <2> QED
    BY <2>3, <2>4 DEF Places
<1> QED
  BY <1>2, <1>3, <1>4, <1>5 DEF WriterStep

(* A document that is inserted has never been anywhere.                    *)
LEMMA ClientsKeepPlaces ==
    ASSUME TypeOK, Places, NEW d \in Documents, Insert(d) \/ Remove(d)
    PROVE  Places'
<1> USE DEF writer
<1>1. UNCHANGED <<batch, hand, dpc, queue, wdoc, wpc, out>>
  BY DEF Insert, Remove
<1>2. CASE Insert(d)
  <2>1. docs' = docs \union {d} /\ gone' = gone /\ ~Seen(d)
    BY <1>2 DEF Insert, Places, SeenStored
  <2>2. \/ ahead' = ahead /\ reached' = reached
        \/ /\ ahead' = ahead \union {d} /\ reached' = reached \union {d}
           /\ dpc[d[1]] \in {"more", "put"}
    BY <1>2 DEF Insert
  <2>3. SeenStored'
    BY <1>1, <2>1, <2>2 DEF Places, SeenStored, Seen, Opened
  <2>4. OnePlace' /\ HandOfShard'
    BY <1>1, <2>1, <2>2 DEF Places, OnePlace, HandOfShard, Seen
  <2> QED
    BY <2>3, <2>4 DEF Places
<1>3. CASE Remove(d)
  <2>1. /\ docs' = docs \ {d} /\ gone' = gone \union {d} /\ ahead' = ahead \ {d}
        /\ reached' = reached
    BY <1>3 DEF Remove
  <2> QED
    BY <1>1, <2>1 DEF Places, SeenStored, HandOfShard, OnePlace, Seen
<1> QED
  BY <1>2, <1>3

LEMMA PlacesKept == Spec => []Places
<1>1. Init => Places
  <2> SUFFICES ASSUME Init
               PROVE  Places
    OBVIOUS
  <2>1. ahead = {} /\ batch = {} /\ queue = <<>> /\ out = <<>> /\ wdoc = NoDoc /\ wpc = "none"
    BY DEF Init
  <2>2. \A s \in Shards : hand[s] = NoDoc
    BY DEF Init
  <2>3. Range(queue) = {} /\ Range(out) = {}
    BY <2>1 DEF Range
  <2>4. \A d \in Documents : ~Seen(d)
    BY <2>1, <2>2, <2>3, ShardOf DEF Seen
  <2> QED
    BY <2>1, <2>2, <2>3, <2>4 DEF Places, SeenStored, HandOfShard, OnePlace, Distinct, Seen
<1>2. TypeOK /\ Places /\ [Next]_vars => Places'
  <2> SUFFICES ASSUME TypeOK, Places, [Next]_vars
               PROVE  Places'
    OBVIOUS
  <2>1. CASE UNCHANGED vars
    BY <2>1 DEF vars, server, cursor, writer, Places, SeenStored, HandOfShard, OnePlace, Seen
  <2> QED
    BY <2>1, MainKeepsPlaces, DumperKeepsPlaces, WriterKeepsPlaces, ClientsKeepPlaces
       DEF Next, Program, Clients, Finished
<1> QED
  BY <1>1, <1>2, TypeCorrect, PTL DEF Spec

LEMMA FiniteDocuments ==
    ASSUME NEW D, D \subseteq Documents
    PROVE  IsFiniteSet(D) /\ Cardinality(D) \in Nat
  BY DumpAssumption, FS_Product, FS_Subset, FS_CardinalityType DEF Documents

(* No copy of a document is in the file twice, however shards change and   *)
(* whichever thread runs when: the file has as many as it has entries.     *)
CopiesOnce == Distinct(out) /\ Cardinality(Range(out)) = Len(out)

LEMMA CopiesWrittenOnce == Spec => []CopiesOnce
<1>1. Init => CopiesOnce
  <2> SUFFICES ASSUME Init
               PROVE  CopiesOnce
    OBVIOUS
  <2>1. out = <<>> /\ Range(out) = {}
    BY DEF Init, Range
  <2> QED
    BY <2>1, FS_EmptySet DEF CopiesOnce, Distinct
<1>2. TypeOK /\ Places /\ CopiesOnce /\ [Next]_vars => CopiesOnce'
  <2> SUFFICES ASSUME TypeOK, Places, CopiesOnce, [Next]_vars
               PROVE  CopiesOnce'
    OBVIOUS
  <2>1. CASE out' = out
    BY <2>1 DEF CopiesOnce
  <2>2. CASE out' # out
    <3>1. WriterWrite /\ out' = Append(out, wdoc)
      <4>1. WriterStep
        BY <2>2 DEF Next, Program, MainStep, MainConnect, MainIsMongos, MainCount,
               MainShards, MainThrows, MainDies, SpawnDumper, SpawnWriter, Join,
               LastCount, DumperStep, DumperConnect, DumperQuery, DumperGetMore,
               DumperNext, DumperPut, DumperEnd, DumperDies, Clients, Insert,
               Remove, Finished, vars, writer
      <4> QED
        BY <2>2, <4>1
           DEF WriterStep, WriterOpen, WriterTake, WriterWrite, WriterFree, WriterEnd
    <3>2. wdoc \in Documents /\ wdoc \notin Range(out) /\ out \in Seq(Documents)
      BY <3>1 DEF WriterWrite, TypeOK, Places, OnePlace
    <3>3. Range(out') = Range(out) \union {wdoc} /\ Len(out') = Len(out) + 1
      BY <3>1, <3>2, RangeOfAppend
    <3>4. IsFiniteSet(Range(out))
      <4>1. Range(out) \subseteq Documents
        BY <3>2 DEF Range
      <4> QED
        BY <4>1, FiniteDocuments
    <3>5. Cardinality(Range(out) \union {wdoc}) = Cardinality(Range(out)) + 1
      BY <3>2, <3>4, FS_AddElement
    <3>6. Distinct(out')
      BY <3>1, <3>2, DistinctAppend DEF CopiesOnce
    <3> QED
      BY <3>3, <3>5, <3>6 DEF CopiesOnce
  <2> QED
    BY <2>1, <2>2
<1> QED
  BY <1>1, <1>2, TypeCorrect, PlacesKept, PTL DEF Spec

(* A document is twice in the file only when it moved, and only as two     *)
(* copies that both came in front of open cursors.                         *)
THEOREM DocumentsWrittenOnce == Spec => []WrittenOnce
<1>1. TypeOK /\ Places /\ CopiesOnce => WrittenOnce
  <2> SUFFICES ASSUME TypeOK, Places, CopiesOnce,
                      NEW i \in DOMAIN out, NEW j \in DOMAIN out, i # j
               PROVE  out[i] # out[j] /\ {out[i], out[j]} \subseteq reached
    BY DEF WrittenOnce
  <2>1. out[i] # out[j]
    BY DEF CopiesOnce, Distinct
  <2>2. \A k \in DOMAIN out : out[k] \in Documents /\ out[k] \in Range(out)
    BY DEF TypeOK, Range
  <2>3. \A k \in DOMAIN out : out[k] \in reached
    BY <2>2 DEF Places, SeenStored, Seen
  <2> QED
    BY <2>1, <2>3
<1> QED
  BY <1>1, TypeCorrect, PlacesKept, CopiesWrittenOnce, PTL

-----------------------------------------------------------------------------
(* The dumpers with a document in hand.                                    *)
Busy == {s \in Shards : hand[s] # NoDoc}

LEMMA BusyIsFinite == IsFiniteSet(Busy) /\ Cardinality(Busy) \in Nat
  BY DumpAssumption, FS_Subset, FS_CardinalityType DEF Busy

LEMMA HeldDocument ==
    ASSUME TypeOK, Places, NEW d
    PROVE  d \in Held <=> d \in Documents /\ (hand[d[1]] = d \/ d = wdoc \/ d \in Range(queue))
<1>1. Held \subseteq Documents
  BY DEF Held, TypeOK, Range
<1>2. ASSUME NEW s \in Shards, hand[s] = d, d \in Documents
      PROVE  hand[d[1]] = d
  BY <1>2, ShardOf DEF Places, HandOfShard
<1> QED
  BY <1>1, <1>2, ShardOf DEF Held

(* A buffer has one holder: what a dumper, the queue or the writer holds   *)
(* is not freed, no buffer is lost, and none is freed twice, also while    *)
(* clients change the collection.                                          *)
THEOREM BuffersExact == Spec => []HeapExact
<1>1. Init => HeapExact
  <2> SUFFICES ASSUME Init
               PROVE  HeapExact
    OBVIOUS
  <2>1. /\ queue = <<>> /\ Range(queue) = {} /\ wdoc = NoDoc /\ heap = {}
        /\ \A s \in Shards : hand[s] = NoDoc
    BY DEF Init, Range
  <2>2. Held = {} /\ Busy = {}
    BY <2>1 DEF Held, Busy
  <2> QED
    BY <2>1, <2>2, FS_EmptySet DEF HeapExact, Busy
<1>2. TypeOK /\ TypeOK' /\ Places /\ Places' /\ HeapExact /\ [Next]_vars => HeapExact'
  <2> SUFFICES ASSUME TypeOK, Places, HeapExact, [Next]_vars, TypeOK', Places'
               PROVE  HeapExact'
    OBVIOUS
  <2> USE DEF server, cursor, writer
  <2>1. /\ heap = Held /\ IsFiniteSet(heap)
        /\ Cardinality(heap) = Len(queue) + Cardinality(Busy) + (IF wdoc = NoDoc THEN 0 ELSE 1)
    <3>1. heap \subseteq Documents
      BY DEF TypeOK
    <3> QED
      BY <3>1, FiniteDocuments DEF HeapExact, Busy
  <2> DEFINE Exact ==
               /\ heap' = Held'
               /\ Cardinality(heap') =
                    Len(queue') + Cardinality(Busy') + (IF wdoc' = NoDoc THEN 0 ELSE 1)
  <2>2. SUFFICES Exact
    BY DEF HeapExact, Busy
  <2>3. \A d : d \in Held' <=>
          d \in Documents /\ (hand'[d[1]] = d \/ d = wdoc' \/ d \in Range(queue'))
    <3>1. Held' \subseteq Documents
      BY DEF Held, TypeOK, Range
    <3>2. ASSUME NEW s \in Shards, NEW d \in Documents, hand'[s] = d
          PROVE  hand'[d[1]] = d
      BY <3>2, ShardOf DEF Places, HandOfShard
    <3> QED
      BY <3>1, <3>2, ShardOf DEF Held
  <2>4. \A d : d \in Held <=>
          d \in Documents /\ (hand[d[1]] = d \/ d = wdoc \/ d \in Range(queue))
    BY HeldDocument
  <2>5. CASE UNCHANGED <<heap, hand, wdoc, queue>>
    BY <2>1, <2>5 DEF Held, Busy
  <2>6. ASSUME NEW s \in Shards, DumperNext(s)
        PROVE  Exact
    <3>1. PICK d \in Of(s, batch) :
            hand' = [hand EXCEPT ![s] = d] /\ heap' = heap \union {d}
      BY <2>6 DEF DumperNext
    <3>2. d \in Documents /\ d \in batch /\ d[1] = s /\ d # NoDoc
      BY <3>1, ShardOf DEF Of, TypeOK
    <3>3. UNCHANGED <<queue, wdoc>> /\ hand[s] = NoDoc
      BY <2>6 DEF DumperNext, TypeOK
    <3>4. d \notin Held
      BY <2>4, <3>2 DEF Places, OnePlace
    <3>5. hand'[s] = d /\ \A u \in Shards \ {s} : hand'[u] = hand[u]
      BY <3>1 DEF TypeOK
    <3>6. Busy' = Busy \union {s} /\ s \notin Busy
      BY <3>2, <3>3, <3>5 DEF Busy
    <3>7. Held' = Held \union {d}
      <4>1. ASSUME NEW e \in Documents
            PROVE  e \in Held' <=> e \in Held \/ e = d
        BY <2>3, <2>4, <3>2, <3>3, <3>5, ShardOf
      <4> QED
        BY <2>3, <2>4, <3>2, <4>1
    <3>8. Cardinality(heap') = Cardinality(heap) + 1
      BY <2>1, <3>1, <3>4, FS_AddElement
    <3>9. Cardinality(Busy') = Cardinality(Busy) + 1
      BY <3>6, BusyIsFinite, FS_AddElement
    <3> QED
      BY <2>1, <3>1, <3>3, <3>7, <3>8, <3>9, BusyIsFinite DEF TypeOK
  <2>7. ASSUME NEW s \in Shards, DumperPut(s)
        PROVE  Exact
    <3>1. /\ queue' = Append(queue, hand[s]) /\ UNCHANGED <<heap, wdoc>>
          /\ hand' = [hand EXCEPT ![s] = NoDoc] /\ hand[s] # NoDoc
      BY <2>7 DEF DumperPut, TypeOK
    <3>2. hand[s] \in Documents /\ hand[s][1] = s
      BY <3>1 DEF Places, HandOfShard, TypeOK
    <3>3. hand'[s] = NoDoc /\ \A u \in Shards \ {s} : hand'[u] = hand[u]
      BY <3>1 DEF TypeOK
    <3>4. Range(queue') = Range(queue) \union {hand[s]} /\ Len(queue') = Len(queue) + 1
      BY <3>1, <3>2, RangeOfAppend DEF TypeOK
    <3>5. Busy' = Busy \ {s} /\ s \in Busy
      BY <3>1, <3>3 DEF Busy
    <3>6. Held' = Held
      <4>1. ASSUME NEW e \in Documents
            PROVE  e \in Held' <=> e \in Held
        BY <2>3, <2>4, <3>1, <3>2, <3>3, <3>4, ShardOf
      <4> QED
        BY <2>3, <2>4, <4>1
    <3>7. Cardinality(Busy') = Cardinality(Busy) - 1
      BY <3>5, BusyIsFinite, FS_RemoveElement
    <3> QED
      BY <2>1, <3>1, <3>4, <3>6, <3>7, BusyIsFinite DEF TypeOK
  <2>8. CASE WriterTake
    <3>1. /\ queue # <<>> /\ wdoc = NoDoc /\ wdoc' = Head(queue) /\ queue' = Tail(queue)
          /\ UNCHANGED <<heap, hand>>
      BY <2>8 DEF WriterTake, TypeOK
    <3>2. /\ Range(queue) = Range(queue') \union {wdoc'} /\ Len(queue') = Len(queue) - 1
          /\ wdoc' \in Documents /\ wdoc' # NoDoc
      BY <3>1, RangeOfTail, ShardOf DEF TypeOK
    <3>3. Held' = Held
      <4>1. ASSUME NEW e \in Documents
            PROVE  e \in Held' <=> e \in Held
        BY <2>3, <2>4, <3>1, <3>2, ShardOf
      <4> QED
        BY <2>3, <2>4, <4>1
    <3>4. Busy' = Busy
      BY <3>1 DEF Busy
    <3> QED
      BY <2>1, <3>1, <3>2, <3>3, <3>4, BusyIsFinite DEF TypeOK
  <2>9. CASE WriterFree
    <3>1. /\ heap' = heap \ {wdoc} /\ wdoc' = NoDoc /\ UNCHANGED <<hand, queue>>
          /\ wdoc \in Documents /\ wdoc # NoDoc
      BY <2>9 DEF WriterFree, TypeOK
    <3>2. wdoc \in Held
      BY <2>4, <3>1
    <3>3. Held' = Held \ {wdoc}
      <4>1. ASSUME NEW e \in Documents
            PROVE  e \in Held' <=> e \in Held /\ e # wdoc
        BY <2>3, <2>4, <3>1, ShardOf DEF Places, OnePlace
      <4> QED
        BY <2>3, <2>4, <4>1
    <3>4. Cardinality(heap') = Cardinality(heap) - 1
      BY <2>1, <3>1, <3>2, FS_RemoveElement
    <3>5. Busy' = Busy
      BY <3>1 DEF Busy
    <3> QED
      BY <2>1, <3>1, <3>3, <3>4, <3>5, BusyIsFinite DEF TypeOK
  <2>10. \/ UNCHANGED <<heap, hand, wdoc, queue>>
         \/ \E s \in Shards : DumperNext(s) \/ DumperPut(s)
         \/ WriterTake \/ WriterFree
    BY DEF Next, Program, MainStep, MainConnect, MainIsMongos, MainCount,
           MainShards, MainThrows, MainDies, SpawnDumper, SpawnWriter, Join,
           LastCount, DumperStep, DumperConnect, DumperQuery, DumperGetMore,
           DumperEnd, DumperDies, WriterStep, WriterOpen, WriterWrite, WriterEnd,
           Clients, Insert, Remove, Finished, vars
  <2> QED
    BY <2>5, <2>6, <2>7, <2>8, <2>9, <2>10
<1> QED
  BY <1>1, <1>2, TypeCorrect, PlacesKept, PTL DEF Spec

-----------------------------------------------------------------------------
(* The counter against the count.  A counted document that is still stored *)
(* and has been read has left all places only through the writer's loop,   *)
(* which counted it; a loop that is over has reached the total; and a good *)
(* stream has one document per round.                                      *)
Handled ==
    {d \in counted : /\ d \notin gone /\ dpc[d[1]] \in Opened
                     /\ d \notin ahead /\ d \notin batch /\ d \notin heap}

Counts ==
    /\ \A d \in docs \union counted : d[1] \in servers
    /\ Cardinality(Handled) <= counter
    /\ wpc = "done" => counter >= total
    /\ mpc \in {"last_count", "exited"} => wpc = "done"
    /\ disk = "good" => Len(out) = counter + (IF wpc = "free" THEN 1 ELSE 0)

(* What is no round of the writer's loop adds nothing to Handled.          *)
LEMMA HandledGrows ==
    ASSUME TypeOK, Bookkeeping, [Next]_vars
    PROVE  \/ Handled' \subseteq Handled
           \/ WriterFree /\ Handled' \subseteq Handled \union {wdoc}
<1> USE DEF Opened, server, cursor, writer
<1>1. CASE MainStep
  <2>1. CASE MainCount
    <3>1. \A d \in Documents : dpc'[d[1]] = "none"
      BY <2>1, ShardOf DEF MainCount, Bookkeeping
    <3>2. counted' \subseteq Documents
      BY <2>1 DEF MainCount, TypeOK
    <3> QED
      BY <3>1, <3>2 DEF Handled
  <2>2. CASE MainConnect \/ MainIsMongos \/ MainShards \/ MainThrows \/ MainDies
    BY <2>2 DEF MainConnect, MainIsMongos, MainShards, MainThrows, MainDies, Handled
  <2>3. CASE SpawnWriter \/ Join \/ LastCount
    BY <2>3 DEF SpawnWriter, Join, LastCount, Handled
  <2>4. ASSUME NEW s \in Shards, SpawnDumper(s)
        PROVE  Handled' \subseteq Handled
    <3>1. UNCHANGED <<counted, gone, ahead, batch, heap>> /\ dpc' = [dpc EXCEPT ![s] = "connect"]
      BY <2>4 DEF SpawnDumper
    <3>2. \A d \in Documents : dpc'[d[1]] \in Opened => dpc[d[1]] \in Opened
      BY <3>1, ShardOf DEF TypeOK
    <3> QED
      BY <3>1, <3>2 DEF Handled, TypeOK
  <2> QED
    BY <1>1, <2>1, <2>2, <2>3, <2>4 DEF MainStep
<1>2. ASSUME NEW s \in Shards, DumperStep(s)
      PROVE  Handled' \subseteq Handled
  <2>1. /\ UNCHANGED <<counted, gone>>
        /\ ahead \union batch \union heap \subseteq ahead' \union batch' \union heap'
    BY <1>2 DEF DumperStep, DumperConnect, DumperQuery, DumperGetMore,
               DumperNext, DumperPut, DumperEnd, DumperDies, Receive
  <2>2. CASE DumperQuery(s)
    <3>1. Of(s, docs) \subseteq ahead' \union batch'
      BY <2>2 DEF DumperQuery, Receive
    <3>2. \A d \in Documents : d[1] # s => dpc'[d[1]] = dpc[d[1]]
      BY <2>2, ShardOf DEF DumperQuery, TypeOK
    <3>3. \A d \in Handled' : d \in Documents /\ d \in docs
      BY <2>1 DEF Handled, TypeOK, Bookkeeping
    <3>4. \A d \in Handled' : d[1] # s
      BY <3>1, <3>3 DEF Handled, Of
    <3> QED
      BY <2>1, <3>2, <3>3, <3>4 DEF Handled
  <2>3. CASE ~DumperQuery(s)
    <3>1. \/ dpc' = dpc
          \/ dpc' = [dpc EXCEPT ![s] = "query"]
          \/ dpc[s] \in Opened
      BY <1>2, <2>3 DEF DumperStep, DumperConnect, DumperGetMore, DumperNext, DumperPut,
                        DumperEnd, DumperDies
    <3>2. \A u \in Shards \ {s} : dpc'[u] = dpc[u]
      BY <1>2 DEF DumperStep, DumperConnect, DumperQuery, DumperGetMore, DumperNext,
                  DumperPut, DumperEnd, DumperDies, TypeOK
    <3>3. \A d \in Documents : dpc'[d[1]] \in Opened => dpc[d[1]] \in Opened
      BY <3>1, <3>2, ShardOf DEF TypeOK
    <3> QED
      BY <2>1, <3>3 DEF Handled, TypeOK
  <2> QED
    BY <2>2, <2>3
<1>3. CASE WriterStep
  BY <1>3 DEF WriterStep, WriterOpen, WriterTake, WriterWrite, WriterFree, WriterEnd, Handled
<1>4. ASSUME NEW d \in Documents, Insert(d) \/ Remove(d)
      PROVE  Handled' \subseteq Handled
  BY <1>4 DEF Insert, Remove, Handled
<1>5. CASE UNCHANGED vars
  BY <1>5 DEF vars, Handled
<1> QED
  BY <1>1, <1>2, <1>3, <1>4, <1>5 DEF Next, Program, Clients, Finished

LEMMA CountsKept == Spec => []Counts
<1>1. Init => Counts
  <2> SUFFICES ASSUME Init
               PROVE  Counts
    OBVIOUS
  <2>1. Handled = {} /\ counter = 0 /\ Len(out) = 0
    BY DEF Init, Handled
  <2>2. \A d \in docs \union counted : d[1] \in servers
    BY DEF Init
  <2> QED
    BY <2>1, <2>2, FS_EmptySet DEF Counts, Init
<1>2. TypeOK /\ Bookkeeping /\ Counts /\ [Next]_vars => Counts'
  <2> SUFFICES ASSUME TypeOK, Bookkeeping, Counts, [Next]_vars
               PROVE  Counts'
    OBVIOUS
  <2> USE DEF server, cursor, writer
  <2>1. IsFiniteSet(Handled) /\ Cardinality(Handled) \in Nat /\ Cardinality(Handled) <= counter
    BY FiniteDocuments DEF Handled, TypeOK, Counts
  <2>2. \/ counter' = counter /\ ~WriterFree
        \/ counter' = counter + 1 /\ WriterFree
    <3>1. CASE WriterStep
      BY <3>1 DEF WriterStep, WriterOpen, WriterTake, WriterWrite, WriterFree, WriterEnd, TypeOK
    <3>2. CASE MainStep
      BY <3>2 DEF MainStep, MainConnect, MainIsMongos, MainCount, MainShards, MainThrows,
                  MainDies, SpawnDumper, SpawnWriter, Join, LastCount, WriterFree, TypeOK
    <3>3. CASE \E s \in Shards : DumperStep(s)
      BY <3>3 DEF DumperStep, DumperConnect, DumperQuery, DumperGetMore, DumperNext,
                  DumperPut, DumperEnd, DumperDies, WriterFree, TypeOK
    <3>4. CASE UNCHANGED vars \/ \E d \in Documents : Insert(d) \/ Remove(d)
      BY <3>4 DEF Insert, Remove, WriterFree, vars, TypeOK
    <3> QED
      BY <3>1, <3>2, <3>3, <3>4 DEF Next, Program, Clients, Finished
  <2>3. Cardinality(Handled') <= counter'
    <3>1. CASE Handled' \subseteq Handled
      <4>1. Cardinality(Handled') <= Cardinality(Handled) /\ IsFiniteSet(Handled')
        BY <2>1, <3>1, FS_Subset
      <4>2. Cardinality(Handled') \in Nat
        BY <4>1, FS_CardinalityType
      <4> QED
        BY <2>1, <2>2, <4>1, <4>2 DEF TypeOK
    <3>2. CASE WriterFree /\ Handled' \subseteq Handled \union {wdoc}
      <4>1. /\ IsFiniteSet(Handled \union {wdoc})
            /\ Cardinality(Handled \union {wdoc}) <= Cardinality(Handled) + 1
            /\ Cardinality(Handled \union {wdoc}) \in Nat
        <5>1. /\ IsFiniteSet(Handled \union {wdoc})
              /\ \/ Cardinality(Handled \union {wdoc}) = Cardinality(Handled)
                 \/ Cardinality(Handled \union {wdoc}) = Cardinality(Handled) + 1
          BY <2>1, FS_AddElement
        <5> QED
          BY <2>1, <5>1
      <4>2. Cardinality(Handled') <= Cardinality(Handled \union {wdoc}) /\ IsFiniteSet(Handled')
        BY <3>2, <4>1, FS_Subset
      <4>3. Cardinality(Handled') \in Nat
        BY <4>2, FS_CardinalityType
      <4> QED
        BY <2>1, <2>2, <3>2, <4>1, <4>2, <4>3 DEF TypeOK
    <3> QED
      BY <3>1, <3>2, HandledGrows
  <2>4. CASE MainStep
    <3>1. CASE MainCount
      BY <2>3, <3>1 DEF MainCount, Counts, TypeOK
    <3>2. CASE MainConnect \/ MainIsMongos \/ MainShards \/ MainThrows \/ MainDies
      BY <2>3, <3>2 DEF MainConnect, MainIsMongos, MainShards, MainThrows, MainDies, Counts
    <3>3. CASE SpawnWriter
      BY <2>3, <3>3 DEF SpawnWriter, Counts, TypeOK
    <3>4. CASE Join \/ LastCount \/ \E s \in Shards : SpawnDumper(s)
      BY <2>3, <3>4 DEF Join, LastCount, SpawnDumper, Counts
    <3> QED
      BY <2>4, <3>1, <3>2, <3>3, <3>4 DEF MainStep
  <2>5. CASE \E s \in Shards : DumperStep(s)
    <3>1. UNCHANGED <<server, total, writer>> /\ mpc' \in {mpc, "aborted"}
      BY <2>5 DEF DumperStep, DumperConnect, DumperQuery, DumperGetMore, DumperNext,
                  DumperPut, DumperEnd, DumperDies
    <3> QED
      BY <2>3, <3>1 DEF Counts
  <2>6. CASE WriterStep
    <3>1. UNCHANGED <<server, total, mpc>> /\ wpc # "done"
      BY <2>6 DEF WriterStep, WriterOpen, WriterTake, WriterWrite, WriterFree, WriterEnd
    <3>2. wpc' = "done" => counter' >= total'
      BY <2>6 DEF WriterStep, WriterOpen, WriterTake, WriterWrite, WriterFree, WriterEnd,
                  MoreToWrite, TypeOK
    <3>3. disk' = "good" => Len(out') = counter' + (IF wpc' = "free" THEN 1 ELSE 0)
      <4>1. CASE WriterWrite
        BY <4>1 DEF WriterWrite, Counts, TypeOK
      <4>2. CASE WriterFree
        BY <4>2 DEF WriterFree, Counts, TypeOK
      <4>3. CASE WriterOpen
        BY <4>3 DEF WriterOpen, Counts, Bookkeeping
      <4>4. CASE WriterTake \/ WriterEnd
        BY <4>4 DEF WriterTake, WriterEnd, Counts
      <4> QED
        BY <2>6, <4>1, <4>2, <4>3, <4>4 DEF WriterStep
    <3> QED
      BY <2>3, <3>1, <3>2, <3>3 DEF Counts
  <2>7. CASE \E d \in Documents : Insert(d) \/ Remove(d)
    BY <2>3, <2>7 DEF Insert, Remove, Counts
  <2>8. CASE UNCHANGED vars
    BY <2>3, <2>8 DEF vars, Counts
  <2> QED
    BY <2>4, <2>5, <2>6, <2>7, <2>8 DEF Next, Program, Clients, Finished
<1> QED
  BY <1>1, <1>2, TypeCorrect, BookkeepingKept, PTL DEF Spec

(* A writer that waits for ever waits for a counted document that was      *)
(* removed: if none was, what is counted is handled, and the loop is over. *)
THEOREM WriterStarves == Spec => []StarvedOnlyByRemoval
<1>1. TypeOK /\ Places /\ HeapExact /\ Counts => StarvedOnlyByRemoval
  <2> SUFFICES ASSUME TypeOK, Places, HeapExact, Counts,
                      \A s \in servers : dpc[s] = "done",
                      wpc = "loop", counter < total, queue = <<>>,
                      Cardinality(counted) = total, counted \intersect gone = {}
               PROVE  FALSE
    BY DEF StarvedOnlyByRemoval
  <2>1. ASSUME NEW d \in counted
        PROVE  d \in Handled
    <3>1. d \in Documents /\ d[1] \in servers /\ dpc[d[1]] = "done" /\ d[1] \in Shards
      BY ShardOf DEF TypeOK, Counts
    <3>2. d \notin ahead /\ d \notin batch
      BY <3>1 DEF Places, SeenStored
    <3>3. hand[d[1]] # d /\ d # wdoc
      BY <3>1, ShardOf DEF TypeOK
    <3>4. d \notin Range(queue)
      BY DEF Range
    <3>5. d \notin heap
      BY <3>3, <3>4, HeldDocument DEF HeapExact
    <3> QED
      BY <3>1, <3>2, <3>5 DEF Handled, Opened
  <2>2. IsFiniteSet(Handled) /\ Cardinality(Handled) \in Nat
    BY FiniteDocuments DEF Handled, TypeOK
  <2>3. Cardinality(counted) <= Cardinality(Handled)
    BY <2>1, <2>2, FS_Subset
  <2> QED
    BY <2>2, <2>3 DEF Counts, TypeOK
<1> QED
  BY <1>1, TypeCorrect, PlacesKept, BuffersExact, CountsKept, PTL

(* Dumpers that block for ever hold documents that came after the count:   *)
(* the file has as many as were counted, and no copy twice.                *)
THEOREM DumpersBlock == Spec => []BlockedOnlyByInsertion
<1>1. TypeOK /\ Places /\ CopiesOnce /\ Counts => BlockedOnlyByInsertion
  <2> SUFFICES ASSUME TypeOK, Places, CopiesOnce, Counts,
                      wpc = "done", Cardinality(counted) = total, queue # <<>>,
                      disk = "good", Range(out) \union Range(queue) \subseteq counted
               PROVE  FALSE
    BY DEF BlockedOnlyByInsertion
  <2> DEFINE q == Head(queue)
  <2>1. q \in Documents /\ q \in Range(queue) /\ q \in counted
    BY RangeOfTail DEF TypeOK
  <2>2. q \notin Range(out)
    BY <2>1 DEF Places, OnePlace
  <2>3. Cardinality(Range(out)) = Len(out) /\ Len(out) = counter /\ counter >= total
    <3>1. Cardinality(Range(out)) = Len(out)
      BY DEF CopiesOnce
    <3>2. Len(out) = counter + 0 /\ counter >= total /\ counter \in Nat
      BY DEF Counts, TypeOK
    <3> QED
      BY <3>1, <3>2
  <2>4. IsFiniteSet(counted) /\ IsFiniteSet(Range(out))
    BY FiniteDocuments DEF TypeOK, Range
  <2>5. Cardinality(Range(out) \union {q}) = Cardinality(Range(out)) + 1
    BY <2>2, <2>4, FS_AddElement
  <2>6. Cardinality(Range(out) \union {q}) <= Cardinality(counted)
    BY <2>1, <2>4, FS_Subset
  <2> QED
    BY <2>3, <2>5, <2>6 DEF TypeOK
<1> QED
  BY <1>1, TypeCorrect, PlacesKept, CopiesWrittenOnce, CountsKept, PTL

(* While nobody changes the collection, it is what main counted.           *)
Unchanged ==
    /\ gone = {}
    /\ mpc \in {"shards", "spawn", "join", "last_count", "exited"} => counted = docs

LEMMA StaticIsSpec == StaticSpec => Spec
<1>1. StaticNext => Next
  BY DEF StaticNext, Next
<1> QED
  BY <1>1, PTL DEF StaticSpec, Spec

LEMMA UnchangedKept == StaticSpec => []Unchanged
<1>1. Init => Unchanged
  BY DEF Init, Unchanged
<1>2. Unchanged /\ [StaticNext]_vars => Unchanged'
  <2> SUFFICES ASSUME Unchanged, [StaticNext]_vars
               PROVE  Unchanged'
    OBVIOUS
  <2> USE DEF server, cursor, writer, Unchanged
  <2>1. CASE MainStep
    BY <2>1 DEF MainStep, MainConnect, MainIsMongos, MainCount, MainShards, MainThrows,
                MainDies, SpawnDumper, SpawnWriter, Join, LastCount
  <2>2. CASE \E s \in Shards : DumperStep(s)
    BY <2>2 DEF DumperStep, DumperConnect, DumperQuery, DumperGetMore, DumperNext,
                DumperPut, DumperEnd, DumperDies
  <2>3. CASE WriterStep
    BY <2>3 DEF WriterStep, WriterOpen, WriterTake, WriterWrite, WriterFree, WriterEnd
  <2>4. CASE UNCHANGED vars
    BY <2>4 DEF vars
  <2> QED
    BY <2>1, <2>2, <2>3, <2>4 DEF StaticNext, Program, Finished
<1> QED
  BY <1>1, <1>2, PTL DEF StaticSpec

(* A dump that nobody disturbs and that ends normally has the collection   *)
(* in its file, each document once, and has freed every buffer.            *)
THEOREM DumpIsExact == StaticSpec => []ExactDump
<1>1. TypeOK /\ Places /\ HeapExact /\ CopiesOnce /\ Counts /\ Unchanged => ExactDump
  <2> SUFFICES ASSUME TypeOK, Places, HeapExact, CopiesOnce, Counts, Unchanged,
                      mpc = "exited", disk = "good", total = Cardinality(counted)
               PROVE  Range(out) = docs /\ Len(out) = Cardinality(docs) /\ heap = {}
    BY DEF ExactDump
  <2>1. counted = docs /\ gone = {} /\ wpc = "done"
    BY DEF Unchanged, Counts
  <2>2. Cardinality(Range(out)) = Len(out) /\ Len(out) = counter /\ counter >= total
    <3>1. Cardinality(Range(out)) = Len(out)
      BY DEF CopiesOnce
    <3>2. Len(out) = counter + 0 /\ counter >= total /\ counter \in Nat
      BY <2>1 DEF Counts, TypeOK
    <3> QED
      BY <3>1, <3>2
  <2>3. Range(out) \subseteq docs
    <3>1. Range(out) \subseteq Documents
      BY DEF TypeOK, Range
    <3> QED
      BY <2>1, <3>1 DEF Places, SeenStored, Seen
  <2>4. IsFiniteSet(docs) /\ Cardinality(docs) \in Nat
    BY FiniteDocuments DEF TypeOK
  <2>5. Cardinality(Range(out)) <= Cardinality(docs)
    BY <2>3, <2>4, FS_Subset
  <2>6. Cardinality(Range(out)) = Cardinality(docs)
    BY <2>1, <2>2, <2>4, <2>5 DEF TypeOK
  <2>7. Range(out) = docs
    BY <2>3, <2>4, <2>6, FS_Subset
  <2>8. heap = {}
    <3> SUFFICES ASSUME NEW d \in heap
                 PROVE  FALSE
      OBVIOUS
    <3>1. d \in Documents /\ (hand[d[1]] = d \/ d = wdoc \/ d \in Range(queue))
      BY HeldDocument DEF HeapExact
    <3>2. d \in docs
      BY <2>1, <3>1 DEF Places, SeenStored, Seen
    <3>3. d # wdoc
      BY <2>1, <3>1, ShardOf DEF TypeOK
    <3> QED
      BY <2>7, <3>1, <3>2, <3>3 DEF Places, OnePlace
  <2> QED
    BY <2>2, <2>6, <2>7, <2>8
<1> QED
  BY <1>1, StaticIsSpec, TypeCorrect, PlacesKept, BuffersExact, CopiesWrittenOnce,
     CountsKept, UnchangedKept, PTL

=============================================================================
