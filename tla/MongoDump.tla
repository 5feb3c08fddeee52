----------------------------- MODULE MongoDump -----------------------------
(***************************************************************************)
(* tools/mongodump2.cpp: main counts the collection, starts one dumper     *)
(* thread per shard (or one for a mongod that is not a shard) and one      *)
(* writer thread, and joins them.  Every dumper copies the documents its   *)
(* cursor returns into buffers of their own and puts them into the bounded *)
(* queue q; the writer takes as many values as main counted, writes them   *)
(* and frees their buffers.                                                *)
(*                                                                         *)
(* q is the atomic channel of BoundedChannel, which BoundedBlockingQueue   *)
(* implements.  The servers are not part of the program: documents may     *)
(* come and go while the dump runs, a request may fail, and a cursor       *)
(* promises only that a document that stays is returned once.              *)
(***************************************************************************)
EXTENDS Integers, Sequences, FiniteSets, Functions

CONSTANTS Shards,     (* the servers                                       *)
          Ids,        (* the _ids of documents                             *)
          Capacity,   (* of q, 10000 in the program                        *)
          IntLimit,   (* int holds -IntLimit .. IntLimit - 1; 2^31 there   *)
          NoDoc       (* no document                                       *)

ASSUME DumpAssumption ==
    /\ IsFiniteSet(Shards) /\ IsFiniteSet(Ids)
    /\ Capacity \in Nat \ {0}
    /\ IntLimit \in Nat \ {0}
    /\ NoDoc \notin Shards \X Ids

(* The copy of a document that a shard stores; the document itself is its  *)
(* _id.  A document that moves leaves a copy behind and has a new one on   *)
(* the other shard.  A copy that was removed does not come back: the model *)
(* has no second move of a document to the same shard.                     *)
Documents == Shards \X Ids

VARIABLES
    mongos,     (* is the server main talks to a mongos?                   *)
    servers,    (* the servers behind that address                         *)
    docs,       (* the documents stored now                                *)
    gone,       (* the documents removed so far                            *)
    counted,    (* the documents stored when main counted (history)        *)
    ahead,      (* the documents in front of the open cursors              *)
    batch,      (* the documents a client has and has not returned yet     *)
    reached,    (* the documents that were ever in front of an open cursor *)
                (* (history)                                               *)
    mpc,        (* the control state of main                               *)
    total,      (* total_count                                             *)
    dpc,        (* the control state of each dumper                        *)
    hand,       (* the document a dumper has copied and not yet put        *)
    queue,      (* q                                                       *)
    wpc,        (* the control state of the writer                         *)
    wdoc,       (* the document in the writer's d                          *)
    counter,    (* counter                                                 *)
    heap,       (* the documents with a buffer that is not freed           *)
    disk,       (* the state of the output stream: "good" or "failed"      *)
    out         (* what the output file holds                              *)

server == <<mongos, servers, docs, gone, counted>>
cursor == <<ahead, batch, reached>>
writer == <<wpc, wdoc, counter, disk, out>>
vars == <<server, cursor, mpc, total, dpc, hand, queue, writer, heap>>

Of(s, D) == {d \in D : d[1] = s}

(* The conversion of an unsigned long long to int.                         *)
ToInt(n) ==
    LET r == n % (2 * IntLimit)
    IN  IF r < IntLimit THEN r ELSE r - 2 * IntLimit

(* main reaches one of these states and the process is over: a normal end, *)
(* one through catch (DBException), or one through std::terminate or a     *)
(* signal.                                                                 *)
Over == mpc \in {"exited", "caught", "aborted"}

Init ==
    /\ mongos \in BOOLEAN
    /\ servers \in (SUBSET Shards) \ {{}}
    /\ ~mongos => \E s \in Shards : servers = {s}
    /\ docs \in SUBSET (servers \X Ids)
    /\ gone = {} /\ counted = {} /\ ahead = {} /\ batch = {} /\ reached = {}
    /\ mpc = "connect" /\ total = 0
    /\ dpc = [s \in Shards |-> "none"]
    /\ hand = [s \in Shards |-> NoDoc]
    /\ queue = <<>>
    /\ wpc = "none" /\ wdoc = NoDoc /\ counter = 0
    /\ heap = {} /\ disk = "good" /\ out = <<>>

-----------------------------------------------------------------------------
(* main, l.128 to 149: c.connect, isMongos, c.count and, behind a mongos,  *)
(* the list of shards.                                                     *)
MainConnect ==
    /\ mpc = "connect"
    /\ mpc' = "is_mongos"
    /\ UNCHANGED <<server, cursor, total, dpc, hand, queue, writer, heap>>

MainIsMongos ==
    /\ mpc = "is_mongos"
    /\ mpc' = "count"
    /\ UNCHANGED <<server, cursor, total, dpc, hand, queue, writer, heap>>

MainCount ==
    /\ mpc = "count"
    /\ counted' = docs
    /\ total' = ToInt(Cardinality(docs))
    /\ mpc' = IF mongos THEN "shards" ELSE "spawn"
    /\ UNCHANGED <<mongos, servers, docs, gone, cursor, dpc, hand, queue,
                   writer, heap>>

MainShards ==
    /\ mpc = "shards"
    /\ mpc' = "spawn"
    /\ UNCHANGED <<server, cursor, total, dpc, hand, queue, writer, heap>>

(* A DBException of main's own requests: printed, and main returns         *)
(* EXIT_SUCCESS.                                                           *)
MainThrows ==
    /\ mpc \in {"connect", "is_mongos", "count", "shards"}
    /\ mpc' = "caught"
    /\ UNCHANGED <<server, cursor, total, dpc, hand, queue, writer, heap>>

(* serverStatus answers an error and isMongos throws a string that nobody  *)
(* catches, or the query for the shards returns no cursor.                 *)
MainDies ==
    /\ mpc \in {"is_mongos", "shards"}
    /\ mpc' = "aborted"
    /\ UNCHANGED <<server, cursor, total, dpc, hand, queue, writer, heap>>

(* One dumper after the other, by the name of the shard; any order of the  *)
(* servers is the order of some names.                                     *)
SpawnDumper(s) ==
    /\ mpc = "spawn"
    /\ s \in servers
    /\ dpc[s] = "none"
    /\ dpc' = [dpc EXCEPT ![s] = "connect"]
    /\ UNCHANGED <<server, cursor, mpc, total, hand, queue, writer, heap>>

SpawnWriter ==
    /\ mpc = "spawn"
    /\ \A s \in servers : dpc[s] # "none"
    /\ mpc' = "join"
    /\ wpc' = "open"
    /\ UNCHANGED <<server, cursor, total, dpc, hand, queue, wdoc, counter,
                   disk, out, heap>>

(* threads.join_all and t.join; the order does not matter.                 *)
Join ==
    /\ mpc = "join"
    /\ \A s \in servers : dpc[s] = "done"
    /\ wpc = "done"
    /\ mpc' = "last_count"
    /\ UNCHANGED <<server, cursor, total, dpc, hand, queue, writer, heap>>

(* c.count("config.shards") is printed, or throws what main catches; in    *)
(* both cases main returns EXIT_SUCCESS.                                   *)
LastCount ==
    /\ mpc = "last_count"
    /\ mpc' = "exited"
    /\ UNCHANGED <<server, cursor, total, dpc, hand, queue, writer, heap>>

-----------------------------------------------------------------------------
(* dump_mongod, l.37 to 50.                                                *)
DumperConnect(s) ==
    /\ dpc[s] = "connect"
    /\ dpc' = [dpc EXCEPT ![s] = "query"]
    /\ UNCHANGED <<server, cursor, mpc, total, hand, queue, writer, heap>>

(* The client gets documents B that were in front of the cursor; the       *)
(* server sends none only when none is left.                               *)
Receive(front, B) ==
    /\ B = {} => front = {}
    /\ batch' = batch \union B

(* mongo.query opens the cursor and answers with the first batch.          *)
DumperQuery(s) ==
    /\ dpc[s] = "query"
    /\ \E B \in SUBSET Of(s, docs) :
          /\ Receive(Of(s, docs), B)
          /\ ahead' = ahead \union (Of(s, docs) \ B)
    /\ reached' = reached \union Of(s, docs)
    /\ dpc' = [dpc EXCEPT ![s] = "more"]
    /\ UNCHANGED <<server, mpc, total, hand, queue, writer, heap>>

(* more() with an empty batch asks for the next one.                       *)
DumperGetMore(s) ==
    /\ dpc[s] = "more"
    /\ Of(s, batch) = {}
    /\ Of(s, ahead) # {}
    /\ \E B \in SUBSET Of(s, ahead) :
          /\ Receive(Of(s, ahead), B)
          /\ ahead' = ahead \ B
    /\ UNCHANGED <<server, reached, mpc, total, dpc, hand, queue, writer, heap>>

(* next(), and the copy into a buffer of its own.                          *)
DumperNext(s) ==
    /\ dpc[s] = "more"
    /\ \E d \in Of(s, batch) :
          /\ batch' = batch \ {d}
          /\ hand' = [hand EXCEPT ![s] = d]
          /\ heap' = heap \union {d}
    /\ dpc' = [dpc EXCEPT ![s] = "put"]
    /\ UNCHANGED <<server, ahead, reached, mpc, total, queue, writer>>

(* Seeded fault: a put that drops the document when the queue is full.     *)
DumperPutOrDrop(s) ==
    /\ dpc[s] = "put"
    /\ queue' = IF Len(queue) < Capacity THEN Append(queue, hand[s]) ELSE queue
    /\ heap' = IF Len(queue) < Capacity THEN heap ELSE heap \ {hand[s]}
    /\ hand' = [hand EXCEPT ![s] = NoDoc]
    /\ dpc' = [dpc EXCEPT ![s] = "more"]
    /\ UNCHANGED <<server, cursor, mpc, total, writer>>

(* q.put blocks while the queue is full.                                   *)
DumperPut(s) ==
    /\ dpc[s] = "put"
    /\ Len(queue) < Capacity
    /\ queue' = Append(queue, hand[s])
    /\ hand' = [hand EXCEPT ![s] = NoDoc]
    /\ dpc' = [dpc EXCEPT ![s] = "more"]
    /\ UNCHANGED <<server, cursor, mpc, total, writer, heap>>

(* more() answers no.                                                      *)
DumperEnd(s) ==
    /\ dpc[s] = "more"
    /\ Of(s, batch) = {}
    /\ Of(s, ahead) = {}
    /\ dpc' = [dpc EXCEPT ![s] = "done"]
    /\ UNCHANGED <<server, cursor, mpc, total, hand, queue, writer, heap>>

(* A failed connect or getMore throws, a failed query returns a null       *)
(* cursor: no handler in the thread, so the process dies.                  *)
DumperDies(s) ==
    /\ dpc[s] \in {"connect", "query", "more"}
    /\ dpc[s] = "more" => Of(s, batch) = {}
    /\ mpc' = "aborted"
    /\ UNCHANGED <<server, cursor, total, dpc, hand, queue, writer, heap>>

-----------------------------------------------------------------------------
(* dump_writer, l.52 to 70.                                                *)

(* The constructor of fstream; nobody looks at its state afterwards.       *)
WriterOpen ==
    /\ wpc = "open"
    /\ disk' \in {"good", "failed"}
    /\ wpc' = "loop"
    /\ UNCHANGED <<server, cursor, mpc, total, dpc, hand, queue, wdoc, counter,
                   out, heap>>

(* Seeded faults: a loop that stops one document early, and one that stops *)
(* one document late.                                                      *)
MoreToWriteOneLess == counter + 1 < total
MoreToWriteOneMore == counter <= total

MoreToWrite == counter < total

(* Seeded fault: a take that leaves the value in the queue.                *)
WriterPeek ==
    /\ wpc = "loop"
    /\ MoreToWrite
    /\ queue # <<>>
    /\ wdoc' = Head(queue)
    /\ wpc' = "write"
    /\ UNCHANGED <<server, cursor, mpc, total, dpc, hand, queue, counter, disk,
                   out, heap>>

(* q.take blocks while the queue is empty.                                 *)
WriterTake ==
    /\ wpc = "loop"
    /\ MoreToWrite
    /\ queue # <<>>
    /\ wdoc' = Head(queue)
    /\ queue' = Tail(queue)
    /\ wpc' = "write"
    /\ UNCHANGED <<server, cursor, mpc, total, dpc, hand, counter, disk, out,
                   heap>>

(* out.write: nothing once the stream has failed, and it may fail now.     *)
(* The branch for invalid documents cannot be taken: the constructor of    *)
(* BSONObj in the dumper has refused those.                                *)
WriterWrite ==
    /\ wpc = "write"
    /\ \/ disk = "good" /\ out' = Append(out, wdoc) /\ UNCHANGED disk
       \/ disk' = "failed" /\ UNCHANGED out
    /\ wpc' = "free"
    /\ UNCHANGED <<server, cursor, mpc, total, dpc, hand, queue, wdoc, counter,
                   heap>>

(* Seeded fault: the buffer is not freed.                                  *)
WriterKeep ==
    /\ wpc = "free"
    /\ wdoc' = NoDoc
    /\ counter' = counter + 1
    /\ wpc' = "loop"
    /\ UNCHANGED <<server, cursor, mpc, total, dpc, hand, queue, disk, out, heap>>

(* delete, ++counter, and d goes out of scope.                             *)
WriterFree ==
    /\ wpc = "free"
    /\ heap' = heap \ {wdoc}
    /\ wdoc' = NoDoc
    /\ counter' = counter + 1
    /\ wpc' = "loop"
    /\ UNCHANGED <<server, cursor, mpc, total, dpc, hand, queue, disk, out>>

WriterEnd ==
    /\ wpc = "loop"
    /\ ~MoreToWrite
    /\ wpc' = "done"
    /\ UNCHANGED <<server, cursor, mpc, total, dpc, hand, queue, wdoc, counter,
                   disk, out, heap>>

-----------------------------------------------------------------------------
(* Clients of the servers.  A new document comes in front of an open       *)
(* cursor or behind it.  A document that moves to another shard is         *)
(* inserted there and then removed here.                                   *)
Insert(d) ==
    /\ d[1] \in servers
    /\ d \notin docs \union gone
    /\ docs' = docs \union {d}
    /\ \/ UNCHANGED <<ahead, reached>>
       \/ /\ dpc[d[1]] \in {"more", "put"}
          /\ ahead' = ahead \union {d}
          /\ reached' = reached \union {d}
    /\ UNCHANGED <<mongos, servers, gone, counted, batch, mpc, total, dpc, hand,
                   queue, writer, heap>>

Remove(d) ==
    /\ d \in docs
    /\ docs' = docs \ {d}
    /\ gone' = gone \union {d}
    /\ ahead' = ahead \ {d}
    /\ UNCHANGED <<mongos, servers, counted, batch, reached, mpc, total, dpc, hand,
                   queue, writer, heap>>

-----------------------------------------------------------------------------
MainStep ==
    \/ MainConnect \/ MainIsMongos \/ MainCount \/ MainShards
    \/ MainThrows \/ MainDies
    \/ \E s \in Shards : SpawnDumper(s)
    \/ SpawnWriter \/ Join \/ LastCount

DumperStep(s) ==
    \/ DumperConnect(s) \/ DumperQuery(s) \/ DumperGetMore(s)
    \/ DumperNext(s) \/ DumperPut(s) \/ DumperEnd(s) \/ DumperDies(s)

WriterStep ==
    WriterOpen \/ WriterTake \/ WriterWrite \/ WriterFree \/ WriterEnd

Program ==
    /\ ~Over
    /\ MainStep \/ WriterStep \/ \E s \in Shards : DumperStep(s)

Clients ==
    /\ ~Over
    /\ \E d \in Documents : Insert(d) \/ Remove(d)

(* Nothing happens after the end of the process.                           *)
Finished == Over /\ UNCHANGED vars

(* A dump of a collection that nobody changes meanwhile, and one of a      *)
(* collection in use.                                                      *)
StaticNext == Program \/ Finished
Next == Program \/ Clients \/ Finished

StaticSpec == Init /\ [][StaticNext]_vars
Spec == Init /\ [][Next]_vars

(* The scheduler runs every thread, and every request to a server gets an  *)
(* answer or an error.                                                     *)
FairStaticSpec ==
    /\ StaticSpec
    /\ WF_vars(~Over /\ MainStep)
    /\ WF_vars(~Over /\ WriterStep)
    /\ \A s \in Shards : WF_vars(~Over /\ DumperStep(s))

-----------------------------------------------------------------------------
TypeOK ==
    /\ mongos \in BOOLEAN
    /\ servers \subseteq Shards
    /\ docs \subseteq Documents /\ gone \subseteq Documents
    /\ counted \subseteq Documents
    /\ ahead \subseteq docs /\ batch \subseteq Documents /\ reached \subseteq Documents
    /\ mpc \in {"connect", "is_mongos", "count", "shards", "spawn", "join",
                "last_count", "exited", "caught", "aborted"}
    /\ total \in Int
    /\ dpc \in [Shards -> {"none", "connect", "query", "more", "put", "done"}]
    /\ hand \in [Shards -> Documents \union {NoDoc}]
    /\ queue \in Seq(Documents) /\ Len(queue) <= Capacity
    /\ wpc \in {"none", "open", "loop", "write", "free", "done"}
    /\ wdoc \in Documents \union {NoDoc}
    /\ counter \in Nat
    /\ heap \subseteq Documents
    /\ disk \in {"good", "failed"}
    /\ out \in Seq(Documents)
    /\ \A s \in Shards : dpc[s] = "put" <=> hand[s] # NoDoc
    /\ wpc \in {"write", "free"} <=> wdoc # NoDoc
    /\ mpc \in {"connect", "is_mongos", "count", "shards", "spawn"} => wpc = "none"

(* The documents whose buffer some thread can still reach.                 *)
Held == ({hand[s] : s \in Shards} \union {wdoc} \union Range(queue)) \ {NoDoc}

(* Buffers belong to exactly one holder: a document that a dumper, the     *)
(* queue or the writer holds has its buffer (the writer never reads freed  *)
(* memory), no buffer is lost on the way, and none is freed twice.         *)
HeapExact ==
    /\ heap = Held
    /\ Cardinality(heap) =
         Len(queue) + Cardinality({s \in Shards : hand[s] # NoDoc})
                    + (IF wdoc = NoDoc THEN 0 ELSE 1)

(* While the stream is good, no document is lost that is still stored and  *)
(* was counted, or was ever in front of an open cursor, whenever it came   *)
(* and from whichever shard: once the cursor of its shard is open it is in *)
(* front of the cursor, with the client, in a buffer, or in the file.      *)
NoneForgotten ==
    disk = "good" =>
        \A s \in servers : dpc[s] \in {"more", "put", "done"} =>
            Of(s, counted \union reached) \ gone \subseteq
                ahead \union batch \union heap \union Range(out)

(* A document, that is an _id, is twice in the file only when it has moved *)
(* and two copies of it came in front of open cursors: each copy is written*)
(* at most once, and none that was gone before the cursor of its shard     *)
(* opened or came after it was exhausted.  A move that was over before the *)
(* cursors opened does no harm.                                            *)
WrittenOnce ==
    \A i, j \in DOMAIN out :
        i # j /\ out[i][2] = out[j][2] =>
            out[i] # out[j] /\ {out[i], out[j]} \subseteq reached

(* A writer that waits for ever (every dumper is done, the queue is empty, *)
(* the loop goes on) waits for a counted document that was removed.        *)
StarvedOnlyByRemoval ==
    /\ mpc = "join" /\ \A s \in servers : dpc[s] = "done"
    /\ wpc = "loop" /\ counter < total /\ queue = <<>>
    /\ Cardinality(counted) = total
    => counted \intersect gone # {}

(* Dumpers block for ever on a full queue, the writer being done, only     *)
(* when documents arrived after the count.                                 *)
BlockedOnlyByInsertion ==
    /\ mpc = "join" /\ wpc = "done"
    /\ Cardinality(counted) = total /\ queue # <<>> /\ disk = "good"
    => ~ (Range(out) \union Range(queue) \subseteq counted)

(* A normal end of a dump without changes, with a good stream and a count  *)
(* that fits an int: the file is the collection and every buffer is freed. *)
ExactDump ==
    mpc = "exited" /\ disk = "good" /\ total = Cardinality(counted) =>
        /\ Range(out) = docs
        /\ Len(out) = Cardinality(docs)
        /\ heap = {}

(* The dump of a collection without changes comes to an end.               *)
DumpEnds == <>Over

(* "dump shard集群(不支持replica set)的数据" (l.3): when main has joined    *)
(* every thread and returns, and no write has failed, the file holds each  *)
(* document that was there all the time.                                   *)
CompleteDump ==
    mpc = "exited" /\ disk = "good" => counted \ gone \subseteq Range(out)

=============================================================================
