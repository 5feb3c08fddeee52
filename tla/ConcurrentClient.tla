-------------------------- MODULE ConcurrentClient --------------------------
(***************************************************************************)
(* CalculatorConcurrentClient and SharedServiceConcurrentClient            *)
(* (gen-cpp/Calculator.cpp, SharedService.cpp): threads that share one     *)
(* connection.  Each call gets a sequence number; whichever thread reads   *)
(* the head of a message hands it to the thread with that number, which    *)
(* reads the body.  sync_ is TConcurrentClientSyncInfo of the Thrift       *)
(* library: numbers and their monitors, the message handed on, and two     *)
(* mutexes.  It is external and modelled with the calls this code makes.   *)
(*                                                                         *)
(* A failing send takes effect without the read mutex, between any two     *)
(* steps of the thread that has it.                                        *)
(***************************************************************************)
EXTENDS Integers, Sequences, FiniteSets, FiniteSetsExt

CONSTANTS
    Threads,
    Methods,          (* the methods in use                                *)
    MinSeq, MaxSeq,   (* the range of a sequence number, an int32_t        *)
    FirstSeq,         (* the first one                                     *)
    MaxCalls,         (* bound on the calls of all threads                 *)
    Nobody, None

ASSUME ClientAssumption ==
    /\ MinSeq \in Int /\ MaxSeq \in Int /\ FirstSeq \in MinSeq..MaxSeq
    /\ MaxCalls \in Nat
    /\ Nobody \notin Threads

(* The methods: what a reply can hold that ends the call.  zip is oneway.  *)
Ping      == [name |-> "ping", ends |-> {"exception", "success"}]
Add       == [name |-> "add", ends |-> {"exception", "success"}]
Calculate == [name |-> "calculate", ends |-> {"exception", "success", "ouch"}]
GetStruct == [name |-> "getStruct", ends |-> {"exception", "success"}]
Zip       == [name |-> "zip", ends |-> {}]

(* The messages there are, and what is none.                               *)
Replies == [of : Threads, seqid : (MinSeq..MaxSeq) \union {0},
            kind : {"exception", "success", "ouch", "malformed"}]

ASSUME ValueAssumption ==
    /\ Methods \subseteq {Ping, Add, Calculate, GetStruct, Zip}
    /\ None \notin Replies

VARIABLES
    pc,         (* where each thread is                                    *)
    method,     (* the call it is in, or None                              *)
    seqid,      (* the number of that call                                 *)
    head,       (* the message whose head it has read or been handed       *)
    outcome,    (* the message whose body it has read, or None             *)
    registered, nextSeqid, stop, pending, wakeup,   (* sync_               *)
    writer, reader,                                 (* its two mutexes     *)
    notified,   (* threads asleep whose monitor was notified               *)
    requests,   (* calls the server has not answered                       *)
    replies,    (* replies on the way, in order                            *)
    half,       (* the message whose head has been read and body not       *)
    closed,     (* the server has closed the connection                    *)
    made        (* number of calls                                         *)

locals == <<method, seqid, head, outcome>>
sync   == <<registered, nextSeqid, stop, pending, wakeup>>
net    == <<requests, replies, half, closed>>
vars   == <<pc, locals, sync, writer, reader, notified, net, made>>

Init ==
    /\ pc = [t \in Threads |-> "idle"]
    /\ method = [t \in Threads |-> None] /\ seqid = [t \in Threads |-> 0]
    /\ head = [t \in Threads |-> None] /\ outcome = [t \in Threads |-> None]
    /\ registered = {} /\ nextSeqid = FirstSeq
    /\ stop = FALSE /\ pending = None /\ wakeup = FALSE
    /\ writer = Nobody /\ reader = Nobody /\ notified = {}
    /\ requests = {} /\ replies = <<>> /\ half = None /\ closed = FALSE /\ made = 0

Goto(t, l) == pc' = [pc EXCEPT ![t] = l]

(* monitor->notify() for the threads with these numbers.                   *)
Notify(ids) ==
    notified' = notified \union {t \in Threads : pc[t] = "asleep" /\ seqid[t] \in ids}

(* markBad_: the connection is dead; everybody asleep is to find out.      *)
MarkBad(ids) == stop' = TRUE /\ wakeup' = TRUE /\ Notify(ids)

-----------------------------------------------------------------------------
(* send_X.                                                                 *)

(* The number is about to be used again: an exception.  Only the smallest  *)
(* number in use is looked at.                                             *)
Repeats == registered # {} /\ nextSeqid = Min(registered)

(* generateSeqId.  On a dead connection this throws, and nothing changes.  *)
Call(t, m) ==
    /\ pc[t] = "idle" /\ made < MaxCalls
    /\ m # Zip /\ ~stop /\ ~Repeats
    /\ Goto(t, "sending")
    /\ method' = [method EXCEPT ![t] = m]
    /\ seqid' = [seqid EXCEPT ![t] = nextSeqid]
    /\ registered' = registered \union {nextSeqid}
    /\ nextSeqid' = IF nextSeqid = MaxSeq THEN MinSeq ELSE nextSeqid + 1
    /\ made' = made + 1
    /\ UNCHANGED <<head, outcome, stop, pending, wakeup, writer, reader, notified, net>>

(* send_zip: the number 0, whatever it is in use for.                      *)
CallZip(t) ==
    /\ pc[t] = "idle" /\ made < MaxCalls /\ Zip \in Methods
    /\ Goto(t, "sending")
    /\ method' = [method EXCEPT ![t] = Zip]
    /\ seqid' = [seqid EXCEPT ![t] = 0]
    /\ made' = made + 1
    /\ UNCHANGED <<head, outcome, sync, writer, reader, notified, net>>

(* TConcurrentSendSentry.                                                  *)
LockWrite(t) ==
    /\ pc[t] = "sending" /\ writer = Nobody
    /\ writer' = t
    /\ Goto(t, "writing")
    /\ UNCHANGED <<locals, sync, reader, notified, net, made>>

(* The message is written, flushed and committed.                          *)
Sent(t) ==
    /\ pc[t] = "writing"
    /\ writer' = Nobody
    /\ IF method[t] = Zip
       THEN Goto(t, "idle") /\ UNCHANGED requests
       ELSE /\ Goto(t, "receiving")
            /\ requests' = requests \union {[of |-> t, seqid |-> seqid[t], ends |-> method[t].ends]}
    /\ UNCHANGED <<locals, sync, reader, notified, replies, half, closed, made>>

(* The transport throws: the server got nothing.  The number stays         *)
(* registered.                                                             *)
SendFails(t) ==
    /\ pc[t] = "writing" /\ closed
    /\ MarkBad(registered)
    /\ writer' = Nobody
    /\ Goto(t, "idle")
    /\ UNCHANGED <<locals, registered, nextSeqid, pending, reader, net, made>>

-----------------------------------------------------------------------------
(* recv_X.  From "checking" to "asleep" or the end, t has the read mutex.  *)

(* TConcurrentRecvSentry.                                                  *)
LockRead(t) ==
    /\ pc[t] = "receiving" /\ reader = Nobody
    /\ reader' = t
    /\ Goto(t, "checking")
    /\ UNCHANGED <<locals, sync, writer, notified, net, made>>

(* Seeded fault: what was handed on is left for others to take again.      *)
TakenNot == pending

Taken == None

(* getPending.                                                             *)
GetPending(t) ==
    /\ pc[t] = "checking"
    /\ IF stop THEN Goto(t, "failing") /\ UNCHANGED <<pending, wakeup, head>>
       ELSE /\ wakeup' = FALSE
            /\ pending' = Taken
            /\ head' = [head EXCEPT ![t] = pending]
            /\ Goto(t, IF pending = None THEN "reading" ELSE "matching")
    /\ UNCHANGED <<method, seqid, outcome, registered, nextSeqid, stop>>
    /\ UNCHANGED <<writer, reader, notified, net, made>>

(* readMessageBegin, which waits for a message.                            *)
ReadHead(t) ==
    /\ pc[t] = "reading" /\ replies # <<>>
    /\ head' = [head EXCEPT ![t] = Head(replies)]
    /\ half' = Head(replies)
    /\ replies' = Tail(replies)
    /\ Goto(t, "matching")
    /\ UNCHANGED <<method, seqid, outcome, sync, writer, reader, notified>>
    /\ UNCHANGED <<requests, closed, made>>

ReadEof(t) ==
    /\ pc[t] = "reading" /\ replies = <<>> /\ closed
    /\ Goto(t, "failing")
    /\ UNCHANGED <<locals, sync, writer, reader, notified, net, made>>

(* Seeded fault: the thread that reads a head keeps the message.           *)
MineAlways(t) == TRUE

Mine(t) == head[t].seqid = seqid[t]

(* The body is read.  The call ends with the connection in order if it is  *)
(* an exception, or a result of this method with a field that is set.      *)
ReadBody(t) ==
    /\ pc[t] = "matching" /\ Mine(t)
    /\ outcome' = [outcome EXCEPT ![t] = half]
    /\ half' = None
    /\ Goto(t, IF head[t].kind \in method[t].ends THEN "committed" ELSE "failing")
    /\ UNCHANGED <<method, seqid, head, sync, writer, reader, notified>>
    /\ UNCHANGED <<requests, replies, closed, made>>

(* updatePending, with the notify of the owner.                            *)
HandOn(t) ==
    /\ pc[t] = "matching" /\ ~Mine(t) /\ head[t].seqid \in registered
    /\ pending' = head[t]
    /\ Notify({head[t].seqid})
    /\ Goto(t, "testing")
    /\ UNCHANGED <<locals, registered, nextSeqid, stop, wakeup, writer, reader, net, made>>

(* updatePending, and nobody has that number: an exception.                *)
HandOnBad(t) ==
    /\ pc[t] = "matching" /\ ~Mine(t) /\ head[t].seqid \notin registered
    /\ pending' = head[t]
    /\ Goto(t, "failing")
    /\ UNCHANGED <<locals, registered, nextSeqid, stop, wakeup>>
    /\ UNCHANGED <<writer, reader, notified, net, made>>

(* waitForWork, the test.                                                  *)
Awaited(t) ==
    IF stop THEN "failing"
    ELSE IF wakeup \/ (pending # None /\ pending.seqid = seqid[t]) THEN "checking"
    ELSE "drowsy"

Test(t) ==
    /\ pc[t] = "testing"
    /\ Goto(t, Awaited(t))
    /\ UNCHANGED <<locals, sync, writer, reader, notified, net, made>>

(* waitForever gives the read mutex up and takes it again.                 *)
Sleep(t) ==
    /\ pc[t] = "drowsy"
    /\ reader' = Nobody
    /\ Goto(t, "asleep")
    /\ UNCHANGED <<locals, sync, writer, notified, net, made>>

WakeAs(t) ==
    /\ pc[t] = "asleep" /\ reader = Nobody
    /\ reader' = t
    /\ notified' = notified \ {t}
    /\ Goto(t, "testing")
    /\ UNCHANGED <<locals, sync, writer, net, made>>

Wake(t)     == t \in notified /\ WakeAs(t)
Spurious(t) == t \notin notified /\ WakeAs(t)

(* Seeded fault: a thread that goes without waking another.                *)
NextReaderNone(ids) == {}

(* wakeupAnyone_: the thread with the largest number is to read next.      *)
NextReader(ids) == IF ids = {} THEN {} ELSE {Max(ids)}

(* ~TConcurrentRecvSentry, committed or not, then the end of the call.     *)
Leave(t) ==
    /\ pc[t] \in {"committed", "failing"}
    /\ registered' = registered \ {seqid[t]}
    /\ IF pc[t] = "committed"
       THEN wakeup' = TRUE /\ Notify(NextReader(registered')) /\ UNCHANGED stop
       ELSE MarkBad(registered')
    /\ reader' = Nobody
    /\ Goto(t, "idle")
    /\ method' = [method EXCEPT ![t] = None]
    /\ head' = [head EXCEPT ![t] = None]
    /\ outcome' = [outcome EXCEPT ![t] = None]
    /\ UNCHANGED <<seqid, nextSeqid, pending, writer, net, made>>

-----------------------------------------------------------------------------
(* The server answers calls in any order, or closes the connection.  A     *)
(* malformed reply is one of another name or type, or has no field set.    *)
Kinds(q) == q.ends \union {"malformed"}

Answer ==
    /\ ~closed
    /\ \E q \in requests : \E k \in Kinds(q) :
        /\ replies' = Append(replies, [of |-> q.of, seqid |-> q.seqid, kind |-> k])
        /\ requests' = requests \ {q}
    /\ UNCHANGED <<pc, locals, sync, writer, reader, notified, half, closed, made>>

(* A reply to a number that nobody waits for: that of a zip that the       *)
(* server does not know.                                                   *)
AnswerZip ==
    /\ ~closed /\ Zip \in Methods
    /\ \E t \in Threads :
        /\ pc[t] = "idle" /\ method[t] = Zip
        /\ replies' = Append(replies, [of |-> t, seqid |-> 0, kind |-> "exception"])
        /\ method' = [method EXCEPT ![t] = None]
    /\ UNCHANGED <<pc, seqid, head, outcome, sync, writer, reader, notified>>
    /\ UNCHANGED <<requests, half, closed, made>>

Close ==
    /\ ~closed
    /\ closed' = TRUE
    /\ UNCHANGED <<pc, locals, sync, writer, reader, notified, requests, replies, half, made>>

-----------------------------------------------------------------------------
Step(t) ==
    \/ LockWrite(t) \/ Sent(t) \/ SendFails(t)
    \/ GetPending(t) \/ ReadHead(t) \/ ReadEof(t)
    \/ ReadBody(t) \/ HandOn(t) \/ HandOnBad(t)
    \/ Test(t) \/ Sleep(t) \/ Leave(t)

GetReader(t) == LockRead(t) \/ Wake(t)

Next ==
    \/ \E t \in Threads :
        (\E m \in Methods : Call(t, m)) \/ CallZip(t) \/ Step(t) \/ GetReader(t) \/ Spurious(t)
    \/ Answer \/ AnswerZip \/ Close

(* Threads are scheduled, spurious wakeups do not keep the read mutex from *)
(* a thread for ever, and the server answers until it closes.              *)
Spec ==
    /\ Init /\ [][Next]_vars
    /\ \A t \in Threads : WF_vars(Step(t)) /\ SF_vars(GetReader(t))
    /\ WF_vars(Answer)

-----------------------------------------------------------------------------
Places == {"idle", "sending", "writing", "receiving", "checking", "reading", "matching",
           "testing", "drowsy", "asleep", "committed", "failing"}
HasReader(t) == pc[t] \in Places \ {"idle", "sending", "writing", "receiving", "asleep"}

TypeOK ==
    /\ pc \in [Threads -> Places]
    /\ registered \subseteq MinSeq..MaxSeq /\ nextSeqid \in MinSeq..MaxSeq
    /\ \A t \in Threads :
        /\ pc[t] = "writing" <=> writer = t
        /\ HasReader(t) <=> reader = t
    /\ notified \subseteq {t \in Threads : pc[t] = "asleep"}

(* A thread that ends its call in order has read the reply to its own      *)
(* call, however replies are ordered and whichever thread read their heads.*)
OwnReply ==
    \A t \in Threads : pc[t] = "committed" => outcome[t] # None /\ outcome[t].of = t

(* A thread reads a head only at the beginning of a message, and a body    *)
(* only after the head of that message: the stream is never misread.       *)
Aligned ==
    /\ TypeOK
    /\ \A t \in Threads :
        /\ pc[t] = "reading" => half = None
        /\ pc[t] = "matching" => half = head[t]

(* Everybody's reply can be read by somebody: while calls wait for replies *)
(* and the connection is alive, not all of them are asleep and unnotified. *)
SomeoneReads ==
    LET waiting == {t \in Threads : pc[t] = "asleep"}
        busy == {t \in Threads : pc[t] # "idle"}
    IN  waiting # {} /\ waiting = busy => waiting \intersect notified # {}

(* Every call comes to an end if the server answers or closes.             *)
CallsEnd == \A t \in Threads : pc[t] # "idle" ~> pc[t] = "idle"

=============================================================================
