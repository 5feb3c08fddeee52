----------------------- MODULE ConcurrentClient_proofs -----------------------
(***************************************************************************)
(* The stream of a shared connection is read message by message, proved    *)
(* for any threads, any methods, any range of sequence numbers (repeated   *)
(* ones included), any failure and any order of replies.                   *)
(***************************************************************************)
EXTENDS ConcurrentClient, WellFoundedInduction, TLAPS

(* The thread that is in the middle of a message, or gives up on it.       *)
MidMessage(t) == pc[t] \in {"reading", "matching", "failing"}

(* Why Aligned is kept: on a live connection, a message whose head has     *)
(* been read is either the business of the thread with the read mutex or   *)
(* the one that has been handed on.                                        *)
Stream ==
    /\ DOMAIN head = Threads
    /\ \A t \in Threads :
        /\ pc[t] = "reading" => half = None /\ pending = None
        /\ pc[t] = "matching" => half = head[t] /\ pending = None
    /\ ~stop /\ (\A t \in Threads : ~MidMessage(t)) => half = pending
    /\ \A t \in Threads : pc[t] = "committed" => half = None /\ pending = None

(* Numbers stay in range, the write mutex is held from "writing" on and    *)
(* the read mutex from "checking" on, and only sleepers are notified.      *)
THEOREM TypeCorrect == Spec => []TypeOK
<1>1. Init => TypeOK
  BY ClientAssumption DEF Init, TypeOK, HasReader, Places
<1>2. TypeOK /\ [Next]_vars => TypeOK'
  <2> SUFFICES ASSUME TypeOK, [Next]_vars
               PROVE  TypeOK'
    OBVIOUS
  <2> USE ClientAssumption DEF TypeOK, HasReader, Places, Goto, locals, sync, net
  <2>1. ASSUME NEW t \in Threads, NEW m \in Methods, Call(t, m)
        PROVE  TypeOK'
    BY <2>1 DEF Call
  <2>2. ASSUME NEW t \in Threads, CallZip(t)
        PROVE  TypeOK'
    BY <2>2 DEF CallZip
  <2>3. ASSUME NEW t \in Threads, LockWrite(t) \/ Sent(t)
        PROVE  TypeOK'
    BY <2>3 DEF LockWrite, Sent
  <2>4. ASSUME NEW t \in Threads, SendFails(t)
        PROVE  TypeOK'
    BY <2>4 DEF SendFails, MarkBad, Notify
  <2>5. ASSUME NEW t \in Threads, LockRead(t) \/ ReadHead(t) \/ ReadEof(t)
        PROVE  TypeOK'
    <3>1. CASE LockRead(t)
      BY <3>1 DEF LockRead
    <3>2. CASE ReadHead(t)
      BY <3>2 DEF ReadHead
    <3>3. CASE ReadEof(t)
      BY <3>3 DEF ReadEof
    <3> QED
      BY <2>5, <3>1, <3>2, <3>3
  <2>6. ASSUME NEW t \in Threads, ReadBody(t) \/ HandOnBad(t)
        PROVE  TypeOK'
    <3>1. CASE ReadBody(t)
      BY <3>1 DEF ReadBody
    <3>2. CASE HandOnBad(t)
      BY <3>2 DEF HandOnBad
    <3> QED
      BY <2>6, <3>1, <3>2
  <2>7. ASSUME NEW t \in Threads, HandOn(t)
        PROVE  TypeOK'
    BY <2>7 DEF HandOn, Notify
  <2>8. ASSUME NEW t \in Threads, Test(t)
        PROVE  TypeOK'
    <3>1. Awaited(t) \in {"failing", "checking", "drowsy"}
      BY DEF Awaited
    <3> QED
      BY <2>8, <3>1 DEF Test
  <2>9. ASSUME NEW t \in Threads, WakeAs(t)
        PROVE  TypeOK'
    BY <2>9 DEF WakeAs
  <2>10. ASSUME NEW t \in Threads, Leave(t)
         PROVE  TypeOK'
    BY <2>10 DEF Leave, MarkBad, Notify
  <2>11. CASE Answer \/ AnswerZip \/ Close \/ UNCHANGED vars
    BY <2>11 DEF Answer, AnswerZip, Close, vars
  <2>12. ASSUME NEW t \in Threads, GetPending(t)
         PROVE  TypeOK'
    <3>1. PICK l \in {"failing", "reading", "matching"} : Goto(t, l)
      BY <2>12 DEF GetPending
    <3> QED
      BY <2>12, <3>1 DEF GetPending
  <2>13. ASSUME NEW t \in Threads, Sleep(t)
         PROVE  TypeOK'
    BY <2>13 DEF Sleep
  <2> QED
    BY <2>1, <2>2, <2>3, <2>4, <2>5, <2>6, <2>7, <2>8, <2>9, <2>10, <2>11, <2>12, <2>13
       DEF Next, Step, GetReader, Wake, Spurious
<1> QED
  BY <1>1, <1>2, PTL DEF Spec

-----------------------------------------------------------------------------
LEMMA StreamKept == Spec => []Stream
<1>1. Init => Stream
  BY DEF Init, Stream, MidMessage
<1>2. TypeOK /\ Stream /\ [Next]_vars => Stream'
  <2> SUFFICES ASSUME TypeOK, Stream, [Next]_vars
               PROVE  Stream'
    OBVIOUS
  <2> USE DEF TypeOK, HasReader, Places, Stream, MidMessage, Goto, locals, sync, net
  <2>1. ASSUME NEW t \in Threads,
               (\E m \in Methods : Call(t, m)) \/ CallZip(t) \/ LockWrite(t) \/ Sent(t)
        PROVE  Stream'
    BY <2>1 DEF Call, CallZip, LockWrite, Sent
  <2>2. ASSUME NEW t \in Threads, SendFails(t)
        PROVE  Stream'
    BY <2>2 DEF SendFails, MarkBad
  <2>3. ASSUME NEW t \in Threads, LockRead(t)
        PROVE  Stream'
    BY <2>3 DEF LockRead
  <2>4. ASSUME NEW t \in Threads, GetPending(t)
        PROVE  Stream'
    BY <2>4 DEF GetPending, Taken
  <2>5. ASSUME NEW t \in Threads, ReadHead(t)
        PROVE  Stream'
    BY <2>5 DEF ReadHead
  <2>6. ASSUME NEW t \in Threads, ReadEof(t)
        PROVE  Stream'
    BY <2>6 DEF ReadEof
  <2>7. ASSUME NEW t \in Threads, ReadBody(t)
        PROVE  Stream'
    BY <2>7 DEF ReadBody
  <2>8. ASSUME NEW t \in Threads, HandOn(t)
        PROVE  Stream'
    BY <2>8 DEF HandOn
  <2>9. ASSUME NEW t \in Threads, HandOnBad(t)
        PROVE  Stream'
    BY <2>9 DEF HandOnBad
  <2>10. ASSUME NEW t \in Threads, Test(t) \/ Sleep(t) \/ WakeAs(t)
         PROVE  Stream'
    BY <2>10 DEF Test, Awaited, Sleep, WakeAs
  <2>11. ASSUME NEW t \in Threads, Leave(t)
         PROVE  Stream'
    BY <2>11 DEF Leave, MarkBad
  <2>12. CASE Answer \/ AnswerZip \/ Close \/ UNCHANGED vars
    BY <2>12 DEF Answer, AnswerZip, Close, vars
  <2> QED
    BY <2>1, <2>2, <2>3, <2>4, <2>5, <2>6, <2>7, <2>8, <2>9, <2>10, <2>11, <2>12
       DEF Next, Step, GetReader, Wake, Spurious
<1> QED
  BY <1>1, <1>2, TypeCorrect, PTL DEF Spec

(* No reply is misread: a head is read only where a message begins, a body *)
(* only by a thread that has or was handed the head of that same message.  *)
THEOREM StreamAligned == Spec => []Aligned
<1>1. TypeOK /\ Stream => Aligned
  BY DEF Stream, Aligned
<1> QED
  BY <1>1, TypeCorrect, StreamKept, PTL

-----------------------------------------------------------------------------
(* Whose reply is whose.  Numbers tell calls apart for one turn: no number *)
(* is handed out twice, and that of zip not at all.  The library begins    *)
(* right below the largest int32_t, so a turn is 2^31 calls long.          *)
Turn(q) ==
    IF q >= FirstSeq THEN q - FirstSeq ELSE q - MinSeq + (MaxSeq - FirstSeq) + 1

OneTurn ==
    /\ MaxCalls <= MaxSeq - MinSeq + 1
    /\ Zip \in Methods => MaxCalls <= Turn(0)

InCall(t)    == pc[t] # "idle" /\ method[t] # Zip
Receiving(t) == pc[t] \notin {"idle", "sending", "writing"}

(* What is under way of all calls, between Sent and the read of the body.  *)
Mail == requests \union {replies[i] : i \in DOMAIN replies} \union ({half} \ {None})

MailType ==
    /\ DOMAIN seqid = Threads /\ DOMAIN outcome = Threads
    /\ DOMAIN head = Threads /\ DOMAIN method = Threads
    /\ made \in 0..MaxCalls
    /\ \A q \in requests :
        q.of \in Threads /\ q.seqid \in MinSeq..MaxSeq
        /\ q.ends \subseteq {"exception", "success", "ouch"}
    /\ replies \in Seq(Replies)
    /\ half \in Replies \union {None}
    /\ \A t \in Threads :
        /\ pc[t] # "idle" => method[t] \in Methods
        /\ Receiving(t) => method[t] # Zip
        /\ pc[t] = "matching" => half # None

Used(q) ==
    /\ q \in MinSeq..MaxSeq /\ Turn(q) < MaxCalls
    /\ made < MaxCalls => Turn(q) < Turn(nextSeqid)

Fresh ==
    /\ Turn(nextSeqid) <= made
    /\ \A q \in registered : Used(q)
    /\ \A m \in Mail : Used(m.seqid) \/ (Zip \in Methods /\ m.seqid = 0)

Numbered ==
    /\ \A t \in Threads : InCall(t) => seqid[t] \in registered
    /\ \A t, u \in Threads : InCall(t) /\ InCall(u) /\ seqid[t] = seqid[u] => t = u

(* A message is for the one that has its number, and nobody's once the     *)
(* owner has gone.                                                         *)
Addressed ==
    \A m \in Mail :
        /\ \A t \in Threads : InCall(t) /\ m.seqid = seqid[t] => m.of = t
        /\ m.seqid \in registered =>
               InCall(m.of) /\ Receiving(m.of) /\ seqid[m.of] = m.seqid

Ended ==
    \A t \in Threads : pc[t] = "committed" => outcome[t] \in Replies /\ outcome[t].of = t

MailInv == MailType /\ Fresh /\ Numbered /\ Addressed /\ Ended

LEMMA MailFacts ==
    ASSUME MailType
    PROVE  \A m \in Mail : m.of \in Threads
<1>1. \A m \in Replies : m.of \in Threads
  BY DEF Replies
<1>2. \A i \in DOMAIN replies : replies[i] \in Replies
  BY DEF MailType
<1> QED
  BY <1>1, <1>2 DEF MailType, Mail

(* A thread that moves on within recv_X.                                   *)
LEMMA MovesKeepMail ==
    ASSUME TypeOK, MailInv, NEW t \in Threads, NEW l, Receiving(t), Goto(t, l),
           l \notin {"idle", "sending", "writing", "committed"},
           l = "matching" => half # None, DOMAIN head' = Threads,
           UNCHANGED <<method, seqid, outcome, registered, nextSeqid, requests, replies,
                       half, made>>
    PROVE  MailInv'
<1> USE DEF TypeOK, MailInv, Goto
<1>1. /\ \A u \in Threads : InCall(u)' <=> InCall(u)
      /\ \A u \in Threads : Receiving(u)' <=> Receiving(u)
      /\ Mail' = Mail
  BY DEF InCall, Receiving, Mail
<1>2. MailType'
  BY <1>1 DEF MailType, Receiving
<1>3. Fresh' /\ Numbered'
  BY <1>1 DEF Fresh, Used, Numbered
<1>4. Addressed'
  BY <1>1 DEF Addressed, InCall, Receiving, MailType
<1>5. Ended'
  BY DEF Ended
<1> QED
  BY <1>2, <1>3, <1>4, <1>5

(* A number has one place in the turn, and the next number the next place. *)
LEMMA TurnsDiffer ==
    ASSUME NEW p \in MinSeq..MaxSeq, NEW q \in MinSeq..MaxSeq, Turn(p) = Turn(q)
    PROVE  p = q
  BY ClientAssumption DEF Turn

LEMMA NextTurn ==
    ASSUME OneTurn, nextSeqid \in MinSeq..MaxSeq, made \in Nat, made < MaxCalls,
           Turn(nextSeqid) <= made,
           NEW n, n = IF nextSeqid = MaxSeq THEN MinSeq ELSE nextSeqid + 1
    PROVE  /\ n \in MinSeq..MaxSeq /\ Turn(n) <= made + 1
           /\ made + 1 < MaxCalls => Turn(n) = Turn(nextSeqid) + 1
  BY ClientAssumption DEF Turn, OneTurn

LEMMA CallKeepsMail ==
    ASSUME OneTurn, TypeOK, MailInv, NEW t \in Threads, NEW m \in Methods, Call(t, m)
    PROVE  MailInv'
<1> USE DEF TypeOK, MailInv, Goto, locals, sync, net
<1>1. /\ pc[t] = "idle" /\ m # Zip /\ made < MaxCalls /\ made' = made + 1
      /\ pc' = [pc EXCEPT ![t] = "sending"] /\ method' = [method EXCEPT ![t] = m]
      /\ seqid' = [seqid EXCEPT ![t] = nextSeqid]
      /\ registered' = registered \union {nextSeqid}
      /\ nextSeqid' = IF nextSeqid = MaxSeq THEN MinSeq ELSE nextSeqid + 1
      /\ UNCHANGED <<head, outcome, requests, replies, half>>
  BY DEF Call
<1>2. made \in Nat /\ Turn(nextSeqid) <= made /\ MaxCalls \in Nat
  BY ClientAssumption DEF MailType, Fresh
<1>3. /\ nextSeqid' \in MinSeq..MaxSeq /\ Turn(nextSeqid') <= made'
      /\ made' < MaxCalls => Turn(nextSeqid') = Turn(nextSeqid) + 1
  BY <1>1, <1>2, NextTurn
<1> PICK n \in MinSeq..MaxSeq : n = nextSeqid
  OBVIOUS
<1>4. \A q \in MinSeq..MaxSeq : Turn(q) \in Nat
  BY ClientAssumption DEF Turn
<1>5. (\A q : Used(q) => Used(q)') /\ Used(n)' /\ ~Used(n)
  <2>1. ASSUME NEW q, Used(q)
        PROVE  Used(q)'
    BY <1>1, <1>2, <1>3, <1>4, <2>1 DEF Used
  <2>2. Used(n)' /\ ~Used(n)
    BY <1>1, <1>2, <1>3, <1>4 DEF Used
  <2> QED
    BY <2>1, <2>2
<1>6. Mail' = Mail /\ n \notin registered /\ \A x \in Mail : x.seqid # n
  <2>1. Zip \in Methods => n # 0
    BY <1>1, <1>2, <1>4 DEF OneTurn
  <2> QED
    BY <1>1, <1>5, <2>1 DEF Mail, Fresh
<1>7. /\ \A u \in Threads \ {t} :
            /\ InCall(u)' <=> InCall(u)
            /\ Receiving(u)' <=> Receiving(u)
            /\ seqid'[u] = seqid[u]
      /\ InCall(t)' /\ ~Receiving(t)' /\ seqid'[t] = nextSeqid /\ ~InCall(t)
  BY <1>1 DEF InCall, Receiving, MailType
<1>8. MailType'
  BY <1>1, ClientAssumption DEF MailType, Receiving
<1>9. Fresh'
  BY <1>1, <1>3, <1>5, <1>6 DEF Fresh
<1>10. Numbered'
  BY <1>1, <1>6, <1>7 DEF Numbered
<1>11. Addressed'
  BY <1>1, <1>6, <1>7, MailFacts DEF Addressed
<1>12. Ended'
  BY <1>1 DEF Ended, MailType
<1> QED
  BY <1>8, <1>9, <1>10, <1>11, <1>12

LEMMA SendingKeepsMail ==
    ASSUME OneTurn, TypeOK, MailInv, NEW t \in Threads,
           CallZip(t) \/ LockWrite(t) \/ Sent(t) \/ SendFails(t)
    PROVE  MailInv'
<1> USE DEF TypeOK, MailInv, Goto, locals, sync, net
<1>1. CASE CallZip(t)
  <2>1. /\ pc[t] = "idle" /\ made' = made + 1 /\ made < MaxCalls /\ Zip \in Methods
        /\ pc' = [pc EXCEPT ![t] = "sending"] /\ method' = [method EXCEPT ![t] = Zip]
        /\ seqid' = [seqid EXCEPT ![t] = 0]
        /\ UNCHANGED <<head, outcome, registered, nextSeqid, requests, replies, half>>
    BY <1>1 DEF CallZip
  <2>2. /\ \A u \in Threads \ {t} :
              /\ InCall(u)' <=> InCall(u)
              /\ Receiving(u)' <=> Receiving(u)
              /\ seqid'[u] = seqid[u]
        /\ ~InCall(t)' /\ ~Receiving(t)' /\ ~InCall(t) /\ Mail' = Mail
    BY <2>1 DEF InCall, Receiving, MailType, Mail
  <2>3. made \in Nat /\ MaxCalls \in Nat
    BY ClientAssumption DEF MailType
  <2>4. MailType'
    BY <2>1, <2>3 DEF MailType, Receiving
  <2>5. \A q : Used(q) => Used(q)'
    BY <2>1, <2>3 DEF Used, Turn
  <2>6. Turn(nextSeqid)' <= made'
    BY <2>1, <2>3, ClientAssumption DEF Fresh, Turn
  <2>7. Fresh'
    BY <2>1, <2>2, <2>5, <2>6 DEF Fresh
  <2>8. Numbered' /\ Addressed'
    BY <2>1, <2>2, MailFacts DEF Numbered, Addressed
  <2>9. Ended'
    BY <2>1 DEF Ended
  <2> QED
    BY <2>4, <2>7, <2>8, <2>9
<1>2. CASE LockWrite(t)
  <2>1. /\ pc[t] = "sending" /\ pc' = [pc EXCEPT ![t] = "writing"]
        /\ UNCHANGED <<method, seqid, head, outcome, registered, nextSeqid, requests,
                       replies, half, made>>
    BY <1>2 DEF LockWrite
  <2>2. /\ \A u \in Threads : (InCall(u)' <=> InCall(u)) /\ (Receiving(u)' <=> Receiving(u))
        /\ Mail' = Mail
    BY <2>1 DEF InCall, Receiving, Mail
  <2>3. MailType'
    BY <2>1 DEF MailType, Receiving
  <2>4. Fresh' /\ Numbered' /\ Ended'
    BY <2>1, <2>2 DEF Fresh, Used, Numbered, Ended
  <2>5. Addressed'
    BY <2>1, <2>2 DEF Addressed, InCall, Receiving, MailType
  <2> QED
    BY <2>3, <2>4, <2>5
<1>3. CASE Sent(t) /\ method[t] = Zip
  <2>1. /\ pc[t] = "writing" /\ pc' = [pc EXCEPT ![t] = "idle"]
        /\ UNCHANGED <<method, seqid, head, outcome, registered, nextSeqid, requests,
                       replies, half, made>>
    BY <1>3 DEF Sent
  <2>2. /\ \A u \in Threads : (InCall(u)' <=> InCall(u)) /\ (Receiving(u)' <=> Receiving(u))
        /\ Mail' = Mail
    BY <1>3, <2>1 DEF InCall, Receiving, Mail
  <2>3. MailType'
    BY <2>1 DEF MailType, Receiving
  <2>4. Fresh' /\ Numbered' /\ Ended'
    BY <2>1, <2>2 DEF Fresh, Used, Numbered, Ended
  <2>5. Addressed'
    BY <2>1, <2>2 DEF Addressed, InCall, Receiving, MailType
  <2> QED
    BY <2>3, <2>4, <2>5
<1>4. CASE Sent(t) /\ method[t] # Zip
  <2> DEFINE q == [of |-> t, seqid |-> seqid[t], ends |-> method[t].ends]
  <2>1. /\ pc[t] = "writing" /\ pc' = [pc EXCEPT ![t] = "receiving"]
        /\ requests' = requests \union {q}
        /\ UNCHANGED <<method, seqid, head, outcome, registered, nextSeqid, replies, half,
                       made>>
    BY <1>4 DEF Sent
  <2>2. /\ \A u \in Threads :
              /\ InCall(u)' <=> InCall(u)
              /\ u # t => (Receiving(u)' <=> Receiving(u))
        /\ Receiving(t)' /\ InCall(t)
        /\ Mail' = Mail \union {q}
    BY <1>4, <2>1 DEF InCall, Receiving, Mail
  <2>3. seqid[t] \in registered /\ q.of = t /\ q.seqid = seqid[t]
    BY <2>2 DEF Numbered
  <2>4. q.ends \subseteq {"exception", "success", "ouch"} /\ seqid[t] \in MinSeq..MaxSeq
    <3>1. method[t] \in {Ping, Add, Calculate, GetStruct}
      BY <1>4, <2>1, ValueAssumption DEF MailType
    <3>2. \A m \in {Ping, Add, Calculate, GetStruct} :
              m.ends \subseteq {"exception", "success", "ouch"}
      BY DEF Ping, Add, Calculate, GetStruct
    <3> QED
      BY <2>3, <3>1, <3>2
  <2>5. MailType'
    BY <1>4, <2>1, <2>3, <2>4 DEF MailType, Receiving
  <2>6. Fresh' /\ Numbered' /\ Ended'
    BY <2>1, <2>2, <2>3 DEF Fresh, Used, Numbered, Ended
  <2>7. Addressed'
    <3>1. ASSUME NEW x \in Mail
          PROVE  /\ \A u \in Threads : InCall(u)' /\ x.seqid = seqid'[u] => x.of = u
                 /\ x.seqid \in registered' =>
                        InCall(x.of)' /\ Receiving(x.of)' /\ seqid'[x.of] = x.seqid
      BY <2>1, <2>2 DEF Addressed, InCall, Receiving, MailType
    <3>2. /\ \A u \in Threads : InCall(u)' /\ q.seqid = seqid'[u] => q.of = u
          /\ InCall(q.of)' /\ Receiving(q.of)' /\ seqid'[q.of] = q.seqid
      BY <2>1, <2>2, <2>3 DEF Numbered
    <3> QED
      BY <2>2, <3>1, <3>2 DEF Addressed
  <2> QED
    BY <2>5, <2>6, <2>7
<1>5. CASE SendFails(t)
  <2>1. /\ pc[t] = "writing" /\ pc' = [pc EXCEPT ![t] = "idle"]
        /\ UNCHANGED <<method, seqid, head, outcome, registered, nextSeqid, requests,
                       replies, half, made>>
    BY <1>5 DEF SendFails
  <2>2. /\ \A u \in Threads : u # t =>
              (InCall(u)' <=> InCall(u)) /\ (Receiving(u)' <=> Receiving(u))
        /\ ~InCall(t)' /\ ~Receiving(t) /\ ~Receiving(t)' /\ Mail' = Mail
    BY <2>1 DEF InCall, Receiving, Mail
  <2>3. MailType'
    BY <2>1 DEF MailType, Receiving
  <2>4. Fresh' /\ Numbered' /\ Ended'
    BY <2>1, <2>2 DEF Fresh, Used, Numbered, Ended
  <2>5. Addressed'
    BY <2>1, <2>2 DEF Addressed, InCall, Receiving, MailType
  <2> QED
    BY <2>3, <2>4, <2>5
<1> QED
  BY <1>1, <1>2, <1>3, <1>4, <1>5

LEMMA ReceivingKeepsMail ==
    ASSUME TypeOK, Stream, MailInv, NEW t \in Threads,
           \/ LockRead(t) \/ GetPending(t) \/ ReadEof(t) \/ HandOn(t) \/ HandOnBad(t)
           \/ Test(t) \/ Sleep(t) \/ WakeAs(t)
    PROVE  MailInv'
<1>1. PICK l : Goto(t, l) /\ l \notin {"idle", "sending", "writing", "committed"}
  BY DEF LockRead, GetPending, ReadEof, HandOn, HandOnBad, Test, Awaited, Sleep, WakeAs
<1>2. /\ Receiving(t)
      /\ UNCHANGED <<method, seqid, outcome, registered, nextSeqid, requests, replies, half,
                     made>>
  BY DEF Receiving, LockRead, GetPending, ReadEof, HandOn, HandOnBad, Test, Sleep, WakeAs,
         locals, sync, net
<1>3. DOMAIN head' = Threads
  BY DEF MailInv, MailType, LockRead, GetPending, ReadEof, HandOn, HandOnBad, Test, Sleep,
         WakeAs, locals
<1>4. ASSUME l = "matching"
      PROVE  half # None
  <2>1. GetPending(t) /\ ~stop /\ pending # None /\ pc[t] = "checking"
    <3>1. pc'[t] = "matching"
      BY <1>1, <1>4 DEF Goto, TypeOK
    <3>2. ~(LockRead(t) \/ ReadEof(t) \/ HandOn(t) \/ HandOnBad(t) \/ Test(t) \/ Sleep(t)
              \/ WakeAs(t))
      BY <3>1 DEF LockRead, ReadEof, HandOn, HandOnBad, Test, Awaited, Sleep, WakeAs, Goto,
                  TypeOK
    <3> QED
      BY <3>1, <3>2 DEF GetPending, Goto, TypeOK
  <2>2. \A u \in Threads : ~MidMessage(u)
    BY <2>1 DEF MidMessage, TypeOK, HasReader, Places
  <2> QED
    BY <2>1, <2>2 DEF Stream
<1> QED
  BY <1>1, <1>2, <1>3, <1>4, MovesKeepMail

LEMMA ReadHeadKeepsMail ==
    ASSUME TypeOK, MailInv, NEW t \in Threads, ReadHead(t), half = None
    PROVE  MailInv'
<1> USE DEF TypeOK, MailInv, Goto
<1>1. /\ pc[t] = "reading" /\ pc' = [pc EXCEPT ![t] = "matching"]
      /\ replies # <<>> /\ half' = Head(replies) /\ replies' = Tail(replies)
      /\ head' = [head EXCEPT ![t] = Head(replies)]
      /\ UNCHANGED <<method, seqid, outcome, registered, nextSeqid, requests, made>>
  BY DEF ReadHead, sync
<1>2. /\ replies \in Seq(Replies) /\ Head(replies) \in Replies /\ Tail(replies) \in Seq(Replies)
      /\ Head(replies) # None
  BY <1>1, ValueAssumption DEF MailType
<1>3. Mail' \subseteq Mail
  <2>1. \A i \in DOMAIN Tail(replies) :
            i + 1 \in DOMAIN replies /\ Tail(replies)[i] = replies[i + 1]
    BY <1>2
  <2>2. Head(replies) = replies[1] /\ 1 \in DOMAIN replies
    BY <1>1, <1>2
  <2> QED
    BY <1>1, <2>1, <2>2 DEF Mail
<1>4. \A u \in Threads : (InCall(u)' <=> InCall(u)) /\ (Receiving(u)' <=> Receiving(u))
  BY <1>1 DEF InCall, Receiving
<1>5. MailType'
  BY <1>1, <1>2, <1>4 DEF MailType
<1>6. Fresh' /\ Numbered' /\ Ended'
  BY <1>1, <1>3, <1>4 DEF Fresh, Used, Numbered, Ended
<1>7. Addressed'
  BY <1>1, <1>3, <1>4, MailFacts DEF Addressed
<1> QED
  BY <1>5, <1>6, <1>7

(* The body read is that of a message with the number of the reader.       *)
LEMMA ReadBodyKeepsMail ==
    ASSUME TypeOK, Stream, MailInv, NEW t \in Threads, ReadBody(t)
    PROVE  MailInv'
<1> USE DEF TypeOK, MailInv, Goto
<1>1. PICK l \in {"committed", "failing"} : pc' = [pc EXCEPT ![t] = l]
  BY DEF ReadBody
<1>2. /\ pc[t] = "matching" /\ head[t].seqid = seqid[t] /\ half' = None
      /\ outcome' = [outcome EXCEPT ![t] = half]
      /\ UNCHANGED <<method, seqid, head, registered, nextSeqid, requests, replies, made>>
  BY DEF ReadBody, Mine, sync
<1>3. half = head[t] /\ half \in Replies /\ half \in Mail
  BY <1>2 DEF Stream, MailType, Mail
<1>4. Mail' \subseteq Mail
  BY <1>2 DEF Mail
<1>5. \A u \in Threads : (InCall(u)' <=> InCall(u)) /\ (Receiving(u)' <=> Receiving(u))
  BY <1>1, <1>2 DEF InCall, Receiving
<1>6. half.of = t
  BY <1>2, <1>3 DEF Addressed, InCall, MailType, Receiving
<1>7. MailType'
  BY <1>1, <1>2 DEF MailType, Receiving, HasReader, Places
<1>8. Fresh' /\ Numbered'
  BY <1>2, <1>4, <1>5 DEF Fresh, Used, Numbered
<1>9. Addressed'
  BY <1>2, <1>4, <1>5, MailFacts DEF Addressed
<1>10. Ended'
  BY <1>1, <1>2, <1>3, <1>6 DEF Ended, MailType
<1> QED
  BY <1>7, <1>8, <1>9, <1>10

LEMMA LeaveKeepsMail ==
    ASSUME TypeOK, MailInv, NEW t \in Threads, Leave(t)
    PROVE  MailInv'
<1> USE DEF TypeOK, MailInv, Goto
<1>1. /\ pc[t] \in {"committed", "failing"} /\ pc' = [pc EXCEPT ![t] = "idle"]
      /\ registered' = registered \ {seqid[t]}
      /\ method' = [method EXCEPT ![t] = None] /\ head' = [head EXCEPT ![t] = None]
      /\ outcome' = [outcome EXCEPT ![t] = None]
      /\ UNCHANGED <<seqid, nextSeqid, requests, replies, half, made>>
  BY DEF Leave, net
<1>2. /\ \A u \in Threads \ {t} : (InCall(u)' <=> InCall(u)) /\ (Receiving(u)' <=> Receiving(u))
      /\ InCall(t) /\ ~InCall(t)' /\ Mail' = Mail
  BY <1>1 DEF InCall, Receiving, MailType, Mail
<1>3. MailType'
  BY <1>1, <1>2 DEF MailType, Receiving
<1>4. Fresh' /\ Numbered' /\ Ended'
  BY <1>1, <1>2 DEF Fresh, Used, Numbered, Ended
<1>5. Addressed'
  BY <1>1, <1>2, MailFacts DEF Addressed
<1> QED
  BY <1>3, <1>4, <1>5

LEMMA ServerKeepsMail ==
    ASSUME OneTurn, TypeOK, MailInv, Answer \/ AnswerZip \/ Close \/ UNCHANGED vars
    PROVE  MailInv'
<1> USE DEF TypeOK, MailInv, locals, sync, net
<1>1. CASE Answer
  <2>1. PICK q \in requests : \E k \in Kinds(q) :
            /\ replies' = Append(replies, [of |-> q.of, seqid |-> q.seqid, kind |-> k])
            /\ requests' = requests \ {q}
    BY <1>1 DEF Answer
  <2> PICK k \in Kinds(q) :
            replies' = Append(replies, [of |-> q.of, seqid |-> q.seqid, kind |-> k])
    BY <2>1
  <2> DEFINE m == [of |-> q.of, seqid |-> q.seqid, kind |-> k]
  <2>2. UNCHANGED <<pc, method, seqid, head, outcome, registered, nextSeqid, half, made>>
    BY <1>1 DEF Answer
  <2>3. m \in Replies
    BY DEF MailType, Kinds, Replies
  <2>4. replies \in Seq(Replies) /\ replies' \in Seq(Replies)
    BY <2>1, <2>3 DEF MailType
  <2>5. Mail' \subseteq Mail \union {m}
    <3>1. \A i \in DOMAIN replies' : replies'[i] = m \/ (i \in DOMAIN replies /\ replies'[i] = replies[i])
      BY <2>1, <2>3, <2>4
    <3> QED
      BY <2>1, <2>2, <3>1 DEF Mail
  <2>6. \A u \in Threads : (InCall(u)' <=> InCall(u)) /\ (Receiving(u)' <=> Receiving(u))
    BY <2>2 DEF InCall, Receiving
  <2>7. MailType'
    BY <2>1, <2>2, <2>4, <2>6 DEF MailType
  <2>8. q \in Mail /\ q.of = m.of /\ q.seqid = m.seqid
    BY DEF Mail
  <2>9. Fresh' /\ Numbered' /\ Ended'
    BY <2>2, <2>5, <2>6, <2>8 DEF Fresh, Used, Numbered, Ended
  <2>10. Addressed'
    BY <2>2, <2>5, <2>6, <2>8, MailFacts DEF Addressed
  <2> QED
    BY <2>7, <2>9, <2>10
<1>2. CASE AnswerZip
  <2>1. PICK t \in Threads :
            /\ pc[t] = "idle" /\ method' = [method EXCEPT ![t] = None]
            /\ replies' = Append(replies, [of |-> t, seqid |-> 0, kind |-> "exception"])
    BY <1>2 DEF AnswerZip
  <2> DEFINE m == [of |-> t, seqid |-> 0, kind |-> "exception"]
  <2>2. /\ Zip \in Methods
        /\ UNCHANGED <<pc, seqid, head, outcome, registered, nextSeqid, requests, half, made>>
    BY <1>2 DEF AnswerZip
  <2>3. m \in Replies /\ m.seqid = 0
    BY DEF Replies
  <2>4. replies \in Seq(Replies) /\ replies' \in Seq(Replies)
    BY <2>1, <2>3 DEF MailType
  <2>5. Mail' \subseteq Mail \union {m}
    <3>1. \A i \in DOMAIN replies' : replies'[i] = m \/ (i \in DOMAIN replies /\ replies'[i] = replies[i])
      BY <2>1, <2>3, <2>4
    <3> QED
      BY <2>2, <3>1 DEF Mail
  <2>6. \A u \in Threads : (InCall(u)' <=> InCall(u)) /\ (Receiving(u)' <=> Receiving(u))
    BY <2>1, <2>2 DEF InCall, Receiving, MailType
  <2>7. MailType'
    BY <2>1, <2>2, <2>4 DEF MailType, Receiving
  <2>8. Fresh' /\ Numbered' /\ Ended'
    BY <2>2, <2>3, <2>5, <2>6 DEF Fresh, Used, Numbered, Ended
  <2>9. 0 \notin registered
    BY <2>2, ClientAssumption DEF OneTurn, Fresh, Used, Turn
  <2>10. \A u \in Threads : InCall(u) => seqid[u] # 0
    BY <2>9 DEF Numbered
  <2>11. Addressed'
    BY <2>2, <2>3, <2>5, <2>6, <2>9, <2>10, MailFacts DEF Addressed
  <2> QED
    BY <2>7, <2>8, <2>11
<1>3. CASE Close \/ UNCHANGED vars
  <2>1. UNCHANGED <<pc, method, seqid, head, outcome, registered, nextSeqid, requests, replies,
                    half, made>>
    BY <1>3 DEF Close, vars
  <2>2. /\ \A u \in Threads : (InCall(u)' <=> InCall(u)) /\ (Receiving(u)' <=> Receiving(u))
        /\ Mail' = Mail
    BY <2>1 DEF InCall, Receiving, Mail
  <2>3. MailType' /\ Fresh' /\ Numbered' /\ Ended'
    BY <2>1, <2>2 DEF MailType, Fresh, Used, Numbered, Ended
  <2>4. Addressed'
    BY <2>1, <2>2, MailFacts DEF Addressed
  <2> QED
    BY <2>3, <2>4
<1> QED
  BY <1>1, <1>2, <1>3

LEMMA MailFirst == ASSUME OneTurn, Init PROVE MailInv
<1> USE DEF Init
<1>1. Mail = {}
  BY DEF Mail
<1>2. MailType
  BY ClientAssumption DEF MailType, Receiving
<1>3. Fresh
  BY <1>1, ClientAssumption DEF Fresh, Turn
<1>4. Numbered /\ Addressed /\ Ended
  BY <1>1 DEF Numbered, Addressed, Ended, InCall
<1> QED
  BY <1>2, <1>3, <1>4 DEF MailInv

LEMMA MailKept == ASSUME OneTurn PROVE Spec => []MailInv
<1>1. Init => MailInv
  BY MailFirst
<1>2. TypeOK /\ Stream /\ MailInv /\ [Next]_vars => MailInv'
  <2> SUFFICES ASSUME TypeOK, Stream, MailInv, [Next]_vars
               PROVE  MailInv'
    OBVIOUS
  <2>1. ASSUME NEW t \in Threads, \E m \in Methods : Call(t, m)
        PROVE  MailInv'
    BY <2>1, CallKeepsMail
  <2>2. ASSUME NEW t \in Threads, CallZip(t) \/ LockWrite(t) \/ Sent(t) \/ SendFails(t)
        PROVE  MailInv'
    BY <2>2, SendingKeepsMail
  <2>3. ASSUME NEW t \in Threads,
               \/ LockRead(t) \/ GetPending(t) \/ ReadEof(t) \/ HandOn(t) \/ HandOnBad(t)
               \/ Test(t) \/ Sleep(t) \/ WakeAs(t)
        PROVE  MailInv'
    BY <2>3, ReceivingKeepsMail
  <2>4. ASSUME NEW t \in Threads, ReadHead(t)
        PROVE  MailInv'
    BY <2>4, ReadHeadKeepsMail DEF Stream, ReadHead
  <2>5. ASSUME NEW t \in Threads, ReadBody(t) \/ Leave(t)
        PROVE  MailInv'
    BY <2>5, ReadBodyKeepsMail, LeaveKeepsMail
  <2>6. CASE Answer \/ AnswerZip \/ Close \/ UNCHANGED vars
    BY <2>6, ServerKeepsMail
  <2> QED
    BY <2>1, <2>2, <2>3, <2>4, <2>5, <2>6 DEF Next, Step, GetReader, Wake, Spurious
<1> QED
  BY <1>1, <1>2, TypeCorrect, StreamKept, PTL DEF Spec

(* Within one turn of the numbers, a call that ends in order has read the  *)
(* reply to itself, in whatever order replies come, whoever reads their    *)
(* heads and whichever calls fail.                                         *)
THEOREM RepliesReachCallers == ASSUME OneTurn PROVE Spec => []OwnReply
<1>1. MailInv => OwnReply
  BY ValueAssumption DEF MailInv, Ended, OwnReply
<1> QED
  BY <1>1, MailKept, PTL

-----------------------------------------------------------------------------
(* Who reads next.  Awake threads are those that will come to the read     *)
(* mutex without being notified any more; Resting ones are not.            *)
Awake(v) ==
    /\ InCall(v)
    /\ pc[v] \in {"drowsy", "asleep"} => pc[v] = "asleep" /\ v \in notified

Resting(t) == pc[t] \in {"drowsy", "asleep"}
AtWork(t)  == pc[t] \in {"reading", "matching", "committed", "failing"}

(* While somebody rests, somebody is awake.  Behind the test of            *)
(* waitForWork, where no notification counts, it is one that cannot fail   *)
(* in send_X any more.                                                     *)
SomeoneAwake ==
    /\ (\E t \in Threads : Resting(t)) => \E v \in Threads : Awake(v)
    /\ (\E t \in Threads : pc[t] = "drowsy") => \E v \in Threads : Awake(v) /\ Receiving(v)

(* On a live connection: every number is that of a call, and if nobody is  *)
(* in the middle of a message there is a reason to read for somebody.      *)
NoneLost == ~stop => \A q \in registered : \E t \in Threads : InCall(t) /\ seqid[t] = q

ReaderFound ==
    ~stop /\ (\A t \in Threads : ~AtWork(t))
          /\ (\E t \in Threads : Resting(t) \/ pc[t] = "testing")
    => \/ wakeup
       \/ pending # None
          /\ \E v \in Threads : Awake(v) /\ Receiving(v) /\ seqid[v] = pending.seqid

(* On a dead one: while a thread is still reading, all sleepers were told. *)
AllTold ==
    stop /\ (\E t \in Threads : pc[t] \in {"reading", "matching", "committed"})
    => \A t \in Threads : pc[t] = "asleep" => t \in notified

WakeInv == SomeoneAwake /\ NoneLost /\ ReaderFound /\ AllTold

(* wakeupAnyone_ finds a thread if there is one: numbers are bounded, so a *)
(* set of them has a largest.                                              *)
LEMMA LeastNatural ==
    ASSUME NEW S \in SUBSET Nat, S # {}
    PROVE  \E m \in S : \A n \in S : m <= n
<1>1. \E x \in S : \A y \in S : ~(<<y, x>> \in OpToRel(<, Nat))
  BY NatLessThanWellFounded, WFMin
<1>2. \A x, y \in S : y < x => <<y, x>> \in OpToRel(<, Nat)
  BY DEF OpToRel
<1>3. \A x, y \in S : ~(y < x) => x <= y
  OBVIOUS
<1> QED
  BY <1>1, <1>2, <1>3, Zenon

LEMMA LargestNumber ==
    ASSUME NEW S \in SUBSET (MinSeq..MaxSeq), S # {}
    PROVE  Max(S) \in S
<1> DEFINE D == {MaxSeq - q : q \in S}
<1> \A q \in S : q \in Int /\ q <= MaxSeq /\ MaxSeq \in Int
  BY ClientAssumption
<1>1. D \in SUBSET Nat /\ D # {}
  <2>1. \A q \in S : MaxSeq - q \in Nat
    OBVIOUS
  <2> QED
    BY <2>1, Zenon
<1>2. PICK d \in D : \A e \in D : d <= e
  BY <1>1, LeastNatural
<1>3. PICK q \in S : d = MaxSeq - q
  BY <1>2
<1>4. ASSUME NEW p \in S
      PROVE  q >= p
  <2>1. MaxSeq - p \in D
    OBVIOUS
  <2>2. d <= MaxSeq - p
    BY <1>2, <2>1
  <2> QED
    BY <1>3, <2>2
<1> QED
  BY <1>4 DEF Max

(* One thread has the read mutex.                                          *)
LEMMA OneReader ==
    ASSUME TypeOK, NEW t \in Threads, HasReader(t)
    PROVE  \A u \in Threads \ {t} :
               pc[u] \in {"idle", "sending", "writing", "receiving", "asleep"}
  BY DEF TypeOK, HasReader, Places

(* Calls begin and are sent.                                               *)
LEMMA SendingKeepsWake ==
    ASSUME TypeOK, MailInv, WakeInv, NEW t \in Threads,
           (\E m \in Methods : Call(t, m)) \/ CallZip(t) \/ LockWrite(t) \/ Sent(t)
    PROVE  WakeInv'
<1> USE DEF TypeOK, MailInv, MailType, WakeInv, Goto, locals, sync, net
<1>1. /\ UNCHANGED <<stop, wakeup, pending, notified>>
      /\ pc' = [pc EXCEPT ![t] = pc'[t]] /\ DOMAIN method' = Threads /\ DOMAIN seqid' = Threads
      /\ \A u \in Threads \ {t} : method'[u] = method[u] /\ seqid'[u] = seqid[u]
      /\ pc[t] \in {"idle", "sending", "writing"}
      /\ pc'[t] \in {"idle", "sending", "writing", "receiving"}
  BY DEF Call, CallZip, LockWrite, Sent
<1>2. \A u \in Threads \ {t} :
          /\ InCall(u)' <=> InCall(u)
          /\ Receiving(u)' <=> Receiving(u)
          /\ Awake(u)' <=> Awake(u)
          /\ pc'[u] = pc[u]
  BY <1>1 DEF InCall, Receiving, Awake
<1>3. ~Receiving(t) /\ ~Resting(t) /\ ~Resting(t)' /\ ~AtWork(t) /\ ~AtWork(t)'
  BY <1>1 DEF Receiving, Resting, AtWork
<1>4. Awake(t) => Awake(t)' /\ InCall(t)' /\ seqid'[t] = seqid[t]
  BY <1>1 DEF Awake, InCall, Call, CallZip, LockWrite, Sent
<1>5. SomeoneAwake'
  BY <1>1, <1>2, <1>3, <1>4 DEF SomeoneAwake, Resting
<1>6. NoneLost'
  <2>1. InCall(t) => InCall(t)' /\ seqid'[t] = seqid[t]
    BY <1>1, <1>3, <1>4 DEF Awake, Resting
  <2>2. \A q \in registered' \ registered : InCall(t)' /\ seqid'[t] = q
    BY <1>1 DEF Call, CallZip, LockWrite, Sent, InCall
  <2> SUFFICES ASSUME ~stop, NEW q \in registered
               PROVE  \E u \in Threads : InCall(u)' /\ seqid'[u] = q
    BY <1>1, <2>2 DEF NoneLost
  <2>3. PICK u \in Threads : InCall(u) /\ seqid[u] = q
    BY DEF NoneLost
  <2> QED
    BY <1>1, <1>2, <2>1, <2>3
<1>7. ReaderFound'
  BY <1>1, <1>2, <1>3 DEF ReaderFound, Resting, AtWork
<1>8. AllTold'
  BY <1>1, <1>2 DEF AllTold
<1> QED
  BY <1>5, <1>6, <1>7, <1>8

(* Sleepers are in calls, so they are reached by a notify of all numbers.  *)
LEMMA SleepersRegistered ==
    ASSUME MailInv, NEW u \in Threads, Resting(u)
    PROVE  InCall(u) /\ Receiving(u) /\ seqid[u] \in registered
  BY DEF MailInv, MailType, Numbered, InCall, Receiving, Resting

LEMMA SendFailsKeepsWake ==
    ASSUME TypeOK, MailInv, WakeInv, NEW t \in Threads, SendFails(t)
    PROVE  WakeInv'
<1> USE DEF TypeOK, MailInv, MailType, WakeInv, Goto, locals, sync, net
<1>1. /\ pc[t] = "writing" /\ pc' = [pc EXCEPT ![t] = "idle"] /\ stop' = TRUE
      /\ Notify(registered) /\ UNCHANGED <<method, seqid, registered>>
  BY DEF SendFails, MarkBad
<1>2. \A u \in Threads : pc'[u] = "asleep" => u \in notified' /\ Awake(u)'
  BY <1>1, SleepersRegistered DEF Notify, Resting, Awake, InCall
<1>3. SomeoneAwake'
  <2>1. ASSUME NEW u \in Threads, pc'[u] = "drowsy"
        PROVE  \E v \in Threads : Awake(v)' /\ Receiving(v)'
    <3>1. pc[u] = "drowsy"
      BY <1>1, <2>1
    <3>2. PICK v \in Threads : Awake(v) /\ Receiving(v)
      BY <3>1 DEF SomeoneAwake
    <3>3. v # t /\ pc'[v] = pc[v]
      BY <1>1, <3>2 DEF Receiving
    <3> QED
      BY <1>1, <3>2, <3>3 DEF Awake, InCall, Receiving, Notify
  <2> QED
    BY <1>2, <2>1 DEF SomeoneAwake, Resting
<1>4. NoneLost' /\ ReaderFound' /\ AllTold'
  BY <1>1, <1>2 DEF NoneLost, ReaderFound, AllTold
<1> QED
  BY <1>3, <1>4

(* The thread with the read mutex moves on without handing it over.        *)
LEMMA ReadingKeepsWake ==
    ASSUME TypeOK, MailInv, WakeInv, NEW t \in Threads,
           \/ LockRead(t) \/ GetPending(t) \/ ReadHead(t) \/ ReadEof(t) \/ ReadBody(t)
           \/ HandOnBad(t)
    PROVE  WakeInv'
<1> USE DEF TypeOK, MailInv, MailType, WakeInv, Goto, locals, sync, net
<1>1. PICK l \in {"checking", "reading", "matching", "committed", "failing"} :
          pc' = [pc EXCEPT ![t] = l]
  BY DEF LockRead, GetPending, ReadHead, ReadEof, ReadBody, HandOnBad
<1>2. /\ Receiving(t) /\ ~Resting(t) /\ pc[t] # "testing"
      /\ UNCHANGED <<method, seqid, registered, stop, notified>>
  BY DEF Receiving, Resting, LockRead, GetPending, ReadHead, ReadEof, ReadBody, HandOnBad
<1>3. /\ \A u \in Threads : (InCall(u)' <=> InCall(u)) /\ (Receiving(u)' <=> Receiving(u))
      /\ \A u \in Threads : Resting(u)' <=> Resting(u)
      /\ \A u \in Threads : Awake(u)' <=> Awake(u)
      /\ Awake(t) /\ Receiving(t)
  BY <1>1, <1>2 DEF InCall, Receiving, Awake, Resting
<1>4. SomeoneAwake'
  BY <1>3 DEF SomeoneAwake
<1>5. NoneLost'
  BY <1>2, <1>3 DEF NoneLost
<1>6. ReaderFound'
  <2>1. CASE LockRead(t)
    <3>1. UNCHANGED <<wakeup, pending>> /\ pc' = [pc EXCEPT ![t] = "checking"] /\ pc[t] = "receiving"
      BY <2>1 DEF LockRead
    <3>2. \A u \in Threads : (AtWork(u)' <=> AtWork(u)) /\ (pc'[u] = "testing" <=> pc[u] = "testing")
      BY <3>1 DEF AtWork
    <3> QED
      BY <1>2, <1>3, <3>1, <3>2 DEF ReaderFound
  <2>2. CASE ~LockRead(t)
    <3>1. AtWork(t)'
      BY <2>2 DEF AtWork, GetPending, ReadHead, ReadEof, ReadBody, HandOnBad
    <3> QED
      BY <3>1 DEF ReaderFound
  <2> QED
    BY <2>1, <2>2
<1>7. AllTold'
  <2>1. ASSUME stop, NEW u \in Threads, pc'[u] \in {"reading", "matching", "committed"}
        PROVE  pc[u] \in {"reading", "matching", "committed"}
    <3>1. CASE u = t
      BY <2>1, <3>1 DEF LockRead, GetPending, ReadHead, ReadEof, ReadBody, HandOnBad
    <3>2. CASE u # t
      BY <1>1, <2>1, <3>2
    <3> QED
      BY <3>1, <3>2
  <2>2. \A u \in Threads : pc'[u] = "asleep" => pc[u] = "asleep"
    BY <1>1
  <2> QED
    BY <1>2, <2>1, <2>2 DEF AllTold
<1> QED
  BY <1>4, <1>5, <1>6, <1>7

(* Who hands a message on has made its owner awake.                        *)
LEMMA HandOnKeepsWake ==
    ASSUME TypeOK, Stream, MailInv, WakeInv, NEW t \in Threads, HandOn(t)
    PROVE  WakeInv'
<1> USE DEF TypeOK, MailInv, MailType, WakeInv, Goto, locals, sync, net
<1>1. /\ pc[t] = "matching" /\ head[t].seqid # seqid[t] /\ head[t].seqid \in registered
      /\ pending' = head[t] /\ pc' = [pc EXCEPT ![t] = "testing"]
      /\ Notify({head[t].seqid})
      /\ UNCHANGED <<method, seqid, registered, stop, wakeup>>
  BY DEF HandOn, Mine
<1>2. half = head[t] /\ half \in Mail /\ half # None
  BY <1>1 DEF Stream, Mail
<1>3. PICK o \in Threads : o = half.of /\ InCall(o) /\ Receiving(o) /\ seqid[o] = half.seqid
  BY <1>1, <1>2, MailFacts DEF Addressed
<1>4. \A u \in Threads \ {t} :
          pc[u] \in {"idle", "sending", "writing", "receiving", "asleep"}
  BY <1>1, OneReader DEF HasReader, Places
<1>5. o # t /\ pc[o] \in {"receiving", "asleep"} /\ pc'[o] = pc[o]
  BY <1>1, <1>2, <1>3, <1>4 DEF Receiving
<1>6. Awake(o)' /\ Receiving(o)'
  BY <1>1, <1>2, <1>3, <1>5 DEF Awake, InCall, Receiving, Notify
<1>7. \A u \in Threads : (InCall(u)' <=> InCall(u))
  BY <1>1 DEF InCall
<1>8. SomeoneAwake' /\ NoneLost'
  BY <1>1, <1>3, <1>6, <1>7 DEF SomeoneAwake, NoneLost
<1>9. ReaderFound'
  BY <1>1, <1>2, <1>3, <1>6 DEF ReaderFound
<1>10. AllTold'
  BY <1>1, <1>4 DEF AllTold
<1> QED
  BY <1>8, <1>9, <1>10

(* Who goes to sleep leaves somebody awake that is in recv_X.              *)
LEMMA TestKeepsWake ==
    ASSUME TypeOK, MailInv, WakeInv, NEW t \in Threads, Test(t)
    PROVE  WakeInv'
<1> USE DEF TypeOK, MailInv, MailType, WakeInv, Goto, locals, sync, net
<1>1. PICK l \in {"failing", "checking", "drowsy"} : pc' = [pc EXCEPT ![t] = l] /\ l = Awaited(t)
  BY DEF Test, Awaited
<1>2. /\ pc[t] = "testing"
      /\ UNCHANGED <<method, seqid, registered, stop, notified, wakeup, pending>>
  BY DEF Test
<1>3. \A u \in Threads \ {t} :
          pc[u] \in {"idle", "sending", "writing", "receiving", "asleep"}
  BY <1>2, OneReader DEF HasReader, Places
<1>4. /\ \A u \in Threads : (InCall(u)' <=> InCall(u)) /\ (Receiving(u)' <=> Receiving(u))
      /\ \A u \in Threads \ {t} : Awake(u)' <=> Awake(u)
  BY <1>1, <1>2 DEF InCall, Receiving, Awake
<1>5. l # "drowsy" => Awake(t)'
  BY <1>1, <1>2 DEF InCall, Receiving, Awake
<1>6. \A u \in Threads : ~AtWork(u)
  BY <1>2, <1>3 DEF AtWork
<1>7. ~stop => \/ wakeup
               \/ pending # None
                  /\ \E v \in Threads : Awake(v) /\ Receiving(v) /\ seqid[v] = pending.seqid
  BY <1>2, <1>6 DEF ReaderFound
<1>8. ASSUME l = "drowsy"
      PROVE  /\ ~stop /\ ~wakeup /\ pending # None
             /\ \E v \in Threads \ {t} : Awake(v)' /\ Receiving(v)' /\ seqid'[v] = pending'.seqid
  <2>1. ~stop /\ ~wakeup /\ ~(pending # None /\ pending.seqid = seqid[t])
    BY <1>1, <1>8 DEF Awaited
  <2>2. PICK v \in Threads : Awake(v) /\ Receiving(v) /\ seqid[v] = pending.seqid
    BY <1>7, <2>1
  <2>3. pending # None /\ v # t
    BY <1>7, <2>1, <2>2
  <2> QED
    BY <1>2, <1>4, <2>1, <2>2, <2>3
<1>9. SomeoneAwake'
  <2>1. CASE l = "drowsy"
    BY <1>8, <2>1 DEF SomeoneAwake
  <2>2. CASE l # "drowsy"
    BY <1>1, <1>2, <1>3, <1>4, <1>5, <2>2 DEF SomeoneAwake, Receiving
  <2> QED
    BY <2>1, <2>2
<1>10. NoneLost'
  BY <1>2, <1>4 DEF NoneLost
<1>11. ReaderFound'
  <2>1. CASE l = "drowsy"
    BY <1>2, <1>8, <2>1 DEF ReaderFound
  <2>2. CASE l = "failing"
    BY <1>1, <2>2 DEF ReaderFound, AtWork
  <2>3. CASE l = "checking"
    <3>1. Awake(t)'
      BY <1>5, <2>3
    <3> QED
      BY <1>2, <1>4, <1>7, <3>1 DEF ReaderFound
  <2> QED
    BY <2>1, <2>2, <2>3
<1>12. AllTold'
  BY <1>1, <1>3 DEF AllTold
<1> QED
  BY <1>9, <1>10, <1>11, <1>12

LEMMA SleepKeepsWake ==
    ASSUME TypeOK, MailInv, WakeInv, NEW t \in Threads, Sleep(t) \/ WakeAs(t)
    PROVE  WakeInv'
<1> USE DEF TypeOK, MailInv, MailType, WakeInv, Goto, locals, sync, net
<1>1. /\ UNCHANGED <<method, seqid, registered, stop, wakeup, pending>> /\ Resting(t)
      /\ \A u \in Threads \ {t} : pc'[u] = pc[u] /\ (u \in notified' <=> u \in notified)
  BY DEF Sleep, WakeAs, Resting
<1>2. \A u \in Threads : (InCall(u)' <=> InCall(u)) /\ (Receiving(u)' <=> Receiving(u))
  BY DEF InCall, Receiving, Sleep, WakeAs
<1>3. \A u \in Threads \ {t} : Awake(u)' <=> Awake(u)
  BY <1>1, <1>2 DEF Awake
<1>4. \A u \in Threads \ {t} :
          pc[u] \in {"idle", "sending", "writing", "receiving", "asleep"}
  <2>1. CASE Sleep(t)
    BY <2>1, OneReader DEF Sleep, HasReader, Places
  <2>2. CASE WakeAs(t)
    <3>1. \A u \in Threads : ~HasReader(u)
      BY <2>2, ClientAssumption DEF WakeAs
    <3> QED
      BY <3>1 DEF HasReader
  <2> QED
    BY <2>1, <2>2
<1>5. Awake(t) => Awake(t)'
  BY <1>2 DEF Awake, Sleep, WakeAs
<1>6. SomeoneAwake'
  <2>1. \E v \in Threads : Awake(v)
    BY <1>1 DEF SomeoneAwake
  <2>2. \A u \in Threads : pc'[u] # "drowsy"
    BY <1>1, <1>4 DEF Sleep, WakeAs
  <2> QED
    BY <1>3, <1>5, <2>1, <2>2 DEF SomeoneAwake
<1>7. NoneLost'
  BY <1>1, <1>2 DEF NoneLost
<1>8. ReaderFound'
  <2>1. \A u \in Threads : ~AtWork(u)
    BY <1>1, <1>4 DEF AtWork, Resting
  <2> QED
    BY <1>1, <1>2, <1>3, <1>5, <2>1 DEF ReaderFound
<1>9. AllTold'
  BY <1>1, <1>4 DEF AllTold, Sleep, WakeAs
<1> QED
  BY <1>6, <1>7, <1>8, <1>9

(* Who leaves a live connection notifies the thread with the largest       *)
(* number, who leaves a dead one everybody.                                *)
LEMMA LeaveKeepsWake ==
    ASSUME TypeOK, MailInv, WakeInv, NEW t \in Threads, Leave(t)
    PROVE  WakeInv'
<1> USE DEF TypeOK, MailInv, MailType, WakeInv, Goto, locals, sync, net
<1>1. /\ pc[t] \in {"committed", "failing"} /\ pc' = [pc EXCEPT ![t] = "idle"]
      /\ registered' = registered \ {seqid[t]}
      /\ method' = [method EXCEPT ![t] = None]
      /\ UNCHANGED <<seqid, pending>>
  BY DEF Leave
<1>2. \A u \in Threads \ {t} :
          /\ pc[u] \in {"idle", "sending", "writing", "receiving", "asleep"}
          /\ pc'[u] = pc[u] /\ (InCall(u)' <=> InCall(u))
  BY <1>1, OneReader DEF HasReader, Places, InCall
<1>3. InCall(t) /\ pc'[t] = "idle"
  BY <1>1 DEF InCall, Receiving
<1>4. \A u \in Threads \ {t} : InCall(u) => seqid[u] \in registered'
  BY <1>1, <1>3 DEF Numbered
<1>5. AllTold'
  BY <1>1, <1>2 DEF AllTold
<1>6. \A u \in Threads : pc'[u] # "drowsy"
  BY <1>2, <1>3
<1>7. CASE pc[t] = "failing"
  <2>1. stop' = TRUE /\ Notify(registered')
    BY <1>7 DEF Leave, MarkBad
  <2>2. \A u \in Threads : pc'[u] = "asleep" => Awake(u)'
    BY <1>2, <1>3, <1>4, <2>1, SleepersRegistered DEF Notify, Awake, Resting
  <2>3. SomeoneAwake'
    BY <1>6, <2>2 DEF SomeoneAwake, Resting
  <2>4. NoneLost' /\ ReaderFound'
    BY <2>1 DEF NoneLost, ReaderFound
  <2> QED
    BY <1>5, <2>3, <2>4
<1>8. CASE pc[t] = "committed"
  <2>1. wakeup' = TRUE /\ Notify(NextReader(registered')) /\ stop' = stop
    BY <1>8 DEF Leave
  <2>2. SomeoneAwake'
    <3> SUFFICES ASSUME NEW u \in Threads, pc'[u] = "asleep"
                 PROVE  \E v \in Threads : Awake(v)'
      BY <1>6 DEF SomeoneAwake, Resting
    <3>1. u # t /\ pc[u] = "asleep" /\ InCall(u) /\ seqid[u] \in registered'
      BY <1>2, <1>3, <1>4, SleepersRegistered DEF Resting
    <3>2. CASE stop
      <4>1. u \in notified'
        BY <1>8, <2>1, <3>1, <3>2 DEF AllTold, Notify
      <4> QED
        BY <1>2, <3>1, <4>1 DEF Awake
    <3>3. CASE ~stop
      <4>1. registered' # {} /\ registered' \subseteq registered
            /\ registered' \in SUBSET (MinSeq..MaxSeq)
        BY <1>1, <3>1
      <4>2. Max(registered') \in registered'
        BY <4>1, LargestNumber
      <4>3. PICK w \in Threads : InCall(w) /\ seqid[w] = Max(registered')
        BY <3>3, <4>1, <4>2 DEF NoneLost
      <4>4. w # t
        BY <1>1, <4>2, <4>3
      <4>5. pc[w] = "asleep" => w \in notified'
        BY <2>1, <4>1, <4>3 DEF Notify, NextReader
      <4> QED
        BY <1>2, <4>3, <4>4, <4>5 DEF Awake
    <3> QED
      BY <3>2, <3>3
  <2>3. NoneLost'
    <3> SUFFICES ASSUME ~stop, NEW q \in registered'
                 PROVE  \E u \in Threads : InCall(u)' /\ seqid'[u] = q
      BY <2>1 DEF NoneLost
    <3>1. PICK u \in Threads : InCall(u) /\ seqid[u] = q
      BY <1>1 DEF NoneLost
    <3> QED
      BY <1>1, <1>2, <3>1
  <2>4. ReaderFound'
    BY <2>1 DEF ReaderFound
  <2> QED
    BY <1>5, <2>2, <2>3, <2>4
<1> QED
  BY <1>1, <1>7, <1>8

LEMMA ServerKeepsWake ==
    ASSUME TypeOK, MailInv, WakeInv, Answer \/ AnswerZip \/ Close \/ UNCHANGED vars
    PROVE  WakeInv'
<1>1. /\ UNCHANGED <<pc, seqid, registered, stop, wakeup, pending, notified>>
      /\ \A u \in Threads : pc[u] # "idle" => method'[u] = method[u]
  BY DEF MailInv, MailType, Answer, AnswerZip, Close, vars, locals, sync, net
<1>2. \A u \in Threads :
          /\ InCall(u)' <=> InCall(u)
          /\ Receiving(u)' <=> Receiving(u)
          /\ Awake(u)' <=> Awake(u)
  BY <1>1 DEF InCall, Receiving, Awake
<1> QED
  BY <1>1, <1>2 DEF WakeInv, SomeoneAwake, NoneLost, ReaderFound, AllTold, Resting, AtWork

(* Within one turn of the numbers, while calls wait for replies there is a *)
(* thread that will read: no reply is left because the thread that should  *)
(* read it sleeps, whatever fails and whoever is woken.                    *)
THEOREM SomeoneAlwaysReads == ASSUME OneTurn PROVE Spec => []SomeoneReads
<1>1. Init => WakeInv
  BY DEF Init, WakeInv, SomeoneAwake, NoneLost, ReaderFound, AllTold, Resting
<1>2. TypeOK /\ Stream /\ MailInv /\ WakeInv /\ [Next]_vars => WakeInv'
  <2> SUFFICES ASSUME TypeOK, Stream, MailInv, WakeInv, [Next]_vars
               PROVE  WakeInv'
    OBVIOUS
  <2>1. ASSUME NEW t \in Threads,
               (\E m \in Methods : Call(t, m)) \/ CallZip(t) \/ LockWrite(t) \/ Sent(t)
        PROVE  WakeInv'
    BY <2>1, SendingKeepsWake
  <2>2. ASSUME NEW t \in Threads, SendFails(t)
        PROVE  WakeInv'
    BY <2>2, SendFailsKeepsWake
  <2>3. ASSUME NEW t \in Threads,
               \/ LockRead(t) \/ GetPending(t) \/ ReadHead(t) \/ ReadEof(t) \/ ReadBody(t)
               \/ HandOnBad(t)
        PROVE  WakeInv'
    BY <2>3, ReadingKeepsWake
  <2>4. ASSUME NEW t \in Threads, HandOn(t) \/ Test(t)
        PROVE  WakeInv'
    BY <2>4, HandOnKeepsWake, TestKeepsWake
  <2>5. ASSUME NEW t \in Threads, Sleep(t) \/ WakeAs(t) \/ Leave(t)
        PROVE  WakeInv'
    BY <2>5, SleepKeepsWake, LeaveKeepsWake
  <2>6. CASE Answer \/ AnswerZip \/ Close \/ UNCHANGED vars
    BY <2>6, ServerKeepsWake
  <2> QED
    BY <2>1, <2>2, <2>3, <2>4, <2>5, <2>6 DEF Next, Step, GetReader, Wake, Spurious
<1>3. WakeInv => SomeoneReads
  BY DEF WakeInv, SomeoneAwake, SomeoneReads, Resting, Awake, InCall
<1> QED
  BY <1>1, <1>2, <1>3, TypeCorrect, StreamKept, MailKept, PTL DEF Spec

=============================================================================
