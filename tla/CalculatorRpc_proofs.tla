------------------------ MODULE CalculatorRpc_proofs ------------------------
(***************************************************************************)
(* Proofs about CalculatorRpc, for any number of connections, calls and    *)
(* methods, any integer width and both servers: the types, that a client   *)
(* takes only the answer to its own call, that what it is told is right,   *)
(* and that both servers implement CalculatorService.                      *)
(***************************************************************************)
EXTENDS CalculatorRpc, SequenceTheorems, TLAPS

-----------------------------------------------------------------------------
(* The arithmetic of the handlers.                                         *)

(* Division of natural numbers leaves a remainder below the divisor.       *)
LEMMA Remainder ==
    ASSUME NEW x \in Nat, NEW y \in Nat, y > 0
    PROVE  x \div y \in Nat /\ x - (x \div y) * y \in 0..(y - 1)
  BY Z3

LEMMA QuotientRounds ==
    ASSUME NEW k, NEW a \in Int, NEW b \in Int, b # 0
    PROVE  Quotient(k, a, b) \in Int /\ IsQuotient(k, a, b, Quotient(k, a, b))
<1> DEFINE x == Abs(a)
           y == Abs(b)
           q == x \div y
           r == x - q * y
<1>1. x \in Nat /\ y \in Nat /\ y > 0
  BY DEF Abs
<1>2. q \in Nat /\ r \in 0..(y - 1)
  BY <1>1, Remainder
<1>3. (r = 0) <=> (q * y = x)
  BY <1>1, <1>2
<1>4. x = q * y + r
  BY <1>1, <1>2
<1>5. Quotient(k, a, b) =
          IF (a < 0) = (b < 0) THEN q
          ELSE IF k = "python" /\ r # 0 THEN -q - 1 ELSE -q
  BY <1>1, <1>2, <1>3 DEF Quotient
<1> HIDE DEF q, r
<1>6. CASE (a < 0) = (b < 0)
  BY <1>1, <1>2, <1>4, <1>5, <1>6 DEF IsQuotient, Abs
<1>7. CASE ~((a < 0) = (b < 0))
  <2>1. CASE k = "python" /\ r # 0
    BY <1>1, <1>2, <1>4, <1>5, <1>7, <2>1 DEF IsQuotient, Abs
  <2>2. CASE ~(k = "python" /\ r # 0)
    BY <1>1, <1>2, <1>4, <1>5, <1>7, <2>2 DEF IsQuotient, Abs
  <2> QED
    BY <2>1, <2>2
<1> QED
  BY <1>6, <1>7

(* The handlers compute integers, and when the result fits an i32 that     *)
(* result and nothing else.                                                *)
LEMMA OutcomesRight ==
    ASSUME kind \in {"cpp", "python"}, NEW w \in Works, ~Invalid(w),
           NEW n \in Outcomes(kind, w)
    PROVE  /\ n \in Int
           /\ w.op = "ADD" /\ w.a + w.b \in Int32 => n = w.a + w.b
           /\ w.op = "SUBTRACT" /\ w.a - w.b \in Int32 => n = w.a - w.b
           /\ w.op = "MULTIPLY" /\ w.a * w.b \in Int32 => n = w.a * w.b
           /\ w.op = "DIVIDE" /\ ~MayTrap(kind, w) => IsQuotient(kind, w.a, w.b, n)
<1>1. w.a \in Int /\ w.b \in Int /\ Int32 \subseteq Int
  BY RpcAssumption DEF Int32
<1>2. w.op = "DIVIDE" =>
          Exact(kind, w) \in Int /\ IsQuotient(kind, w.a, w.b, Exact(kind, w))
  BY <1>1, QuotientRounds DEF Exact, Invalid
<1>3. Exact(kind, w) \in Int
  BY <1>1, <1>2 DEF Exact, Invalid
<1>4. /\ w.op = "ADD" => Exact(kind, w) = w.a + w.b
      /\ w.op = "SUBTRACT" => Exact(kind, w) = w.a - w.b
      /\ w.op = "MULTIPLY" => Exact(kind, w) = w.a * w.b
  BY DEF Exact
<1>5. kind = "python" \/ Exact(kind, w) \in Int32 => n = Exact(kind, w)
  BY DEF Outcomes
<1>6. n \in Int
  BY <1>1, <1>3 DEF Outcomes
<1>7. w.op = "DIVIDE" /\ ~MayTrap(kind, w) => IsQuotient(kind, w.a, w.b, n)
  <2> SUFFICES ASSUME w.op = "DIVIDE", ~MayTrap(kind, w)
               PROVE  IsQuotient(kind, w.a, w.b, n)
    OBVIOUS
  <2>1. n = Exact(kind, w)
    BY <1>5 DEF MayTrap, Invalid
  <2> QED
    BY <1>2, <2>1
<1> QED
  BY <1>4, <1>5, <1>6, <1>7

-----------------------------------------------------------------------------
(* Types.  Each message of a connection is in one of its two streams or in *)
(* the hands of the server thread, so that there are at most as many as    *)
(* calls were made.                                                        *)
Requests == {Message(m, n, m) : m \in Calls, n \in Nat}
Entries  == Int \union {Absent, Default}

Budget(c) ==
    Len(requests[c]) + Len(replies[c]) + (IF out[c] = NoReply THEN 0 ELSE 1) <= made[c]

(* An entry that a lookup made is in C++ logs only.                        *)
Inserted == kind = "python" => \A s \in Scopes, k \in Keys : log[s][k] # Default

Typed ==
    /\ kind \in {"cpp", "python"} /\ served \in MethodSets
    /\ client \in [Conns -> {"closed", "idle", "waiting", "returned", "threw", "garbled"}]
    /\ server \in [Conns -> {"none", "ready", "replying"}]
    /\ call \in [Conns -> Calls \union {NoCall}]
    /\ answer \in [Conns -> Answers \union {NoReply}]
    /\ out \in [Conns -> Answers \union {NoReply}]
    /\ made \in [Conns -> 0..MaxCalls]
    /\ requests \in [Conns -> Seq(Requests)]
    /\ replies \in [Conns -> Seq(Answers)]
    /\ log \in [Scopes -> [Keys -> Entries]]
    /\ strayed \in [Conns -> BOOLEAN]

Matched(c) ==
    /\ client[c] \in {"waiting", "returned", "threw", "garbled"} <=> call[c] # NoCall
    /\ client[c] \in {"returned", "threw", "garbled"} <=> answer[c] # NoReply
    /\ server[c] = "replying" <=> out[c] # NoReply
    /\ strayed[c] => "zip" \notin served
    /\ Budget(c)

TypeInv == Typed /\ Inserted /\ \A c \in Conns : Matched(c)

LEMMA CallFacts ==
    ASSUME NEW m \in Calls
    PROVE  /\ m = [name |-> m.name, key |-> m.key, work |-> m.work]
           /\ m.name \in {"ping", "zip", "add", "calculate", "getStruct"}
           /\ m.name \in {"add", "calculate"} => m.work \in Works
           /\ m.name = "add" => m.work.op = "ADD"
           /\ m.name \in {"calculate", "getStruct"} => m.key \in Keys
  BY DEF Calls, Call, NoWork

(* What a handler does to its log, and the kind of replies it gives.       *)
LEMMA EffectFacts ==
    ASSUME kind \in {"cpp", "python"}, NEW m \in Calls, NEW lg \in [Keys -> Entries],
           kind = "python" => \A k \in Keys : lg[k] # Default,
           NEW e \in Effect(m, lg)
    PROVE  /\ e.reply \in Bodies /\ e.log \in [Keys -> Entries]
           /\ kind = "python" => \A k \in Keys : e.log[k] # Default
           /\ m.name \in {"add", "calculate"} /\ e.reply.type # "EXCEPTION"
                   /\ e.reply.field = "success" =>
                  ~Invalid(m.work) /\ e.reply.val \in Outcomes(kind, m.work)
<1>1. Exception \in Bodies /\ Ouch \in Bodies /\ Ouch.field # "success"
      /\ Exception.type = "EXCEPTION"
  BY DEF Bodies, Exception, Ouch
<1>2. \A n \in Int \union {Default} : Value(n) \in Bodies /\ Value(n).val = n
  BY DEF Bodies, Value
<1>3. \A r, g : Pair(r, g).reply = r /\ Pair(r, g).log = g
  BY DEF Pair
<1>4. CASE m.name \notin served
  BY <1>1, <1>3, <1>4 DEF Effect
<1>5. CASE m.name \in served /\ m.name \in {"add", "calculate"} /\ ~Invalid(m.work)
  <2>1. PICK n \in Outcomes(kind, m.work) :
            e = Pair(Value(n), IF m.name = "add" THEN lg ELSE [lg EXCEPT ![m.key] = n])
    BY <1>5 DEF Effect, Calculate
  <2>2. n \in Int /\ n # Default
    BY <1>5, OutcomesRight, CallFacts, RpcAssumption
  <2>3. e.reply = Value(n) /\ e.log = IF m.name = "add" THEN lg ELSE [lg EXCEPT ![m.key] = n]
    BY <1>3, <2>1
  <2>4. m.name = "calculate" => m.key \in Keys
    BY CallFacts
  <2>5. /\ e.log \in [Keys -> Entries]
        /\ kind = "python" => \A k \in Keys : e.log[k] # Default
    BY <1>5, <2>2, <2>3, <2>4 DEF Entries
  <2> QED
    BY <1>2, <1>5, <2>2, <2>3, <2>5
<1>6. CASE m.name \in served /\ m.name = "calculate" /\ Invalid(m.work)
  BY <1>1, <1>3, <1>6 DEF Effect, Calculate
<1>7. CASE m.name \in served /\ m.name = "getStruct"
  <2>1. m.key \in Keys /\ lg[m.key] \in Entries
    BY <1>7, CallFacts
  <2>2. e \in GetStruct(m, lg)
    BY <1>7 DEF Effect
  <2>3. CASE lg[m.key] # Absent
    <3>1. e.reply = Value(lg[m.key]) /\ e.log = lg /\ lg[m.key] \in Int \union {Default}
      BY <1>3, <2>1, <2>2, <2>3 DEF GetStruct, Entries
    <3> QED
      BY <1>2, <1>7, <3>1
  <2>4. CASE lg[m.key] = Absent /\ kind = "python"
    BY <1>1, <1>3, <1>7, <2>2, <2>4 DEF GetStruct
  <2>5. CASE lg[m.key] = Absent /\ kind # "python"
    <3>1. e.reply = Value(Default) /\ e.log = [lg EXCEPT ![m.key] = Default]
      BY <1>3, <2>2, <2>5 DEF GetStruct
    <3> QED
      BY <1>2, <1>7, <2>1, <2>5, <3>1 DEF Entries
  <2> QED
    BY <2>3, <2>4, <2>5
<1>8. CASE m.name \in served /\ m.name \in {"ping", "zip"}
  BY <1>2, <1>3, <1>8 DEF Effect
<1>9. m.name = "add" => ~Invalid(m.work)
  BY CallFacts DEF Invalid
<1> QED
  BY <1>4, <1>5, <1>6, <1>7, <1>8, <1>9, CallFacts

LEMMA StreamFacts ==
    ASSUME NEW S, NEW s \in Seq(S)
    PROVE  /\ Len(s) \in Nat /\ (s # <<>> <=> Len(s) > 0)
           /\ \A x \in S : /\ Append(s, x) \in Seq(S) /\ Len(Append(s, x)) = Len(s) + 1
                           /\ Append(s, x) # <<>> /\ Append(<<>>, x) = <<x>>
           /\ s # <<>> => /\ Head(s) \in S /\ Tail(s) \in Seq(S)
                          /\ Len(Tail(s)) = Len(s) - 1
           /\ <<>> \in Seq(S) /\ Len(<<>>) = 0
  OBVIOUS

(* A step of one connection leaves the others alone, but for the one that  *)
(* takes the process down.                                                 *)
Same(d) ==
    /\ client'[d] = client[d] /\ call'[d] = call[d] /\ answer'[d] = answer[d]
    /\ made'[d] = made[d] /\ requests'[d] = requests[d] /\ replies'[d] = replies[d]
    /\ server'[d] = server[d] /\ out'[d] = out[d] /\ strayed'[d] = strayed[d]

LEMMA OthersSame ==
    ASSUME Typed, NEW c \in Conns, Caller(c) \/ Await(c) \/ (Serve(c) /\ ~Trap(c)),
           NEW d \in Conns, d # c
    PROVE  Same(d)
<1> USE DEF Typed, Same, serverSide, clientSide
<1>1. ASSUME NEW m \in Calls, Send(c, m) PROVE Same(d)
  BY <1>1 DEF Send
<1>2. CASE Open(c) \/ Resume(c) \/ CloseClient(c)
  BY <1>2 DEF Open, Resume, CloseClient
<1>3. CASE Receive(c) \/ ReceiveEof(c)
  BY <1>3 DEF Receive, ReceiveEof
<1>4. CASE Process(c)
  BY <1>4 DEF Process
<1>5. CASE Reply(c) \/ ReplyFails(c) \/ EndOfStream(c)
  BY <1>5 DEF Reply, ReplyFails, EndOfStream
<1> QED
  BY <1>1, <1>2, <1>3, <1>4, <1>5 DEF Caller, Await, Serve

LEMMA ClientKeepsType ==
    ASSUME TypeInv, NEW c \in Conns, Caller(c) \/ Await(c)
    PROVE  Typed' /\ Inserted' /\ Matched(c)'
<1> USE DEF TypeInv, Typed, serverSide
<1>1. /\ UNCHANGED <<kind, served, log>> /\ Matched(c)
      /\ requests[c] \in Seq(Requests) /\ replies[c] \in Seq(Answers) /\ made[c] \in 0..MaxCalls
  BY DEF Caller, Await, Open, Send, Receive, Resume, ReceiveEof, CloseClient
<1>2. /\ <<>> \in Seq(Requests) /\ <<>> \in Seq(Answers) /\ Len(<<>>) = 0
      /\ Len(requests[c]) \in Nat /\ Len(replies[c]) \in Nat
      /\ replies[c] # <<>> => /\ Head(replies[c]) \in Answers
                              /\ Tail(replies[c]) \in Seq(Answers)
                              /\ Len(Tail(replies[c])) = Len(replies[c]) - 1
  BY <1>1, StreamFacts
<1>3. Inserted'
  BY <1>1 DEF Inserted
<1>4. CASE Open(c)
  <2>1. Typed'
    BY <1>1, <1>2, <1>4 DEF Open
  <2>2. Matched(c)'
    BY <1>1, <1>2, <1>4 DEF Open, Matched, Budget
  <2> QED
    BY <1>3, <2>1, <2>2
<1>5. ASSUME NEW m \in Calls, Send(c, m)
      PROVE  Typed' /\ Matched(c)'
  <2>1. Message(m, made[c], m) \in Requests
    BY <1>1, RpcAssumption DEF Requests
  <2>2. /\ requests'[c] = Append(requests[c], Message(m, made[c], m))
        /\ requests'[c] \in Seq(Requests) /\ Len(requests'[c]) = Len(requests[c]) + 1
        /\ made'[c] = made[c] + 1 /\ made'[c] \in 0..MaxCalls
    BY <1>1, <1>5, <2>1, RpcAssumption, StreamFacts DEF Send
  <2>3. /\ requests' \in [Conns -> Seq(Requests)] /\ made' \in [Conns -> 0..MaxCalls]
        /\ UNCHANGED <<kind, served, answer, replies, server, out, log>>
    BY <1>1, <1>5, <2>2 DEF Send
  <2>4. Typed'
    <3>1. strayed' \in [Conns -> BOOLEAN]
      BY <1>5, Zenon DEF Send
    <3>2. client' \in [Conns -> {"closed", "idle", "waiting", "returned", "threw", "garbled"}]
          /\ call' \in [Conns -> Calls \union {NoCall}] /\ UNCHANGED replies
      <4>1. CASE m.name = "zip"
        BY <1>1, <1>5, <4>1, Zenon DEF Send, Typed
      <4>2. CASE m.name # "zip"
        <5>1. /\ client' = [client EXCEPT ![c] = "waiting"]
              /\ call' = [call EXCEPT ![c] = m] /\ UNCHANGED replies
          BY <1>5, <4>2, Zenon DEF Send
        <5> QED
          BY <1>1, <5>1
      <4> QED
        BY <4>1, <4>2
    <3> QED
      BY <1>1, <2>3, <3>1, <3>2
  <2>5. Budget(c)'
    BY <1>1, <1>2, <2>2, <2>3 DEF Matched, Budget
  <2>6. Matched(c)'
    BY <1>1, <1>5, <2>3, <2>5, ValueAssumption DEF Send, Matched
  <2> QED
    BY <2>4, <2>6
<1>6. CASE Receive(c)
  <2>1. Typed'
    BY <1>1, <1>2, <1>6 DEF Receive
  <2>2. Budget(c)'
    BY <1>1, <1>2, <1>6 DEF Receive, Matched, Budget
  <2>3. Matched(c)'
    BY <1>1, <1>2, <1>6, <2>2, ValueAssumption DEF Receive, Matched
  <2> QED
    BY <1>3, <2>1, <2>3
<1>7. CASE Resume(c) \/ ReceiveEof(c)
  <2>1. Typed'
    BY <1>1, <1>7 DEF Resume, ReceiveEof
  <2>2. Budget(c)'
    BY <1>1, <1>2, <1>7 DEF Resume, ReceiveEof, Matched, Budget
  <2>3. Matched(c)'
    BY <1>1, <1>7, <2>2 DEF Resume, ReceiveEof, Matched
  <2> QED
    BY <1>3, <2>1, <2>3
<1>8. CASE CloseClient(c)
  <2>1. Typed'
    BY <1>1, <1>2, <1>8 DEF CloseClient
  <2>2. Budget(c)'
    BY <1>1, <1>2, <1>8 DEF CloseClient, Matched, Budget
  <2>3. Matched(c)'
    BY <1>1, <1>8, <2>2 DEF CloseClient, Matched
  <2> QED
    BY <1>3, <2>1, <2>3
<1> QED
  BY <1>3, <1>4, <1>5, <1>6, <1>7, <1>8 DEF Caller, Await

(* What process() has read, run and written, for the connection it serves: *)
(* call m, the n-th of the connection, with effect e.                      *)
Handled(c, m, n, e) ==
    /\ requests[c] # <<>> /\ Head(requests[c]) = Message(m, n, m)
    /\ requests' = [requests EXCEPT ![c] = Tail(@)]
    /\ log' = [log EXCEPT ![Scope(c)] = e.log]
    /\ IF m.name # "zip" \/ m.name \notin served
       THEN /\ server' = [server EXCEPT ![c] = "replying"]
            /\ out' = [out EXCEPT ![c] = Message(m, n, e.reply)]
            /\ Message(m, n, e.reply) \in Answers
       ELSE UNCHANGED <<server, out>>
    /\ Scope(c) \in Scopes /\ log[Scope(c)] \in [Keys -> Entries]
    /\ kind = "python" => \A k \in Keys : log[Scope(c)][k] # Default

LEMMA ProcessFacts ==
    ASSUME TypeInv, NEW c \in Conns, Process(c)
    PROVE  \E m \in Calls, n \in Nat : \E e \in Effect(m, log[Scope(c)]) :
               Handled(c, m, n, e)
<1> USE DEF TypeInv, Typed
<1>1. requests[c] # <<>> /\ requests[c] \in Seq(Requests)
  BY DEF Process
<1>2. PICK m \in Calls, n \in Nat : Head(requests[c]) = Message(m, n, m)
  BY <1>1, StreamFacts DEF Requests
<1>3. /\ Head(requests[c]).name = m.name /\ Head(requests[c]).of = n
      /\ Head(requests[c]).reply = m
      /\ Message(Head(requests[c]), Head(requests[c]).of, m) = Message(m, n, m)
  BY <1>2 DEF Message
<1>4. PICK e \in Effect(m, log[Scope(c)]) :
          /\ log' = [log EXCEPT ![Scope(c)] = e.log]
          /\ IF Replies(Head(requests[c]))
             THEN /\ server' = [server EXCEPT ![c] = "replying"]
                  /\ out' = [out EXCEPT ![c] = Message(Head(requests[c]), n, e.reply)]
             ELSE UNCHANGED <<server, out>>
  BY <1>3 DEF Process
<1>5. Message(Head(requests[c]), n, e.reply) = Message(m, n, e.reply)
  BY <1>3 DEF Message
<1>6. Scope(c) \in Scopes
  BY DEF Scope, Scopes
<1>7. /\ log[Scope(c)] \in [Keys -> Entries]
      /\ kind = "python" => \A k \in Keys : log[Scope(c)][k] # Default
  BY <1>6 DEF Inserted
<1>8. e.reply \in Bodies
  BY <1>7, EffectFacts
<1>9. Message(m, n, e.reply) \in Answers
  BY <1>8 DEF Message, Answers
<1>10. requests' = [requests EXCEPT ![c] = Tail(@)]
  BY DEF Process
<1> QED
  BY <1>1, <1>2, <1>3, <1>4, <1>5, <1>6, <1>7, <1>9, <1>10 DEF Replies, Handled

LEMMA ServerKeepsType ==
    ASSUME TypeInv, NEW c \in Conns, Serve(c), ~Trap(c)
    PROVE  Typed' /\ Inserted' /\ Matched(c)'
<1> USE DEF TypeInv, Typed, clientSide
<1>1. /\ UNCHANGED <<kind, served, client, call, answer, made, strayed>> /\ Matched(c)
      /\ requests[c] \in Seq(Requests) /\ replies[c] \in Seq(Answers) /\ made[c] \in 0..MaxCalls
  BY DEF Serve, Process, Reply, ReplyFails, EndOfStream
<1>2. /\ Len(requests[c]) \in Nat /\ Len(replies[c]) \in Nat
      /\ requests[c] # <<>> => /\ Tail(requests[c]) \in Seq(Requests)
                               /\ Len(Tail(requests[c])) = Len(requests[c]) - 1
      /\ \A x \in Answers : /\ Append(replies[c], x) \in Seq(Answers)
                            /\ Len(Append(replies[c], x)) = Len(replies[c]) + 1
  BY <1>1, StreamFacts
<1>3. CASE Process(c)
  <2>1. PICK m \in Calls, n \in Nat : \E e \in Effect(m, log[Scope(c)]) : Handled(c, m, n, e)
    BY <1>3, ProcessFacts
  <2>2. PICK e \in Effect(m, log[Scope(c)]) : Handled(c, m, n, e)
    BY <2>1
  <2>3. /\ e.log \in [Keys -> Entries]
        /\ kind = "python" => \A k \in Keys : e.log[k] # Default
    BY <2>2, EffectFacts DEF Handled
  <2>4. log' \in [Scopes -> [Keys -> Entries]] /\ Inserted'
    BY <1>1, <2>2, <2>3 DEF Handled, Inserted
  <2>5. UNCHANGED replies /\ server[c] = "ready"
    BY <1>3 DEF Process
  <2>6. /\ requests' \in [Conns -> Seq(Requests)]
        /\ server' \in [Conns -> {"none", "ready", "replying"}]
        /\ out' \in [Conns -> Answers \union {NoReply}]
    BY <1>2, <2>2 DEF Handled
  <2>7. Budget(c)'
    BY <1>1, <1>2, <2>2, <2>5 DEF Handled, Matched, Budget
  <2>8. Matched(c)'
    BY <1>1, <2>2, <2>5, <2>7, ValueAssumption DEF Handled, Matched
  <2> QED
    BY <1>1, <2>4, <2>5, <2>6, <2>8
<1>4. CASE Reply(c)
  <2>1. out[c] \in Answers
    BY <1>1, <1>4 DEF Reply, Matched
  <2>2. Typed' /\ Inserted'
    BY <1>1, <1>2, <1>4, <2>1 DEF Reply, Inserted
  <2>3. Budget(c)'
    BY <1>1, <1>2, <1>4, <2>1 DEF Reply, Matched, Budget
  <2>4. Matched(c)'
    BY <1>1, <1>4, <2>3 DEF Reply, Matched
  <2> QED
    BY <2>2, <2>4
<1>5. CASE ReplyFails(c)
  <2>1. Typed' /\ Inserted'
    BY <1>1, <1>5 DEF ReplyFails, Inserted
  <2>2. Budget(c)'
    BY <1>1, <1>2, <1>5 DEF ReplyFails, Matched, Budget
  <2>3. Matched(c)'
    BY <1>1, <1>5, <2>2 DEF ReplyFails, Matched
  <2> QED
    BY <2>1, <2>3
<1>6. CASE EndOfStream(c)
  <2>1. log' \in [Scopes -> [Keys -> Entries]] /\ Inserted'
    BY <1>1, <1>6, ValueAssumption DEF EndOfStream, Inserted, EmptyLog, Entries
  <2>2. Typed'
    BY <1>1, <1>6, <2>1 DEF EndOfStream
  <2>3. Matched(c)'
    BY <1>1, <1>6 DEF EndOfStream, Matched, Budget
  <2> QED
    BY <2>1, <2>2, <2>3
<1> QED
  BY <1>3, <1>4, <1>5, <1>6 DEF Serve

LEMMA TrapKeepsType ==
    ASSUME TypeInv, NEW c \in Conns, Trap(c), UNCHANGED <<kind, served>>
    PROVE  TypeInv'
<1> USE DEF TypeInv, Typed, clientSide
<1>1. /\ UNCHANGED <<client, call, answer, made, strayed, requests, replies, log>>
      /\ server' = [d \in Conns |-> "none"] /\ out' = [d \in Conns |-> NoReply]
  BY DEF Trap
<1>2. Typed' /\ Inserted'
  BY <1>1 DEF Inserted
<1>3. ASSUME NEW d \in Conns PROVE Matched(d)'
  <2>1. Len(requests[d]) \in Nat /\ Len(replies[d]) \in Nat /\ made[d] \in Nat
    BY RpcAssumption, StreamFacts
  <2>2. Budget(d)
    BY DEF Matched
  <2>3. Budget(d)'
    BY <1>1, <2>1, <2>2 DEF Budget
  <2> QED
    BY <1>1, <2>3 DEF Matched
<1> QED
  BY <1>2, <1>3

LEMMA TypeKept == Spec => []TypeInv
<1>1. Init => TypeInv
  <2> SUFFICES ASSUME Init PROVE TypeInv
    OBVIOUS
  <2>1. Typed /\ Inserted
    BY RpcAssumption, ValueAssumption
       DEF Init, Typed, Inserted, Entries, EmptyLog
  <2>2. \A d \in Conns : Matched(d)
    BY RpcAssumption DEF Init, Matched, Budget
  <2> QED
    BY <2>1, <2>2 DEF TypeInv
<1>2. TypeInv /\ [Next]_vars => TypeInv'
  <2> SUFFICES ASSUME TypeInv, [Next]_vars PROVE TypeInv'
    OBVIOUS
  <2>1. CASE UNCHANGED vars
    BY <2>1 DEF TypeInv, Typed, Inserted, Matched, Budget, vars
  <2>2. ASSUME NEW c \in Conns, Caller(c) \/ Await(c) \/ (Serve(c) /\ ~Trap(c))
        PROVE  TypeInv'
    <3>1. Typed' /\ Inserted' /\ Matched(c)'
      BY <2>2, ClientKeepsType, ServerKeepsType
    <3>2. ASSUME NEW d \in Conns, d # c PROVE Matched(d)'
      <4>1. Same(d) /\ UNCHANGED served
        BY <2>2, <3>2, OthersSame DEF TypeInv, Caller, Await, Serve
      <4> QED
        BY <4>1 DEF TypeInv, Matched, Budget, Same
    <3> QED
      BY <3>1, <3>2 DEF TypeInv
  <2>3. ASSUME NEW c \in Conns, Serve(c), Trap(c) PROVE TypeInv'
    BY <2>3, TrapKeepsType DEF Serve
  <2> QED
    BY <2>1, <2>2, <2>3 DEF Next
<1> QED
  BY <1>1, <1>2, PTL DEF Spec

(* Types, and no stream ever holds more messages than calls were made.     *)
THEOREM TypeCorrect == Spec => []TypeOK
<1>1. TypeInv => TypeOK
  <2> SUFFICES ASSUME TypeInv PROVE TypeOK
    OBVIOUS
  <2>1. ASSUME NEW c \in Conns
        PROVE  Len(requests[c]) <= MaxCalls /\ Len(replies[c]) <= MaxCalls
    <3>1. /\ Len(requests[c]) \in Nat /\ Len(replies[c]) \in Nat
          /\ made[c] \in Nat /\ made[c] <= MaxCalls
      BY StreamFacts, RpcAssumption DEF TypeInv, Typed
    <3>2. Budget(c)
      BY DEF TypeInv, Matched
    <3>3. \A x, y, z \in Nat : x + y + (IF out[c] = NoReply THEN 0 ELSE 1) <= z
                               /\ z <= MaxCalls => x <= MaxCalls /\ y <= MaxCalls
      BY RpcAssumption
    <3> QED
      BY <3>1, <3>2, <3>3 DEF Budget
  <2> QED
    BY <2>1 DEF TypeInv, Typed, Matched, TypeOK
<1> QED
  BY <1>1, TypeKept, PTL

-----------------------------------------------------------------------------
(* Whose answer is whose.  A connection that has not strayed has at most   *)
(* one call that will be answered, the last one, and the message of that   *)
(* call is in one place: in front of the server, in the hands of its       *)
(* thread, on the way back, or lost with the connection.                   *)
OnlyZips(c) == \A i \in 1..Len(requests[c]) : requests[c][i].name = "zip"

Told(c, a) ==
    /\ a.of = made[c] - 1 /\ a.name = call[c].name
    /\ /\ call[c].name \in {"add", "calculate"}
       /\ a.reply.type # "EXCEPTION" /\ a.reply.field = "success"
       => ~Invalid(call[c].work) /\ a.reply.val \in Outcomes(kind, call[c].work)

Asked(c) ==
    /\ requests[c] # <<>> /\ replies[c] = <<>> /\ out[c] = NoReply
    /\ requests[c][Len(requests[c])] = Message(call[c], made[c] - 1, call[c])
    /\ \A i \in 1..(Len(requests[c]) - 1) : requests[c][i].name = "zip"

InHand(c) ==
    requests[c] = <<>> /\ replies[c] = <<>> /\ out[c] # NoReply /\ Told(c, out[c])

OnItsWay(c) ==
    /\ requests[c] = <<>> /\ out[c] = NoReply /\ replies[c] # <<>> /\ Tail(replies[c]) = <<>>
    /\ Told(c, Head(replies[c])) /\ Writable(Head(replies[c]))

Lost(c) == server[c] = "none" /\ replies[c] = <<>> /\ out[c] = NoReply

Waiting(c) == call[c].name # "zip" /\ (Asked(c) \/ InHand(c) \/ OnItsWay(c) \/ Lost(c))

Quiet(c) ==
    /\ replies[c] = <<>> /\ out[c] = NoReply
    /\ OnlyZips(c) \/ (client[c] = "closed" /\ server[c] = "none")

InStep(c) ==
    /\ client[c] # "garbled"
    /\ ("zip" \in served) \/ \A i \in 1..Len(requests[c]) : requests[c][i].name # "zip"
    /\ client[c] = "waiting" => Waiting(c)
    /\ client[c] # "waiting" => Quiet(c)
    /\ client[c] \in {"returned", "threw"} => Told(c, answer[c])
    /\ client[c] = "returned" =>
           /\ answer[c].reply.type # "EXCEPTION" /\ answer[c].reply.field = "success"
           /\ Writable(answer[c])

InOrder == \A c \in Conns : ~strayed[c] => InStep(c)

LEMMA ItemFacts ==
    ASSUME NEW S, NEW s \in Seq(S)
    PROVE  /\ \A x \in S : /\ \A i \in 1..Len(s) : Append(s, x)[i] = s[i]
                           /\ Append(s, x)[Len(s) + 1] = x
           /\ s # <<>> => /\ Head(s) = s[1]
                          /\ \A i \in 1..(Len(s) - 1) : Tail(s)[i] = s[i + 1]
  OBVIOUS

(* The client begins: it opens a connection or sends a call.               *)
LEMMA SendKeepsStep ==
    ASSUME TypeInv, InOrder, NEW c \in Conns, NEW m \in Calls, Send(c, m), ~strayed'[c],
           UNCHANGED <<kind, served>>
    PROVE  InStep(c)'
<1> USE DEF TypeInv, Typed, serverSide
<1> DEFINE q == Message(m, made[c], m)
<1>1. /\ requests[c] \in Seq(Requests) /\ made[c] \in Nat /\ q \in Requests
      /\ q.name = m.name
  BY RpcAssumption DEF Requests, Message
<1>2. /\ client[c] = "idle" /\ requests'[c] = Append(requests[c], q)
      /\ made'[c] = made[c] + 1
      /\ UNCHANGED <<kind, served, answer, replies, server, out>>
  BY DEF Send
<1>3. ~strayed[c] /\ (m.name = "zip" => "zip" \in served)
  BY DEF Send
<1>4. Quiet(c) /\ OnlyZips(c) /\ (("zip" \in served) \/ Len(requests[c]) = 0)
  <2>1. InStep(c)
    BY <1>3 DEF InOrder
  <2>2. Len(requests[c]) \in Nat
    BY <1>1, StreamFacts
  <2>3. Quiet(c) /\ OnlyZips(c)
    BY <1>2, <2>1 DEF InStep, Quiet
  <2>4. ASSUME "zip" \notin served, Len(requests[c]) # 0
        PROVE  FALSE
    <3>1. 1 \in 1..Len(requests[c])
      BY <2>2, <2>4
    <3> QED
      BY <2>1, <2>3, <2>4, <3>1 DEF InStep, OnlyZips
  <2> QED
    BY <2>3, <2>4
<1>5. /\ Len(requests[c]) \in Nat /\ Len(requests'[c]) = Len(requests[c]) + 1
      /\ requests'[c] # <<>>
      /\ requests'[c][Len(requests[c]) + 1] = q
      /\ \A i \in 1..Len(requests[c]) : requests'[c][i].name = "zip"
  <2>1. \A i \in 1..Len(requests[c]) : requests'[c][i] = requests[c][i]
    BY <1>1, <1>2, ItemFacts
  <2>2. /\ Len(requests[c]) \in Nat /\ Len(requests'[c]) = Len(requests[c]) + 1
        /\ requests'[c] # <<>>
    <3> HIDE DEF q, Typed, TypeInv
    <3> QED
      BY <1>1, <1>2, StreamFacts
  <2>3. requests'[c][Len(requests[c]) + 1] = q
    BY <1>1, <1>2, ItemFacts
  <2> QED
    BY <1>4, <2>1, <2>2, <2>3 DEF OnlyZips
<1> HIDE DEF q
<1>6. ("zip" \in served') \/ \A i \in 1..Len(requests'[c]) : requests'[c][i].name # "zip"
  BY <1>1, <1>2, <1>3, <1>4, <1>5
<1>7. CASE m.name = "zip"
  <2>1. client' = client
    BY <1>7 DEF Send
  <2>2. OnlyZips(c)'
    BY <1>1, <1>5, <1>7 DEF OnlyZips
  <2> QED
    BY <1>2, <1>4, <1>6, <2>1, <2>2 DEF InStep, Quiet
<1>8. CASE m.name # "zip"
  <2>1. client'[c] = "waiting" /\ call'[c] = m
    BY <1>8 DEF Send
  <2>2. requests'[c][Len(requests'[c])] = Message(call'[c], made'[c] - 1, call'[c])
    BY <1>1, <1>2, <1>5, <2>1 DEF q
  <2>3. Asked(c)'
    BY <1>2, <1>4, <1>5, <2>2 DEF Asked, Quiet
  <2> QED
    BY <1>6, <1>8, <2>1, <2>3 DEF InStep, Waiting
<1> QED
  BY <1>7, <1>8

(* The client goes on: it takes an answer, finds the connection closed, or *)
(* closes it.                                                              *)
LEMMA ClientKeepsStep ==
    ASSUME TypeInv, InOrder, NEW c \in Conns, ~strayed'[c],
           Open(c) \/ Resume(c) \/ CloseClient(c) \/ Await(c), UNCHANGED <<kind, served>>
    PROVE  InStep(c)'
<1> USE DEF TypeInv, Typed, serverSide
<1>1. CASE Open(c)
  <2>1. out[c] = NoReply
    BY <1>1 DEF Open, Matched
  <2>2. /\ client'[c] = "idle" /\ requests'[c] = <<>> /\ replies'[c] = <<>>
        /\ out'[c] = NoReply
    BY <1>1, <2>1 DEF Open
  <2>3. Len(requests'[c]) = 0
    BY <2>2
  <2> QED
    BY <2>2, <2>3 DEF InStep, Quiet, OnlyZips
<1>2. ASSUME ~Open(c)
      PROVE  InStep(c) /\ UNCHANGED <<made, requests, server, out>>
  BY <1>2 DEF InOrder, Resume, CloseClient, Await, Receive, ReceiveEof
<1>3. CASE Receive(c)
  <2>1. ~Open(c)
    BY <1>3 DEF Open, Receive
  <2>2. UNCHANGED <<kind, served, made, requests, server, out, call>> /\ InStep(c)
    BY <1>2, <1>3, <2>1 DEF Receive
  <2>3. OnItsWay(c)
    BY <1>3, <2>2 DEF Receive, InStep, Waiting, Asked, InHand, Lost
  <2>4. Len(requests[c]) = 0
    BY <2>3 DEF OnItsWay
  <2>5. /\ answer'[c] = Head(replies[c]) /\ replies'[c] = <<>>
        /\ Told(c, Head(replies[c])) /\ Writable(Head(replies[c]))
    BY <1>3, <2>3 DEF Receive, OnItsWay
  <2>6. /\ client'[c] \in {"returned", "threw"}
        /\ client'[c] = "returned" =>
               answer'[c].reply.type # "EXCEPTION" /\ answer'[c].reply.field = "success"
    BY <1>3, <2>5 DEF Receive, Told
  <2>7. Told(c, answer[c])' /\ Writable(answer[c])'
    BY <2>2, <2>5 DEF Told, Writable
  <2>8. Quiet(c)'
    BY <2>2, <2>3, <2>4, <2>5 DEF Quiet, OnlyZips, OnItsWay
  <2> QED
    BY <2>2, <2>4, <2>6, <2>7, <2>8 DEF InStep
<1>4. CASE Resume(c)
  <2>1. ~Open(c)
    BY <1>4 DEF Open, Resume
  <2>2. UNCHANGED <<kind, served, made, requests, replies, server, out>> /\ InStep(c)
    BY <1>2, <1>4, <2>1 DEF Resume
  <2>3. client'[c] = "idle" /\ client[c] \in {"returned", "threw"}
    BY <1>4 DEF Resume
  <2> QED
    BY <2>2, <2>3 DEF InStep, Quiet, OnlyZips
<1>5. CASE ReceiveEof(c)
  <2>1. ~Open(c)
    BY <1>5 DEF Open, ReceiveEof
  <2>2. UNCHANGED <<kind, served, made, requests, replies, server, out>> /\ InStep(c)
    BY <1>2, <1>5, <2>1 DEF ReceiveEof
  <2>3. /\ client'[c] = "closed" /\ server[c] = "none" /\ replies[c] = <<>>
        /\ out[c] = NoReply
    BY <1>5 DEF ReceiveEof, Matched
  <2> QED
    BY <2>2, <2>3 DEF InStep, Quiet
<1>6. CASE CloseClient(c)
  <2>1. ~Open(c)
    BY <1>6 DEF Open, CloseClient
  <2>2. UNCHANGED <<kind, served, made, requests, server, out>> /\ InStep(c)
    BY <1>2, <1>6, <2>1 DEF CloseClient
  <2>3. client[c] = "idle" /\ client'[c] = "closed" /\ replies'[c] = <<>>
    BY <1>6 DEF CloseClient
  <2> QED
    BY <2>2, <2>3 DEF InStep, Quiet, OnlyZips
<1> QED
  BY <1>1, <1>3, <1>4, <1>5, <1>6 DEF Await

(* The server reads a request: it is the call the client waits for if no   *)
(* other is left, and a oneway call otherwise.                             *)
LEMMA HeadFacts ==
    ASSUME TypeInv, NEW c \in Conns, InStep(c), server[c] = "ready",
           NEW m \in Calls, NEW n \in Nat,
           requests[c] # <<>>, Head(requests[c]) = Message(m, n, m)
    PROVE  \/ /\ client[c] = "waiting" /\ m = call[c] /\ n = made[c] - 1 /\ m.name # "zip"
              /\ Tail(requests[c]) = <<>> /\ replies[c] = <<>> /\ out[c] = NoReply
           \/ /\ m.name = "zip" /\ "zip" \in served
              /\ client[c] = "waiting" => Asked(c) /\ Tail(requests[c]) # <<>>
<1> DEFINE s == requests[c]
<1>1. /\ s \in Seq(Requests) /\ Len(s) \in Nat /\ Len(s) > 0 /\ Head(s) = s[1]
      /\ Tail(s) \in Seq(Requests) /\ Len(Tail(s)) = Len(s) - 1 /\ 1 \in 1..Len(s)
  <2>1. s \in Seq(Requests) /\ s # <<>>
    BY DEF TypeInv, Typed
  <2> HIDE DEF s
  <2> QED
    BY <2>1, StreamFacts, ItemFacts
<1>2. s[1].name = m.name /\ s[1].reply = m /\ s[1].of = n
  BY <1>1 DEF Message
<1>3. Len(Tail(s)) = 0 <=> Tail(s) = <<>>
  <2>1. Tail(s) \in Seq(Requests)
    BY <1>1
  <2> HIDE DEF s
  <2> QED
    BY <2>1, StreamFacts
<1>4. m.name = "zip" => "zip" \in served
  BY <1>1, <1>2 DEF InStep
<1>5. CASE client[c] # "waiting"
  <2>1. OnlyZips(c)
    BY <1>5 DEF InStep, Quiet
  <2> QED
    BY <1>1, <1>2, <1>4, <1>5, <2>1 DEF OnlyZips
<1>6. CASE client[c] = "waiting"
  <2>1. Asked(c) /\ call[c].name # "zip"
    BY <1>6 DEF InStep, Waiting, InHand, OnItsWay, Lost
  <2>2. CASE Len(s) = 1
    <3>1. s[1] = Message(call[c], made[c] - 1, call[c])
      BY <2>1, <2>2 DEF Asked
    <3>2. m = call[c] /\ n = made[c] - 1
      BY <1>2, <3>1 DEF Message
    <3>3. Tail(s) = <<>>
      BY <1>1, <1>3, <2>2
    <3> QED
      BY <1>6, <2>1, <3>2, <3>3 DEF Asked
  <2>3. CASE Len(s) # 1
    <3>1. 1 \in 1..(Len(s) - 1) /\ Len(Tail(s)) # 0
      <4> HIDE DEF s
      <4> QED
        BY <1>1, <2>3
    <3>2. s[1].name = "zip" /\ Tail(s) # <<>>
      BY <1>3, <2>1, <3>1 DEF Asked
    <3> QED
      BY <1>2, <1>4, <2>1, <3>2
  <2> QED
    BY <2>2, <2>3
<1> QED
  BY <1>5, <1>6

(* A oneway call leaves what is behind it as it was.                       *)
LEMMA TailFacts ==
    ASSUME TypeInv, NEW c \in Conns, requests[c] # <<>>
    PROVE  /\ Len(requests[c]) \in Nat /\ Len(Tail(requests[c])) = Len(requests[c]) - 1
           /\ \A i \in 1..(Len(requests[c]) - 1) :
                  Tail(requests[c])[i] = requests[c][i + 1] /\ i + 1 \in 1..Len(requests[c])
<1>1. requests[c] \in Seq(Requests)
  BY DEF TypeInv, Typed
<1>2. Len(requests[c]) \in Nat /\ Len(Tail(requests[c])) = Len(requests[c]) - 1
  BY <1>1, StreamFacts
<1>3. \A i \in 1..(Len(requests[c]) - 1) : Tail(requests[c])[i] = requests[c][i + 1]
  BY <1>1, ItemFacts
<1> QED
  BY <1>2, <1>3

LEMMA ProcessKeepsStep ==
    ASSUME TypeInv, InOrder, NEW c \in Conns, ~strayed'[c], Process(c),
           UNCHANGED <<kind, served>>
    PROVE  InStep(c)'
<1>1. /\ UNCHANGED <<kind, served, client, call, answer, made, strayed, replies>>
      /\ InStep(c) /\ server[c] = "ready"
  BY DEF Process, clientSide, InOrder
<1>2. PICK m \in Calls, n \in Nat : \E e \in Effect(m, log[Scope(c)]) : Handled(c, m, n, e)
  BY ProcessFacts
<1>3. PICK e \in Effect(m, log[Scope(c)]) : Handled(c, m, n, e)
  BY <1>2
<1>4. /\ requests[c] # <<>> /\ requests'[c] = Tail(requests[c])
      /\ Head(requests[c]) = Message(m, n, m)
  BY <1>3 DEF Handled, TypeInv, Typed
<1>5. CASE /\ client[c] = "waiting" /\ m = call[c] /\ n = made[c] - 1 /\ m.name # "zip"
           /\ Tail(requests[c]) = <<>> /\ replies[c] = <<>> /\ out[c] = NoReply
  <2>1. out'[c] = Message(m, n, e.reply) /\ out'[c] # NoReply /\ server'[c] = "replying"
    BY <1>3, <1>5, ValueAssumption DEF Handled, TypeInv, Typed
  <2>2. Told(c, Message(m, n, e.reply))
    <3>1. /\ m.name \in {"add", "calculate"} /\ e.reply.type # "EXCEPTION"
             /\ e.reply.field = "success" =>
                 ~Invalid(m.work) /\ e.reply.val \in Outcomes(kind, m.work)
      BY <1>3, EffectFacts DEF Handled, TypeInv, Typed
    <3> QED
      BY <1>5, <3>1 DEF Told, Message
  <2>3. Told(c, out[c])'
    BY <1>1, <2>1, <2>2 DEF Told
  <2>4. InHand(c)'
    BY <1>1, <1>4, <1>5, <2>1, <2>3 DEF InHand
  <2>5. Len(requests'[c]) = 0
    BY <2>4 DEF InHand
  <2> QED
    BY <1>1, <1>5, <2>4, <2>5 DEF InStep, Waiting
<1>6. CASE /\ m.name = "zip" /\ "zip" \in served
           /\ client[c] = "waiting" => Asked(c) /\ Tail(requests[c]) # <<>>
  <2>1. UNCHANGED <<server, out>>
    BY <1>3, <1>6 DEF Handled
  <2>2. CASE client[c] = "waiting"
    <3>1. Len(requests[c]) > 1
      <4>1. Len(Tail(requests[c])) \in Nat /\ Len(Tail(requests[c])) > 0
        <5>1. Tail(requests[c]) \in Seq(Requests) /\ Tail(requests[c]) # <<>>
          BY <1>4, <1>6, <2>2, StreamFacts DEF TypeInv, Typed
        <5> QED
          BY <5>1, StreamFacts
      <4> QED
        BY <1>4, <4>1, TailFacts
    <3>2. requests'[c][Len(requests'[c])] = requests[c][Len(requests[c])]
      BY <1>4, <3>1, TailFacts
    <3>3. \A i \in 1..(Len(requests'[c]) - 1) : requests'[c][i].name = "zip"
      <4>1. \A i \in 1..(Len(requests[c]) - 1) : requests[c][i].name = "zip"
        BY <1>6, <2>2 DEF Asked
      <4> QED
        BY <1>4, <4>1, TailFacts
    <3>4. Asked(c)'
      BY <1>1, <1>4, <1>6, <2>1, <2>2, <3>2, <3>3 DEF Asked
    <3> QED
      BY <1>1, <1>6, <2>2, <3>4 DEF InStep, Waiting
  <2>3. CASE client[c] # "waiting"
    <3>1. Quiet(c) /\ OnlyZips(c)
      BY <1>1, <2>3 DEF InStep, Quiet
    <3>2. OnlyZips(c)'
      BY <1>4, <3>1, TailFacts DEF OnlyZips
    <3>3. Quiet(c)'
      BY <1>1, <2>1, <3>1, <3>2 DEF Quiet
    <3> QED
      BY <1>1, <1>6, <2>3, <3>3 DEF InStep, Told, Writable
  <2> QED
    BY <2>2, <2>3
<1> QED
  BY <1>1, <1>4, <1>5, <1>6, HeadFacts

LEMMA ServerKeepsStep ==
    ASSUME TypeInv, InOrder, NEW c \in Conns, ~strayed'[c],
           Reply(c) \/ ReplyFails(c) \/ EndOfStream(c), UNCHANGED <<kind, served>>
    PROVE  InStep(c)'
<1>1. /\ UNCHANGED <<kind, served, client, call, answer, made, strayed, requests>>
      /\ InStep(c)
  BY DEF Reply, ReplyFails, EndOfStream, clientSide, InOrder
<1>2. CASE Reply(c) \/ ReplyFails(c)
  <2>1. out[c] # NoReply /\ out[c] \in Answers /\ server[c] = "replying"
    BY <1>2 DEF TypeInv, Typed, Matched, Reply, ReplyFails
  <2>2. client[c] = "waiting" /\ InHand(c) /\ call[c].name # "zip"
    BY <1>1, <2>1 DEF InStep, Quiet, Waiting, Asked, OnItsWay, Lost
  <2>3. requests'[c] = <<>> /\ Len(requests'[c]) = 0
    BY <1>1, <2>2 DEF InHand
  <2>4. CASE Reply(c)
    <3>1. replies'[c] = Append(<<>>, out[c]) /\ out'[c] = NoReply /\ Writable(out[c])
      BY <2>2, <2>4 DEF Reply, InHand, TypeInv, Typed
    <3>2. /\ replies'[c] # <<>> /\ Tail(replies'[c]) = <<>> /\ Head(replies'[c]) = out[c]
      BY <3>1
    <3>3. Told(c, Head(replies[c]))' /\ Writable(Head(replies[c]))'
      BY <1>1, <2>2, <3>1, <3>2 DEF Told, Writable, InHand
    <3>4. OnItsWay(c)'
      BY <2>3, <3>1, <3>2, <3>3 DEF OnItsWay
    <3> QED
      BY <1>1, <2>2, <2>3, <3>4 DEF InStep, Waiting
  <2>5. CASE ReplyFails(c)
    <3>1. Lost(c)'
      BY <2>2, <2>5 DEF ReplyFails, InHand, Lost, TypeInv, Typed
    <3> QED
      BY <1>1, <2>2, <2>3, <3>1 DEF InStep, Waiting
  <2> QED
    BY <1>2, <2>4, <2>5
<1>3. CASE EndOfStream(c)
  <2>1. client[c] = "closed" /\ server'[c] = "none" /\ UNCHANGED <<replies, out>>
    BY <1>3 DEF EndOfStream, TypeInv, Typed
  <2> QED
    BY <1>1, <2>1 DEF InStep, Quiet
<1> QED
  BY <1>2, <1>3

LEMMA OrderKept == Spec => []InOrder
<1>1. Init => InOrder
  <2> SUFFICES ASSUME Init, NEW c \in Conns PROVE InStep(c)
    BY DEF InOrder
  <2>1. /\ client[c] = "closed" /\ server[c] = "none" /\ requests[c] = <<>>
        /\ replies[c] = <<>> /\ out[c] = NoReply
    BY DEF Init
  <2>2. Len(requests[c]) = 0
    BY <2>1
  <2> QED
    BY <2>1, <2>2 DEF InStep, Quiet
<1>2. TypeInv /\ InOrder /\ [Next]_vars => InOrder'
  <2> SUFFICES ASSUME TypeInv, InOrder, [Next]_vars PROVE InOrder'
    OBVIOUS
  <2>1. ASSUME NEW c \in Conns, Same(c), UNCHANGED <<kind, served>>, ~strayed'[c]
        PROVE  InStep(c)'
    <3>1. InStep(c)
      BY <2>1 DEF InOrder, Same
    <3> QED
      BY <2>1, <3>1 DEF Same, InStep, Waiting, Asked, InHand, OnItsWay, Lost, Quiet,
                        OnlyZips, Told, Writable
  <2>2. CASE UNCHANGED vars
    BY <2>1, <2>2 DEF vars, Same, InOrder
  <2>3. ASSUME NEW c \in Conns, Caller(c) \/ Await(c) \/ (Serve(c) /\ ~Trap(c))
        PROVE  InOrder'
    <3>1. UNCHANGED <<kind, served>>
      BY <2>3 DEF Caller, Await, Serve
    <3>2. ~strayed'[c] => InStep(c)'
      BY <2>3, <3>1, SendKeepsStep, ClientKeepsStep, ProcessKeepsStep, ServerKeepsStep
         DEF Caller, Serve
    <3>3. ASSUME NEW d \in Conns, d # c, ~strayed'[d] PROVE InStep(d)'
      <4>1. Same(d)
        BY <2>3, <3>3, OthersSame DEF TypeInv
      <4> QED
        BY <2>1, <3>1, <3>3, <4>1
    <3> QED
      BY <3>2, <3>3 DEF InOrder
  <2>4. ASSUME NEW c \in Conns, Serve(c), Trap(c)
        PROVE  InOrder'
    <3> SUFFICES ASSUME NEW d \in Conns, ~strayed'[d] PROVE InStep(d)'
      BY DEF InOrder
    <3>1. /\ UNCHANGED <<kind, served, client, call, answer, made, strayed, requests, replies>>
          /\ server'[d] = "none" /\ out'[d] = NoReply
      BY <2>4 DEF Serve, Trap, clientSide
    <3>2. InStep(d)
      BY <3>1 DEF InOrder
    <3>3. Quiet(d) => Quiet(d)'
      BY <3>1 DEF Quiet, OnlyZips
    <3>4. Waiting(d) => Waiting(d)'
      BY <3>1 DEF Waiting, Asked, InHand, OnItsWay, Lost, Told, Writable
    <3> QED
      BY <3>1, <3>2, <3>3, <3>4 DEF InStep, Told, Writable
  <2> QED
    BY <2>2, <2>3, <2>4 DEF Next
<1> QED
  BY <1>1, <1>2, TypeKept, PTL DEF Spec

(* A client that never sent a oneway call the server does not know takes   *)
(* only the answer to its own call, although it looks at no number: for    *)
(* any number of connections and calls, whatever the server thread is at,  *)
(* and also when the process dies.                                         *)
THEOREM ClientsTakeTheirOwn == Spec => []AnswersOwnCall
<1>1. TypeInv /\ TypeOK /\ InOrder => AnswersOwnCall
  <2> SUFFICES ASSUME TypeInv, TypeOK, InOrder, NEW c \in Conns,
                      answer[c] # NoReply, ~strayed[c]
               PROVE  answer[c].of = made[c] - 1 /\ client[c] # "garbled"
    BY DEF AnswersOwnCall
  <2> QED
    BY DEF TypeInv, Matched, InOrder, InStep, Told
<1> QED
  BY <1>1, TypeCorrect, TypeKept, OrderKept, PTL

(* The quotients of both servers are right for integers of any width, and  *)
(* a caller that is told a number is told the sum, difference, product or  *)
(* quotient that it asked for, unless that does not fit.                   *)
THEOREM ClientsAreToldRight == Spec => []AnswersAreRight
<1>1. QuotientsRound
  <2> SUFFICES ASSUME NEW k \in Kinds, NEW a \in Int32, NEW b \in Int32, b # 0
               PROVE  IsQuotient(k, a, b, Quotient(k, a, b))
    BY DEF QuotientsRound
  <2>1. a \in Int /\ b \in Int
    BY RpcAssumption DEF Int32
  <2> QED
    BY <2>1, QuotientRounds
<1>2. TypeInv /\ InOrder => AnswersAreRight
  <2> SUFFICES ASSUME TypeInv, InOrder, NEW c \in Conns, client[c] = "returned",
                      ~strayed[c], call[c].name \in {"add", "calculate"}
               PROVE  LET w == call[c].work
                          n == answer[c].reply.val
                      IN  /\ n \in Int32
                          /\ w.op = "ADD" /\ w.a + w.b \in Int32 => n = w.a + w.b
                          /\ w.op = "SUBTRACT" /\ w.a - w.b \in Int32 => n = w.a - w.b
                          /\ w.op = "MULTIPLY" /\ w.a * w.b \in Int32 => n = w.a * w.b
                          /\ w.op = "DIVIDE" /\ ~MayTrap(kind, w)
                                => IsQuotient(kind, w.a, w.b, n)
    BY <1>1 DEF AnswersAreRight
  <2> DEFINE w == call[c].work
             n == answer[c].reply.val
  <2>1. /\ Told(c, answer[c]) /\ Writable(answer[c])
        /\ answer[c].reply.type # "EXCEPTION" /\ answer[c].reply.field = "success"
    BY DEF InOrder, InStep
  <2>2. ~Invalid(w) /\ n \in Outcomes(kind, w)
    BY <2>1 DEF Told
  <2>3. w \in Works
    BY CallFacts DEF TypeInv, Typed, Matched
  <2>4. /\ n \in Int
        /\ w.op = "ADD" /\ w.a + w.b \in Int32 => n = w.a + w.b
        /\ w.op = "SUBTRACT" /\ w.a - w.b \in Int32 => n = w.a - w.b
        /\ w.op = "MULTIPLY" /\ w.a * w.b \in Int32 => n = w.a * w.b
        /\ w.op = "DIVIDE" /\ ~MayTrap(kind, w) => IsQuotient(kind, w.a, w.b, n)
    BY <2>2, <2>3, OutcomesRight DEF TypeInv, Typed
  <2>5. n \in Int32
    BY <2>1, <2>4, RpcAssumption DEF Writable, Told
  <2> QED
    BY <2>4, <2>5
<1> QED
  BY <1>2, TypeKept, OrderKept, PTL

-----------------------------------------------------------------------------
(* Refinement.  What the service sees of a connection: whether it is       *)
(* there, its call, and what the call came to.                             *)
Joined(c)  == client[c] # "closed" /\ ~Gone(c)
Called(c)  == IF Gone(c) THEN NoCall ELSE call[c]
Replied(c) ==
    IF call[c] = NoCall \/ Gone(c) THEN NoReply
    ELSE IF answer[c] # NoReply THEN answer[c].reply
    ELSE IF replies[c] # <<>> THEN Head(replies[c]).reply
    ELSE IF out[c] # NoReply THEN out[c].reply ELSE NoReply
Logged(s, k) == IF log[s][k] = Default THEN Absent ELSE log[s][k]

joinedSeen == {c \in Conns : Joined(c)}
callSeen   == [c \in Conns |-> Called(c)]
replySeen  == [c \in Conns |-> Replied(c)]
logSeen    == [s \in Scopes |-> [k \in Keys |-> Logged(s, k)]]

seen == <<joinedSeen, callSeen, replySeen, logSeen>>

LEMMA SeesInit == ASSUME Init PROVE Service!Init
<1>1. /\ \A c \in Conns : ~Joined(c) /\ Called(c) = NoCall /\ Replied(c) = NoReply
      /\ \A s \in Scopes, k \in Keys : Logged(s, k) = Absent
  BY DEF Init, Joined, Called, Replied, Logged, Gone, EmptyLog
<1>2. /\ joinedSeen = {} /\ callSeen = [c \in Conns |-> NoCall]
      /\ replySeen = [c \in Conns |-> NoReply]
      /\ logSeen = [s \in Scopes |-> [k \in Keys |-> Absent]]
  BY <1>1 DEF joinedSeen, callSeen, replySeen, logSeen
<1> QED
  BY <1>2 DEF Init, Service!Init, joinedSeen, callSeen, replySeen, logSeen, Joined, Called,
              Replied, Logged

(* The steps of the service, in these terms.                               *)
Stutters == UNCHANGED <<kind, served>> /\ UNCHANGED seen

Joins(c) ==
    /\ UNCHANGED <<kind, served>> /\ UNCHANGED <<callSeen, replySeen, logSeen>>
    /\ joinedSeen' = joinedSeen \union {c}

Leaves(c) ==
    /\ UNCHANGED <<kind, served>> /\ UNCHANGED <<callSeen, replySeen, logSeen>>
    /\ callSeen[c] = NoCall
    /\ joinedSeen' = joinedSeen \ {c}

Invokes(c, m) ==
    /\ UNCHANGED <<kind, served>> /\ UNCHANGED <<joinedSeen, replySeen, logSeen>>
    /\ c \in joinedSeen /\ callSeen[c] = NoCall /\ m.name # "zip"
    /\ callSeen' = [callSeen EXCEPT ![c] = m]

TakesEffect(c) ==
    /\ UNCHANGED <<kind, served>> /\ UNCHANGED <<joinedSeen, callSeen>>
    /\ callSeen[c] # NoCall /\ replySeen[c] = NoReply
    /\ \E r : /\ replySeen' = [replySeen EXCEPT ![c] = r]
              /\ LET m == callSeen[c]
                     s == Scope(c)
                 IN  \/ m.name \notin served /\ r = Exception /\ UNCHANGED logSeen
                     \/ /\ m.name \in served \ {"getStruct"}
                        /\ \E n \in Results(kind, m) :
                              /\ r = Value(n)
                              /\ logSeen' = IF m.name = "calculate"
                                            THEN [logSeen EXCEPT ![s][m.key] = n] ELSE logSeen
                     \/ /\ m.name \in served \ {"getStruct"} /\ Results(kind, m) = {}
                        /\ r = Ouch /\ UNCHANGED logSeen
                     \/ /\ m.name \in served \intersect {"getStruct"}
                        /\ r = IF logSeen[s][m.key] = Absent THEN MissingEntry(kind)
                               ELSE Value(logSeen[s][m.key])
                        /\ UNCHANGED logSeen

Returns(c) ==
    /\ UNCHANGED <<kind, served>> /\ UNCHANGED <<joinedSeen, logSeen>>
    /\ replySeen[c] # NoReply
    /\ callSeen' = [callSeen EXCEPT ![c] = NoCall]
    /\ replySeen' = [replySeen EXCEPT ![c] = NoReply]

Fails(cs) ==
    /\ UNCHANGED <<kind, served>> /\ UNCHANGED logSeen
    /\ callSeen' = [c \in Conns |-> IF c \in cs THEN NoCall ELSE callSeen[c]]
    /\ replySeen' = [c \in Conns |-> IF c \in cs THEN NoReply ELSE replySeen[c]]
    /\ joinedSeen' = joinedSeen \ cs

Forgets(c) ==
    /\ UNCHANGED <<kind, served>> /\ UNCHANGED <<joinedSeen, callSeen, replySeen>>
    /\ kind # "python"
    /\ c \notin joinedSeen
    /\ logSeen' = [logSeen EXCEPT ![c] = [k \in Keys |-> Absent]]

LEMMA SeesStutter == ASSUME Stutters PROVE UNCHANGED Service!vars
  BY DEF Stutters, seen, joinedSeen, callSeen, replySeen, logSeen, Joined, Called, Replied,
         Logged, Service!vars

LEMMA SeesCaller ==
    ASSUME NEW c \in Conns,
           Joins(c) \/ Leaves(c) \/ (\E m \in Calls : Invokes(c, m)) \/ Returns(c)
    PROVE  Service!Next
<1> USE DEF joinedSeen, callSeen, replySeen, logSeen, Joined, Called, Replied, Logged
<1>1. CASE Joins(c)
  BY <1>1 DEF Joins, Service!Join, Service!Next
<1>2. CASE Leaves(c)
  BY <1>2 DEF Leaves, Service!Leave, Service!Next
<1>3. ASSUME NEW m \in Calls, Invokes(c, m) PROVE Service!Next
  BY <1>3 DEF Invokes, Service!Invoke, Service!Next
<1>4. CASE Returns(c)
  BY <1>4 DEF Returns, Service!Return, Service!Next
<1> QED
  BY <1>1, <1>2, <1>3, <1>4

LEMMA SeesEffect == ASSUME NEW c \in Conns, TakesEffect(c) PROVE Service!Next
<1> USE DEF joinedSeen, callSeen, replySeen, logSeen, Joined, Called, Replied, Logged
<1>1. Service!Scope(c) = Scope(c)
  BY DEF Scope, Service!Scope
<1>2. Service!TakeEffect(c)
  BY <1>1 DEF TakesEffect, Service!TakeEffect, Service!Answer
<1> QED
  BY <1>2 DEF TakesEffect, Service!Next

LEMMA SeesFailure == ASSUME NEW cs \in SUBSET joinedSeen, Fails(cs) PROVE Service!Next
  BY DEF joinedSeen, callSeen, replySeen, logSeen, Joined, Called, Replied, Logged,
         Fails, Service!Fail, Service!Next

LEMMA SeesForget == ASSUME NEW c \in Conns, Forgets(c) PROVE Service!Next
<1> USE DEF joinedSeen, callSeen, replySeen, logSeen, Joined, Called, Replied, Logged
<1>1. \A d \in joinedSeen : Service!Scope(d) # c
  BY DEF Forgets, Service!Scope
<1>2. Service!Forget(c)
  BY <1>1 DEF Forgets, Service!Forget
<1>3. c \in Scopes
  BY DEF Scopes
<1> QED
  BY <1>2, <1>3 DEF Forgets, Service!Next

(* What a step of one connection does to what is seen.                     *)
SeenSame(d) ==
    (Joined(d)' <=> Joined(d)) /\ Called(d)' = Called(d) /\ Replied(d)' = Replied(d)

LEMMA OthersSeen == ASSUME NEW d \in Conns, Same(d) PROVE SeenSame(d)
  BY DEF Same, SeenSame, Joined, Called, Replied, Gone

LEMMA SeenAt ==
    ASSUME NEW c \in Conns, \A d \in Conns \ {c} : SeenSame(d)
    PROVE  /\ joinedSeen' = IF Joined(c)' THEN joinedSeen \union {c} ELSE joinedSeen \ {c}
           /\ callSeen' = [callSeen EXCEPT ![c] = Called(c)']
           /\ replySeen' = [replySeen EXCEPT ![c] = Replied(c)']
           /\ (c \in joinedSeen <=> Joined(c)) /\ callSeen[c] = Called(c)
           /\ replySeen[c] = Replied(c)
           /\ Called(c)' = Called(c) => callSeen' = callSeen
           /\ Replied(c)' = Replied(c) => replySeen' = replySeen
           /\ (Joined(c)' <=> Joined(c)) => joinedSeen' = joinedSeen
<1>1. joinedSeen' = IF Joined(c)' THEN joinedSeen \union {c} ELSE joinedSeen \ {c}
  BY DEF joinedSeen, SeenSame
<1>2. callSeen' = [callSeen EXCEPT ![c] = Called(c)']
  BY DEF callSeen, SeenSame
<1>3. replySeen' = [replySeen EXCEPT ![c] = Replied(c)']
  BY DEF replySeen, SeenSame
<1>4. /\ Called(c)' = Called(c) => callSeen' = callSeen
      /\ Replied(c)' = Replied(c) => replySeen' = replySeen
      /\ (Joined(c)' <=> Joined(c)) => joinedSeen' = joinedSeen
  BY DEF joinedSeen, callSeen, replySeen, SeenSame
<1> QED
  BY <1>1, <1>2, <1>3, <1>4 DEF joinedSeen, callSeen, replySeen

(* A step that leaves what is seen of every connection alone.              *)
LEMMA SeenNowhere ==
    ASSUME \A d \in Conns : SeenSame(d)
    PROVE  UNCHANGED <<joinedSeen, callSeen, replySeen>>
<1>1. joinedSeen' = joinedSeen
  BY DEF joinedSeen, SeenSame
<1>2. callSeen' = callSeen /\ replySeen' = replySeen
  BY DEF callSeen, replySeen, SeenSame
<1> QED
  BY <1>1, <1>2

LEMMA ClientSeen ==
    ASSUME TypeInv, InOrder, NEW c \in Conns, Caller(c) \/ Await(c)
    PROVE  Stutters \/ Joins(c) \/ Leaves(c) \/ (\E m \in Calls : Invokes(c, m)) \/ Returns(c)
<1> USE DEF TypeInv, Typed, serverSide
<1>1. UNCHANGED <<kind, served, log, out>> /\ Matched(c)
  BY DEF Caller, Await, Open, Send, Receive, Resume, ReceiveEof, CloseClient
<1>2. logSeen' = logSeen
  BY <1>1 DEF logSeen, Logged
<1>3. \A d \in Conns \ {c} : SeenSame(d)
  BY OthersSame, OthersSeen
<1>4. SeenSame(c) => Stutters
  BY <1>1, <1>2, <1>3, SeenNowhere DEF Stutters, seen
<1>5. CASE Open(c)
  <2>1. Joined(c)' /\ ~Joined(c)
    BY <1>5 DEF Open, Joined, Gone
  <2>2. /\ Called(c) = NoCall /\ Called(c)' = NoCall
        /\ Replied(c) = NoReply /\ Replied(c)' = NoReply
    BY <1>1, <1>5 DEF Open, Called, Replied, Gone, Matched
  <2> QED
    BY <1>1, <1>2, <1>3, <2>1, <2>2, SeenAt DEF Joins
<1>6. ASSUME NEW m \in Calls, Send(c, m)
      PROVE  Stutters \/ Leaves(c) \/ Invokes(c, m)
  <2>1. /\ client[c] = "idle" /\ call[c] = NoCall /\ answer[c] = NoReply
        /\ UNCHANGED <<answer, replies, server>>
    BY <1>1, <1>6 DEF Send, Matched
  <2>2. Called(c) = NoCall /\ Replied(c) = NoReply
    BY <2>1 DEF Called, Replied
  <2>3. CASE strayed[c]
    <3>1. strayed'[c]
      BY <1>6, <2>3 DEF Send
    <3>2. SeenSame(c)
      BY <2>3, <3>1, <2>2 DEF SeenSame, Joined, Called, Replied, Gone
    <3> QED
      BY <1>4, <3>2
  <2>4. CASE ~strayed[c] /\ m.name = "zip"
    <3>1. UNCHANGED <<client, call>>
      BY <1>6, <2>4 DEF Send
    <3>2. Called(c)' = NoCall /\ Replied(c)' = NoReply
      BY <2>1, <3>1 DEF Called, Replied
    <3>3. Joined(c)' => Joined(c)
      BY <2>1, <2>4, <3>1 DEF Joined, Gone
    <3>4. CASE Joined(c)'
      BY <1>4, <2>2, <3>2, <3>3, <3>4 DEF SeenSame
    <3>5. CASE ~Joined(c)'
      BY <1>1, <1>2, <1>3, <2>2, <3>2, <3>5, SeenAt DEF Leaves
    <3> QED
      BY <3>4, <3>5
  <2>5. CASE ~strayed[c] /\ m.name # "zip"
    <3>1. /\ client'[c] = "waiting" /\ call'[c] = m /\ ~strayed'[c]
          /\ replies[c] = <<>> /\ out[c] = NoReply
      <4>1. client' = [client EXCEPT ![c] = "waiting"] /\ call' = [call EXCEPT ![c] = m]
            /\ UNCHANGED strayed
        BY <1>6, <2>5 DEF Send
      <4> QED
        BY <2>1, <2>5, <4>1 DEF InOrder, InStep, Quiet
    <3>2. Replied(c)' = NoReply /\ Joined(c)
      BY <1>1, <2>1, <2>5, <3>1 DEF Replied, Joined, Gone
    <3>3. CASE server[c] = "none"
      <4>1. ~Joined(c)' /\ Called(c)' = NoCall
        BY <1>1, <2>1, <3>1, <3>3 DEF Joined, Called, Gone
      <4> QED
        BY <1>1, <1>2, <1>3, <2>2, <3>2, <4>1, SeenAt DEF Leaves
    <3>4. CASE server[c] # "none"
      <4>1. Joined(c)' /\ Called(c)' = m
        BY <1>1, <2>1, <3>1, <3>4 DEF Joined, Called, Gone
      <4> QED
        BY <1>1, <1>2, <1>3, <2>2, <2>5, <3>2, <4>1, SeenAt DEF Invokes
    <3> QED
      BY <3>3, <3>4
  <2> QED
    BY <2>3, <2>4, <2>5
<1>7. CASE Receive(c)
  <2>1. SeenSame(c)
    BY <1>1, <1>7, ValueAssumption
       DEF Receive, Matched, SeenSame, Joined, Called, Replied, Gone
  <2> QED
    BY <1>4, <2>1
<1>8. CASE Resume(c)
  <2>1. CASE strayed[c]
    BY <1>1, <1>4, <1>8, <2>1 DEF Resume, SeenSame, Joined, Called, Replied, Gone
  <2>2. CASE ~strayed[c]
    <3>1. Replied(c) = answer[c].reply /\ answer[c] \in Answers
      BY <1>1, <1>8, <2>2 DEF Resume, Matched, Replied, Gone
    <3>2. Replied(c) # NoReply
      BY <3>1, ValueAssumption DEF Answers
    <3>3. Called(c)' = NoCall /\ Replied(c)' = NoReply /\ Joined(c)' /\ Joined(c)
      BY <1>1, <1>8, <2>2 DEF Resume, Matched, Replied, Called, Joined, Gone
    <3> QED
      BY <1>1, <1>2, <1>3, <3>2, <3>3, SeenAt DEF Returns
  <2> QED
    BY <2>1, <2>2
<1>9. CASE ReceiveEof(c)
  <2>1. Gone(c)
    BY <1>9 DEF ReceiveEof, Gone, InOrder, InStep
  <2>2. SeenSame(c)
    BY <1>1, <1>9, <2>1 DEF ReceiveEof, SeenSame, Joined, Called, Replied
  <2> QED
    BY <1>4, <2>2
<1>10. CASE CloseClient(c)
  <2>1. /\ ~Joined(c)' /\ Called(c) = NoCall /\ Called(c)' = NoCall
        /\ Replied(c) = NoReply /\ Replied(c)' = NoReply
    BY <1>1, <1>10 DEF CloseClient, Matched, Joined, Called, Replied
  <2> QED
    BY <1>1, <1>2, <1>3, <2>1, SeenAt DEF Leaves
<1> QED
  BY <1>5, <1>6, <1>7, <1>8, <1>9, <1>10 DEF Caller, Await

(* What the service sees of the logs: an entry that is written, and not    *)
(* one that a lookup leaves.                                               *)
LEMMA LogSame == ASSUME log' = log PROVE logSeen' = logSeen
  BY DEF logSeen, Logged

LEMMA LogInserted ==
    ASSUME Typed, NEW s \in Scopes, NEW k \in Keys, log[s][k] = Absent,
           log' = [log EXCEPT ![s] = [log[s] EXCEPT ![k] = Default]]
    PROVE  logSeen' = logSeen
<1>1. \A t \in Scopes, j \in Keys : Logged(t, j)' = Logged(t, j)
  BY DEF Logged, Typed
<1> QED
  BY <1>1 DEF logSeen

LEMMA EffectSeen ==
    ASSUME TypeInv, NEW s \in Scopes, NEW m \in Calls, m.name # "zip",
           NEW e \in Effect(m, log[s]), log' = [log EXCEPT ![s] = e.log]
    PROVE  \/ m.name \notin served /\ e.reply = Exception /\ UNCHANGED logSeen
           \/ /\ m.name \in served \ {"getStruct"}
              /\ \E n \in Results(kind, m) :
                    /\ e.reply = Value(n)
                    /\ logSeen' = IF m.name = "calculate"
                                  THEN [logSeen EXCEPT ![s][m.key] = n] ELSE logSeen
           \/ /\ m.name \in served \ {"getStruct"} /\ Results(kind, m) = {}
              /\ e.reply = Ouch /\ UNCHANGED logSeen
           \/ /\ m.name \in served \intersect {"getStruct"}
              /\ e.reply = IF logSeen[s][m.key] = Absent THEN MissingEntry(kind)
                           ELSE Value(logSeen[s][m.key])
              /\ UNCHANGED logSeen
<1>1. \A r, g : Pair(r, g).reply = r /\ Pair(r, g).log = g
  BY DEF Pair
<1>2. log[s] \in [Keys -> Entries] /\ e.log = log[s] => log' = log
  BY DEF TypeInv, Typed
<1>3. CASE m.name \notin served
  <2>1. e.reply = Exception /\ e.log = log[s]
    BY <1>1, <1>3 DEF Effect
  <2> QED
    BY <1>2, <1>3, <2>1, LogSame DEF TypeInv, Typed
<1>4. CASE m.name \in served /\ m.name = "ping"
  <2>1. e.reply = Value(0) /\ e.log = log[s]
    BY <1>1, <1>4 DEF Effect
  <2>2. 0 \in Results(kind, m)
    BY <1>4 DEF Results
  <2> QED
    BY <1>2, <1>4, <2>1, <2>2, LogSame DEF TypeInv, Typed
<1>5. CASE m.name \in served /\ m.name = "add"
  <2>1. PICK n \in Outcomes(kind, m.work) : e.reply = Value(n) /\ e.log = log[s]
    BY <1>1, <1>5 DEF Effect
  <2>2. n \in Results(kind, m)
    BY <1>5, CallFacts DEF Results, Invalid
  <2> QED
    BY <1>2, <1>5, <2>1, <2>2, LogSame DEF TypeInv, Typed
<1>6. CASE m.name \in served /\ m.name = "calculate" /\ ~Invalid(m.work)
  <2>1. PICK n \in Outcomes(kind, m.work) :
            e.reply = Value(n) /\ e.log = [log[s] EXCEPT ![m.key] = n]
    BY <1>1, <1>6 DEF Effect, Calculate
  <2>2. n \in Int /\ m.key \in Keys
    BY <1>6, OutcomesRight, CallFacts DEF TypeInv, Typed
  <2>3. logSeen' = [logSeen EXCEPT ![s][m.key] = n]
    <3>1. PICK k \in Keys : k = m.key
      BY <2>2
    <3>2. Typed /\ log' = [log EXCEPT ![s] = [log[s] EXCEPT ![k] = n]]
      BY <2>1, <3>1 DEF TypeInv
    <3>3. n # Default
      BY <2>2, RpcAssumption
    <3>4. \A t \in Scopes, j \in Keys :
              log'[t][j] = IF t = s /\ j = k THEN n ELSE log[t][j]
      BY <3>2 DEF Typed
    <3>5. \A t \in Scopes, j \in Keys :
              Logged(t, j)' = IF t = s /\ j = k THEN n ELSE Logged(t, j)
      BY <3>3, <3>4 DEF Logged
    <3> QED
      BY <3>1, <3>5 DEF logSeen
  <2>4. n \in Results(kind, m)
    BY <1>6 DEF Results
  <2> QED
    BY <1>6, <2>1, <2>3, <2>4
<1>7. CASE m.name \in served /\ m.name = "calculate" /\ Invalid(m.work)
  <2>1. e.reply = Ouch /\ e.log = log[s]
    BY <1>1, <1>7 DEF Effect, Calculate
  <2>2. Results(kind, m) = {}
    BY <1>7 DEF Results
  <2> QED
    BY <1>2, <1>7, <2>1, <2>2, LogSame DEF TypeInv, Typed
<1>8. CASE m.name \in served /\ m.name = "getStruct"
  <2>1. e \in GetStruct(m, log[s]) /\ m.key \in Keys
    BY <1>8, CallFacts DEF Effect
  <2>2. logSeen[s][m.key] = Logged(s, m.key)
    BY <2>1 DEF logSeen
  <2>3. CASE log[s][m.key] # Absent
    <3>1. e.reply = Value(log[s][m.key]) /\ e.log = log[s]
      BY <1>1, <2>1, <2>3 DEF GetStruct
    <3>2. log[s][m.key] = Default => kind # "python"
      BY <2>1 DEF TypeInv, Inserted
    <3>3. e.reply = IF Logged(s, m.key) = Absent THEN MissingEntry(kind)
                    ELSE Value(Logged(s, m.key))
      BY <2>3, <3>1, <3>2 DEF Logged, MissingEntry
    <3> QED
      BY <1>2, <1>8, <2>2, <3>1, <3>3, LogSame DEF TypeInv, Typed
  <2>4. CASE log[s][m.key] = Absent
    <3>1. Logged(s, m.key) = Absent
      BY <2>4, ValueAssumption DEF Logged
    <3>2. CASE kind = "python"
      <4>1. e.reply = Exception /\ e.log = log[s]
        BY <1>1, <2>1, <2>4, <3>2 DEF GetStruct
      <4> QED
        BY <1>2, <1>8, <2>2, <3>1, <3>2, <4>1, LogSame DEF TypeInv, Typed, MissingEntry
    <3>3. CASE kind # "python"
      <4>1. e.reply = Value(Default) /\ e.log = [log[s] EXCEPT ![m.key] = Default]
        BY <1>1, <2>1, <2>4, <3>3 DEF GetStruct
      <4>2. logSeen' = logSeen
        BY <2>1, <2>4, <4>1, LogInserted DEF TypeInv
      <4> QED
        BY <1>8, <2>2, <3>1, <3>3, <4>1, <4>2 DEF MissingEntry
    <3> QED
      BY <3>2, <3>3
  <2> QED
    BY <2>3, <2>4
<1> QED
  BY <1>3, <1>4, <1>5, <1>6, <1>7, <1>8, CallFacts

LEMMA ProcessSeen ==
    ASSUME TypeInv, InOrder, NEW c \in Conns, Process(c), UNCHANGED <<kind, served>>
    PROVE  Stutters \/ TakesEffect(c)
<1>1. /\ UNCHANGED <<kind, served, client, call, answer, made, strayed, replies>>
      /\ server[c] = "ready" /\ Matched(c) /\ out[c] = NoReply
  BY DEF Process, clientSide, TypeInv, Matched
<1>2. PICK m \in Calls, n \in Nat : \E e \in Effect(m, log[Scope(c)]) : Handled(c, m, n, e)
  BY ProcessFacts
<1>3. PICK e \in Effect(m, log[Scope(c)]) : Handled(c, m, n, e)
  BY <1>2
<1>4. PICK s \in Scopes : s = Scope(c) /\ s = Scope(c)'
  BY <1>1, <1>3 DEF Handled, Scope
<1>5. log' = [log EXCEPT ![s] = e.log] /\ e \in Effect(m, log[s])
  BY <1>3, <1>4 DEF Handled
<1>6. \A d \in Conns \ {c} : SeenSame(d)
  <2> SUFFICES ASSUME NEW d \in Conns \ {c} PROVE Same(d)
    BY OthersSeen
  <2> QED
    BY <1>1 DEF Process, Same, TypeInv, Typed
<1>7. CASE strayed[c]
  <2>1. SeenSame(c)
    BY <1>1, <1>7 DEF SeenSame, Joined, Called, Replied, Gone
  <2>2. "calculate" \notin served
    BY <1>1, <1>7, ValueAssumption DEF Matched, TypeInv, Typed
  <2>3. logSeen' = logSeen
    <3>1. CASE m.name = "zip"
      <4>1. e.log = log[s]
        BY <1>5, <3>1 DEF Effect, Pair
      <4> QED
        BY <1>5, <4>1, LogSame DEF TypeInv, Typed
    <3>2. CASE m.name # "zip"
      BY <1>5, <2>2, <3>2, EffectSeen
    <3> QED
      BY <3>1, <3>2
  <2> QED
    BY <1>1, <1>6, <2>1, <2>3, SeenNowhere DEF Stutters, seen
<1>8. CASE ~strayed[c] /\ m.name = "zip" /\ "zip" \in served
  <2>1. UNCHANGED <<server, out>>
    BY <1>3, <1>8 DEF Handled
  <2>2. SeenSame(c)
    BY <1>1, <2>1 DEF SeenSame, Joined, Called, Replied, Gone
  <2>3. e.log = log[s]
    BY <1>5, <1>8 DEF Effect, Pair
  <2>4. logSeen' = logSeen
    BY <1>5, <2>3, LogSame DEF TypeInv, Typed
  <2> QED
    BY <1>1, <1>6, <2>2, <2>4, SeenNowhere DEF Stutters, seen
<1>9. CASE /\ ~strayed[c] /\ client[c] = "waiting" /\ m = call[c] /\ m.name # "zip"
           /\ replies[c] = <<>>
  <2>1. /\ out'[c] = Message(m, n, e.reply) /\ out'[c] # NoReply /\ server'[c] = "replying"
        /\ out'[c].reply = e.reply
    BY <1>3, <1>9, ValueAssumption DEF Handled, Message, TypeInv, Typed
  <2>2. /\ Joined(c) /\ Joined(c)' /\ Called(c) = m /\ Called(c)' = m /\ m # NoCall
        /\ Replied(c) = NoReply /\ Replied(c)' = e.reply
    BY <1>1, <1>9, <2>1, ValueAssumption DEF Matched, Joined, Called, Replied, Gone
  <2>3. /\ UNCHANGED <<joinedSeen, callSeen>> /\ callSeen[c] = m
        /\ replySeen' = [replySeen EXCEPT ![c] = e.reply] /\ replySeen[c] = NoReply
    BY <1>6, <2>2, SeenAt
  <2> DEFINE r == e.reply
  <2>4. \/ m.name \notin served /\ r = Exception /\ UNCHANGED logSeen
        \/ /\ m.name \in served \ {"getStruct"}
           /\ \E k \in Results(kind, m) :
                 /\ r = Value(k)
                 /\ logSeen' = IF m.name = "calculate"
                               THEN [logSeen EXCEPT ![s][m.key] = k] ELSE logSeen
        \/ /\ m.name \in served \ {"getStruct"} /\ Results(kind, m) = {}
           /\ r = Ouch /\ UNCHANGED logSeen
        \/ /\ m.name \in served \intersect {"getStruct"}
           /\ r = IF logSeen[s][m.key] = Absent THEN MissingEntry(kind)
                  ELSE Value(logSeen[s][m.key])
           /\ UNCHANGED logSeen
    BY <1>5, <1>9, EffectSeen
  <2> HIDE DEF r
  <2> QED
    BY <1>1, <1>4, <2>2, <2>3, <2>4 DEF TakesEffect, r
<1> QED
  BY <1>1, <1>3, <1>7, <1>8, <1>9, HeadFacts DEF Handled, InOrder

LEMMA ServerSeen ==
    ASSUME TypeInv, InOrder, NEW c \in Conns, Reply(c) \/ ReplyFails(c) \/ EndOfStream(c),
           UNCHANGED <<kind, served>>
    PROVE  Stutters \/ (Fails({c}) /\ c \in joinedSeen) \/ Forgets(c)
<1> USE DEF TypeInv, Typed, clientSide
<1>1. /\ UNCHANGED <<kind, served, client, call, answer, made, strayed, requests>>
      /\ Matched(c)
  BY DEF Reply, ReplyFails, EndOfStream
<1>2. \A d \in Conns \ {c} : SeenSame(d)
  BY OthersSame, OthersSeen DEF Serve, Reply, ReplyFails, EndOfStream, Trap
<1>3. SeenSame(c) /\ logSeen' = logSeen => Stutters
  BY <1>1, <1>2, SeenNowhere DEF Stutters, seen
<1>4. CASE Reply(c) \/ ReplyFails(c)
  <2>1. out[c] # NoReply /\ out[c] \in Answers /\ logSeen' = logSeen
    BY <1>1, <1>4, LogSame DEF Matched, Reply, ReplyFails
  <2>2. CASE strayed[c]
    BY <1>1, <1>3, <2>1, <2>2 DEF SeenSame, Joined, Called, Replied, Gone
  <2>3. CASE ~strayed[c]
    <3>1. client[c] = "waiting" /\ replies[c] = <<>> /\ answer[c] = NoReply
      BY <1>1, <2>1, <2>3
         DEF InOrder, InStep, Quiet, Waiting, Asked, InHand, OnItsWay, Lost, Matched
    <3>2. CASE Reply(c)
      <4>1. /\ replies'[c] = Append(<<>>, out[c]) /\ server[c] = "replying"
            /\ server'[c] = "ready"
        BY <3>1, <3>2 DEF Reply
      <4>2. replies'[c] # <<>> /\ Head(replies'[c]) = out[c]
        BY <4>1
      <4>3. SeenSame(c)
        BY <1>1, <2>1, <2>3, <3>1, <4>1, <4>2 DEF SeenSame, Joined, Called, Replied, Gone
      <4> QED
        BY <1>3, <2>1, <4>3
    <3>3. CASE ReplyFails(c)
      <4>1. /\ Joined(c) /\ ~Joined(c)' /\ Called(c)' = NoCall /\ Replied(c)' = NoReply
        BY <1>1, <2>3, <3>1, <3>3 DEF ReplyFails, Joined, Called, Replied, Gone
      <4>2. /\ joinedSeen' = joinedSeen \ {c} /\ c \in joinedSeen
            /\ callSeen' = [callSeen EXCEPT ![c] = NoCall]
            /\ replySeen' = [replySeen EXCEPT ![c] = NoReply]
        BY <1>2, <4>1, SeenAt
      <4> QED
        BY <1>1, <2>1, <4>2 DEF Fails, callSeen, replySeen
    <3> QED
      BY <1>4, <3>2, <3>3
  <2> QED
    BY <2>2, <2>3
<1>5. CASE EndOfStream(c)
  <2>1. SeenSame(c) /\ ~Joined(c)
    BY <1>1, <1>5 DEF EndOfStream, Matched, SeenSame, Joined, Called, Replied, Gone
  <2>2. CASE kind = "python"
    BY <1>3, <1>5, <2>1, <2>2, LogSame DEF EndOfStream
  <2>3. CASE kind # "python"
    <3>1. c \in Scopes /\ log' = [log EXCEPT ![c] = EmptyLog]
      BY <1>5, <2>3 DEF EndOfStream, Scope, Scopes
    <3>2. \A t \in Scopes, j \in Keys :
              Logged(t, j)' = IF t = c THEN Absent ELSE Logged(t, j)
      BY <3>1, ValueAssumption DEF Logged, EmptyLog
    <3>3. logSeen' = [logSeen EXCEPT ![c] = [k \in Keys |-> Absent]]
      BY <3>1, <3>2 DEF logSeen
    <3>4. UNCHANGED <<joinedSeen, callSeen, replySeen>> /\ c \notin joinedSeen
      BY <1>2, <2>1, SeenNowhere DEF joinedSeen
    <3> QED
      BY <1>1, <2>3, <3>3, <3>4 DEF Forgets
  <2> QED
    BY <2>2, <2>3
<1> QED
  BY <1>4, <1>5

LEMMA TrapSeen ==
    ASSUME TypeInv, InOrder, NEW c \in Conns, Trap(c), UNCHANGED <<kind, served>>
    PROVE  \E cs \in SUBSET joinedSeen : Fails(cs)
<1> USE DEF TypeInv, Typed, clientSide
<1>1. /\ UNCHANGED <<kind, served, client, call, answer, made, strayed, requests, replies, log>>
      /\ server' = [d \in Conns |-> "none"] /\ out' = [d \in Conns |-> NoReply]
  BY DEF Trap
<1> DEFINE cs == {d \in joinedSeen : d \notin joinedSeen'}
<1>2. ASSUME NEW d \in Conns
      PROVE  /\ Joined(d)' => Joined(d) /\ Called(d)' = Called(d) /\ Replied(d)' = Replied(d)
             /\ ~Joined(d)' => Called(d)' = NoCall /\ Replied(d)' = NoReply
             /\ ~Joined(d) => Called(d) = NoCall /\ Replied(d) = NoReply
  <2>1. Matched(d)
    OBVIOUS
  <2>2. Gone(d) => Gone(d)'
    BY <1>1 DEF Gone
  <2>3. /\ ~Joined(d)' => Called(d)' = NoCall /\ Replied(d)' = NoReply
        /\ ~Joined(d) => Called(d) = NoCall /\ Replied(d) = NoReply
    BY <1>1, <2>1 DEF Matched, Joined, Called, Replied
  <2>4. ASSUME Joined(d)'
        PROVE  Joined(d) /\ Called(d)' = Called(d) /\ Replied(d)' = Replied(d)
    <3>1. Joined(d) /\ ~Gone(d) /\ ~Gone(d)'
      BY <1>1, <2>2, <2>4 DEF Joined
    <3>2. call[d] = NoCall \/ answer[d] # NoReply \/ replies[d] # <<>>
      BY <1>1, <2>1, <3>1 DEF Matched, Gone
    <3> QED
      BY <1>1, <3>1, <3>2 DEF Called, Replied
  <2> QED
    BY <2>3, <2>4
<1>3. joinedSeen' = joinedSeen \ cs /\ cs \in SUBSET joinedSeen
  BY <1>2 DEF joinedSeen
<1>4. \A d \in Conns : (d \in cs <=> Joined(d) /\ ~Joined(d)')
  BY DEF joinedSeen
<1>5. \A d \in Conns : /\ Called(d)' = IF d \in cs THEN NoCall ELSE Called(d)
                       /\ Replied(d)' = IF d \in cs THEN NoReply ELSE Replied(d)
  BY <1>2, <1>4
<1> HIDE DEF cs
<1>6. /\ callSeen' = [d \in Conns |-> IF d \in cs THEN NoCall ELSE callSeen[d]]
      /\ replySeen' = [d \in Conns |-> IF d \in cs THEN NoReply ELSE replySeen[d]]
  BY <1>5 DEF callSeen, replySeen
<1>7. Fails(cs)
  BY <1>1, <1>3, <1>6, LogSame DEF Fails
<1> QED
  BY <1>3, <1>7

(* Both servers implement the service, step by step: whatever their        *)
(* threads are at, a call takes effect once, between its beginning and its *)
(* end, on the log of its scope, or fails with its connection.  For any    *)
(* number of connections, calls and logids and integers of any width.      *)
THEOREM CalculatorImplementsService == Spec => ServiceSpec
<1>1. Init => Service!Init
  BY SeesInit
<1>2. TypeInv /\ InOrder /\ [Next]_vars => [Service!Next]_(Service!vars)
  <2> SUFFICES ASSUME TypeInv, InOrder, [Next]_vars
               PROVE  Service!Next \/ UNCHANGED Service!vars
    OBVIOUS
  <2>1. CASE UNCHANGED vars
    <3>1. \A d \in Conns : SeenSame(d)
      BY <2>1, OthersSeen DEF vars, Same
    <3>2. Stutters
      BY <2>1, <3>1, SeenNowhere, LogSame DEF vars, Stutters, seen
    <3> QED
      BY <3>2, SeesStutter
  <2>2. ASSUME NEW c \in Conns, Caller(c) \/ Await(c)
        PROVE  Service!Next \/ UNCHANGED Service!vars
    BY <2>2, ClientSeen, SeesCaller, SeesStutter
  <2>3. ASSUME NEW c \in Conns, Serve(c)
        PROVE  Service!Next \/ UNCHANGED Service!vars
    <3>1. UNCHANGED <<kind, served>>
      BY <2>3 DEF Serve
    <3>2. CASE Process(c)
      BY <3>1, <3>2, ProcessSeen, SeesEffect, SeesStutter
    <3>3. CASE Trap(c)
      BY <3>1, <3>3, TrapSeen, SeesFailure
    <3>4. CASE Reply(c) \/ ReplyFails(c) \/ EndOfStream(c)
      <4>1. c \in joinedSeen => {c} \in SUBSET joinedSeen
        OBVIOUS
      <4> QED
        BY <3>1, <3>4, <4>1, ServerSeen, SeesFailure, SeesForget, SeesStutter
    <3> QED
      BY <2>3, <3>2, <3>3, <3>4 DEF Serve
  <2> QED
    BY <2>1, <2>2, <2>3 DEF Next
<1> QED
  BY <1>1, <1>2, TypeKept, OrderKept, PTL DEF Spec, ServiceSpec, Service!Spec

=============================================================================
