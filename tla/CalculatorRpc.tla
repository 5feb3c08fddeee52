--------------------------- MODULE CalculatorRpc ---------------------------
(***************************************************************************)
(* The calculator of tutorial/: CalculatorClient and CalculatorProcessor   *)
(* (gen-cpp/Calculator.cpp, SharedService.cpp), the handler of server.cpp  *)
(* with one log per connection, and that of py-server.py with one log for  *)
(* all.  Each connection is an ordered byte stream in both directions, at  *)
(* its ends one client thread and one server thread (TThreadedServer); a   *)
(* message is a record, and what is in it is the subject of ThriftStruct.  *)
(*                                                                         *)
(* Threads of the server interleave between reading a request, running the *)
(* handler on it and writing the reply.                                    *)
(***************************************************************************)
EXTENDS Integers, Sequences

CONSTANTS
    Conns,      (* connections, each at one time at most once open         *)
    Kinds,      (* the servers there are, of "cpp" and "python"            *)
    MethodSets, (* the sets of methods a processor may know                *)
    Keys,       (* logids                                                  *)
    Works,      (* what clients ask for: [op, a, b]                        *)
    MinInt, MaxInt,       (* the range of an i32                           *)
    MaxCalls,             (* bound on the calls of one connection          *)
    Absent,               (* no entry in the log                           *)
    Default,              (* the SharedStruct() that log[logid] inserts    *)
    NoCall, NoReply

Int32 == MinInt..MaxInt

ASSUME RpcAssumption ==
    /\ MinInt \in Int /\ MaxInt \in Int /\ MinInt <= 0 /\ MaxInt > 0
    /\ Kinds \subseteq {"cpp", "python"}
    /\ \A w \in Works : w.a \in Int32 /\ w.b \in Int32
    /\ MaxCalls \in Nat
    /\ {Absent, Default, NoCall, NoReply} \cap Int = {}

Call(name, key, w) == [name |-> name, key |-> key, work |-> w]
NoWork == [op |-> "none", a |-> 0, b |-> 0]

Calls ==
    {Call("ping", 0, NoWork), Call("zip", 0, NoWork)}
    \union {Call("add", 0, w) : w \in {v \in Works : v.op = "ADD"}}
    \union {Call("calculate", k, w) : k \in Keys, w \in Works}
    \union {Call("getStruct", k, NoWork) : k \in Keys}

(* The replies there are, and what is none.                                *)
Bodies ==
    [type : {"REPLY", "EXCEPTION"}, field : {"success", "ouch", "none"},
     val : Int \union {Default}]
Answers == [name : {m.name : m \in Calls}, of : Nat, reply : Bodies]

(* A processor that knows calculate is CalculatorProcessor and knows zip.  *)
ASSUME ValueAssumption ==
    /\ Absent # Default /\ NoCall \notin Calls /\ NoReply \notin Bodies \union Answers
    /\ \A s \in MethodSets : "calculate" \in s => "zip" \in s

-----------------------------------------------------------------------------
(* Arithmetic of the handlers, by the kind k of the server.                *)
Abs(n) == IF n < 0 THEN -n ELSE n

(* C++ truncates towards zero, Python 2 rounds down.                       *)
Quotient(k, a, b) ==
    LET q == Abs(a) \div Abs(b)
    IN  IF (a < 0) = (b < 0) THEN q
        ELSE IF k = "python" /\ q * Abs(b) # Abs(a) THEN -q - 1 ELSE -q

Exact(k, w) ==
    IF w.op = "ADD" THEN w.a + w.b
    ELSE IF w.op = "SUBTRACT" THEN w.a - w.b
    ELSE IF w.op = "MULTIPLY" THEN w.a * w.b
    ELSE Quotient(k, w.a, w.b)

(* An int32_t that overflows is undefined in C++: any value comes out.  In *)
(* Python numbers do not overflow.                                         *)
Outcomes(k, w) ==
    IF k = "python" \/ Exact(k, w) \in Int32 THEN {Exact(k, w)} ELSE Int32

(* And INT_MIN / -1 can trap: the process is gone.                         *)
MayTrap(k, w) ==
    k = "cpp" /\ w.op = "DIVIDE" /\ w.b # 0 /\ Exact(k, w) \notin Int32

Invalid(w) ==
    \/ w.op \notin {"ADD", "SUBTRACT", "MULTIPLY", "DIVIDE"}
    \/ w.op = "DIVIDE" /\ w.b = 0

-----------------------------------------------------------------------------
VARIABLES
    kind,     (* the server                                                *)
    served,   (* the methods its processor knows                           *)
    client,   (* "closed", "idle", "waiting", "returned", "threw", or      *)
              (* "garbled" once it reads a message in the wrong place      *)
    call,     (* the call the client is in, or NoCall                      *)
    answer,   (* what it got, or NoReply                                   *)
    made,     (* the number of calls on the connection; a ghost in         *)
              (* messages tells which call they belong to                  *)
    requests, replies,    (* the two directions of the connection          *)
    server,   (* its thread: "none", "ready", "replying"                   *)
    out,      (* the reply it is about to write                            *)
    log,      (* the handlers' logs                                        *)
    up,       (* the server process                                        *)
    strayed   (* history: the client sent a oneway call the server does    *)
              (* not know                                                  *)

vars == <<kind, served, client, call, answer, made, requests, replies, server, out, log,
          up, strayed>>

-----------------------------------------------------------------------------
(* The handlers: the possible pairs of a reply and the log after.          *)
Value(n)   == [type |-> "REPLY", field |-> "success", val |-> n]
Ouch       == [type |-> "REPLY", field |-> "ouch", val |-> 0]
Exception  == [type |-> "EXCEPTION", field |-> "none", val |-> 0]

Pair(r, lg) == [reply |-> r, log |-> lg]

EmptyLog == [k \in Keys |-> Absent]

(* Seeded fault: a calculate that logs the failed division as well.        *)
CalculateLogsAll(m, lg) ==
    IF Invalid(m.work) THEN {Pair(Ouch, [lg EXCEPT ![m.key] = 0])}
    ELSE {Pair(Value(n), [lg EXCEPT ![m.key] = n]) : n \in Outcomes(kind, m.work)}

(* calculate: logs the value it returns; throws before the log is touched. *)
Calculate(m, lg) ==
    IF Invalid(m.work) THEN {Pair(Ouch, lg)}
    ELSE {Pair(Value(n), [lg EXCEPT ![m.key] = n]) : n \in Outcomes(kind, m.work)}

(* getStruct: in C++ log[logid] makes a missing entry, in Python it raises *)
(* a KeyError, which the processor answers for.                            *)
GetStruct(m, lg) ==
    IF lg[m.key] # Absent THEN {Pair(Value(lg[m.key]), lg)}
    ELSE IF kind = "python" THEN {Pair(Exception, lg)}
    ELSE {Pair(Value(Default), [lg EXCEPT ![m.key] = Default])}

Effect(m, lg) ==
    IF m.name \notin served THEN {Pair(Exception, lg)}
    ELSE IF m.name = "add" THEN {Pair(Value(n), lg) : n \in Outcomes(kind, m.work)}
    ELSE IF m.name = "calculate" THEN Calculate(m, lg)
    ELSE IF m.name = "getStruct" THEN GetStruct(m, lg)
    ELSE {Pair(Value(0), lg)}

-----------------------------------------------------------------------------
Scopes == Conns \union {"server"}

(* The scope of a log: server.cpp hands every connection a handler of its  *)
(* own (CalculatorCloneFactory), py-server.py has one.                     *)
Scope(c) == IF kind = "python" THEN "server" ELSE c

Message(m, n, r) == [name |-> m.name, of |-> n, reply |-> r]

Init ==
    /\ kind \in Kinds /\ served \in MethodSets
    /\ client = [c \in Conns |-> "closed"]
    /\ call = [c \in Conns |-> NoCall]
    /\ answer = [c \in Conns |-> NoReply]
    /\ made = [c \in Conns |-> 0]
    /\ requests = [c \in Conns |-> <<>>]
    /\ replies = [c \in Conns |-> <<>>]
    /\ server = [c \in Conns |-> "none"]
    /\ out = [c \in Conns |-> NoReply]
    /\ log = [s \in Scopes |-> EmptyLog]
    /\ up = TRUE
    /\ strayed = [c \in Conns |-> FALSE]

-----------------------------------------------------------------------------
(* The client.                                                             *)
serverSide == <<server, out, log, up>>

(* transport->open(); the server accepts and makes a processor.            *)
Open(c) ==
    /\ up /\ client[c] = "closed" /\ server[c] = "none" /\ made[c] < MaxCalls
    /\ client' = [client EXCEPT ![c] = "idle"]
    /\ server' = [server EXCEPT ![c] = "ready"]
    /\ requests' = [requests EXCEPT ![c] = <<>>]
    /\ replies' = [replies EXCEPT ![c] = <<>>]
    /\ strayed' = [strayed EXCEPT ![c] = FALSE]
    /\ UNCHANGED <<call, answer, made, out, log, up>>

(* send_X: one message, then flush.  A oneway call is over.                *)
Send(c, m) ==
    /\ client[c] = "idle" /\ made[c] < MaxCalls
    /\ made' = [made EXCEPT ![c] = @ + 1]
    /\ requests' = [requests EXCEPT ![c] = Append(@, Message(m, made[c], m))]
    /\ IF m.name = "zip"
       THEN /\ strayed' = [strayed EXCEPT ![c] = @ \/ "zip" \notin served]
            /\ UNCHANGED <<client, call>>
       ELSE /\ client' = [client EXCEPT ![c] = "waiting"]
            /\ call' = [call EXCEPT ![c] = m]
            /\ UNCHANGED strayed
    /\ UNCHANGED <<answer, replies>> /\ UNCHANGED serverSide

(* recv_X: throws what a T_EXCEPTION says, whatever its name.  A reply of  *)
(* another name is skipped and the struct read from what follows it.       *)
Receive(c) ==
    /\ client[c] = "waiting" /\ replies[c] # <<>>
    /\ LET r == Head(replies[c])
       IN  /\ answer' = [answer EXCEPT ![c] = r]
           /\ client' = [client EXCEPT ![c] =
                  IF r.reply.type = "EXCEPTION" THEN "threw"
                  ELSE IF r.name # call[c].name THEN "garbled"
                  ELSE IF r.reply.field = "success" THEN "returned" ELSE "threw"]
    /\ replies' = [replies EXCEPT ![c] = Tail(@)]
    /\ UNCHANGED <<call, made, requests, strayed>> /\ UNCHANGED serverSide

(* The caller goes on.                                                     *)
Resume(c) ==
    /\ client[c] \in {"returned", "threw"}
    /\ client' = [client EXCEPT ![c] = "idle"]
    /\ call' = [call EXCEPT ![c] = NoCall]
    /\ answer' = [answer EXCEPT ![c] = NoReply]
    /\ UNCHANGED <<made, requests, replies, strayed>> /\ UNCHANGED serverSide

(* The server's end is closed: TTransportException, and the client closes. *)
ReceiveEof(c) ==
    /\ client[c] \in {"waiting", "garbled"} /\ replies[c] = <<>>
    /\ server[c] = "none"
    /\ client' = [client EXCEPT ![c] = "closed"]
    /\ call' = [call EXCEPT ![c] = NoCall]
    /\ answer' = [answer EXCEPT ![c] = NoReply]
    /\ UNCHANGED <<made, requests, replies, strayed>> /\ UNCHANGED serverSide

(* transport->close(), between calls.                                      *)
CloseClient(c) ==
    /\ client[c] = "idle"
    /\ client' = [client EXCEPT ![c] = "closed"]
    /\ replies' = [replies EXCEPT ![c] = <<>>]
    /\ UNCHANGED <<call, answer, made, requests, strayed>> /\ UNCHANGED serverSide

-----------------------------------------------------------------------------
(* The server.                                                             *)
clientSide == <<client, call, answer, made, strayed>>

(* Seeded fault: a processor that replies to zip as well.                  *)
RepliesAlways(m) == TRUE

(* A method that is not oneway, or not known: there will be a reply.       *)
Replies(m) == m.name # "zip" \/ m.name \notin served

(* process(): reads a call, finds the method and runs the handler.         *)
Process(c) ==
    /\ up /\ server[c] = "ready" /\ requests[c] # <<>>
    /\ LET q == Head(requests[c])
       IN  \E e \in Effect(q.reply, log[Scope(c)]) :
              /\ log' = [log EXCEPT ![Scope(c)] = e.log]
              /\ IF Replies(q)
                 THEN /\ server' = [server EXCEPT ![c] = "replying"]
                      /\ out' = [out EXCEPT ![c] = Message(q, q.of, e.reply)]
                 ELSE UNCHANGED <<server, out>>
    /\ requests' = [requests EXCEPT ![c] = Tail(@)]
    /\ UNCHANGED <<replies, up>> /\ UNCHANGED clientSide

(* The process dies in a handler, and with it every connection.            *)
Trap(c) ==
    /\ up /\ server[c] = "ready" /\ requests[c] # <<>>
    /\ Head(requests[c]).name = "calculate" /\ "calculate" \in served
    /\ MayTrap(kind, Head(requests[c]).reply.work)
    /\ up' = FALSE
    /\ server' = [d \in Conns |-> "none"]
    /\ out' = [d \in Conns |-> NoReply]
    /\ UNCHANGED <<requests, replies, log>> /\ UNCHANGED clientSide

(* Seeded fault: a reply cut to what fits.                                 *)
WritableAlways(r) == TRUE

(* What does not fit an i32 cannot be written; getStruct answers a string. *)
Writable(r) == r.reply.val \in Int32 \union {Default} \/ r.name = "getStruct"

Reply(c) ==
    /\ server[c] = "replying" /\ Writable(out[c])
    /\ replies' = [replies EXCEPT ![c] = IF client[c] = "closed" THEN @ ELSE Append(@, out[c])]
    /\ server' = [server EXCEPT ![c] = "ready"]
    /\ out' = [out EXCEPT ![c] = NoReply]
    /\ UNCHANGED <<requests, log, up>> /\ UNCHANGED clientSide

(* Seeded fault: the reply is given up and the connection kept.            *)
ReplyFailsSilently(c) ==
    /\ server[c] = "replying" /\ ~Writable(out[c])
    /\ server' = [server EXCEPT ![c] = "ready"]
    /\ out' = [out EXCEPT ![c] = NoReply]
    /\ UNCHANGED <<requests, replies, log, up>> /\ UNCHANGED clientSide

(* In Python struct.pack raises: the thread closes the connection.         *)
ReplyFails(c) ==
    /\ server[c] = "replying" /\ ~Writable(out[c])
    /\ server' = [server EXCEPT ![c] = "none"]
    /\ out' = [out EXCEPT ![c] = NoReply]
    /\ UNCHANGED <<requests, replies, log, up>> /\ UNCHANGED clientSide

(* End of the stream: the thread ends, and in C++ releaseHandler deletes   *)
(* the handler with its log.                                               *)
EndOfStream(c) ==
    /\ server[c] = "ready" /\ client[c] = "closed" /\ requests[c] = <<>>
    /\ server' = [server EXCEPT ![c] = "none"]
    /\ log' = IF kind = "python" THEN log ELSE [log EXCEPT ![Scope(c)] = EmptyLog]
    /\ UNCHANGED <<requests, replies, out, up>> /\ UNCHANGED clientSide

-----------------------------------------------------------------------------
Serve(c) ==
    /\ Process(c) \/ Trap(c) \/ Reply(c) \/ ReplyFails(c) \/ EndOfStream(c)
    /\ UNCHANGED <<kind, served>>

Await(c) ==
    /\ Receive(c) \/ ReceiveEof(c)
    /\ UNCHANGED <<kind, served>>

(* What the caller decides.                                                *)
Caller(c) ==
    /\ Open(c) \/ (\E m \in Calls : Send(c, m)) \/ Resume(c) \/ CloseClient(c)
    /\ UNCHANGED <<kind, served>>

Next == \E c \in Conns : Caller(c) \/ Await(c) \/ Serve(c)

Spec == Init /\ [][Next]_vars /\ \A c \in Conns : WF_vars(Serve(c)) /\ WF_vars(Await(c))

-----------------------------------------------------------------------------
TypeOK ==
    /\ client \in [Conns -> {"closed", "idle", "waiting", "returned", "threw", "garbled"}]
    /\ server \in [Conns -> {"none", "ready", "replying"}]
    /\ \A c \in Conns :
        /\ call[c] \in Calls \union {NoCall}
        /\ client[c] \in {"waiting", "returned", "threw", "garbled"} <=> call[c] # NoCall
        /\ server[c] = "replying" <=> out[c] # NoReply
        /\ Len(requests[c]) <= MaxCalls /\ Len(replies[c]) <= MaxCalls

(* A client takes the next message for the answer to its call and does not *)
(* look at the sequence number.  Still the message is that answer, unless  *)
(* it sent a oneway call to a server without that method, whose exception  *)
(* nobody waits for.                                                       *)
AnswersOwnCall ==
    /\ TypeOK
    /\ \A c \in Conns :
        answer[c] # NoReply /\ ~strayed[c] =>
            answer[c].of = made[c] - 1 /\ client[c] # "garbled"

(* The quotient by definition: a = q * b + r with |r| < |b|, r with the    *)
(* sign of a in C++ and of b in Python.                                    *)
IsQuotient(k, a, b, q) ==
    LET r == a - q * b
    IN  /\ Abs(r) < Abs(b)
        /\ r # 0 => (r < 0) = (IF k = "python" THEN b < 0 ELSE a < 0)

(* The handlers divide every pair of numbers as their languages do.        *)
QuotientsRound ==
    \A k \in Kinds : \A a, b \in Int32 :
        b # 0 => IsQuotient(k, a, b, Quotient(k, a, b))

(* A caller that is told a number is told the result, if the result fits   *)
(* an i32; and what it is told always fits, although the Python handler    *)
(* logs and returns results that do not.                                   *)
AnswersAreRight ==
    /\ QuotientsRound
    /\ \A c \in Conns :
        client[c] = "returned" /\ ~strayed[c] /\ call[c].name \in {"add", "calculate"} =>
            LET w == call[c].work
                n == answer[c].reply.val
            IN  /\ n \in Int32
                /\ w.op = "ADD" /\ w.a + w.b \in Int32 => n = w.a + w.b
                /\ w.op = "SUBTRACT" /\ w.a - w.b \in Int32 => n = w.a - w.b
                /\ w.op = "MULTIPLY" /\ w.a * w.b \in Int32 => n = w.a * w.b
                /\ w.op = "DIVIDE" /\ ~MayTrap(kind, w) => IsQuotient(kind, w.a, w.b, n)

(* Every call comes to an end: a result, an exception, or a connection     *)
(* that is found closed.                                                   *)
CallsEnd ==
    \A c \in Conns : client[c] = "waiting" ~> client[c] # "waiting"

-----------------------------------------------------------------------------
(* Both servers implement CalculatorService.  The entry that a C++ lookup  *)
(* leaves in the log is never seen.  For the service a call is over when   *)
(* its connection is, and a connection has left when it is out of step.    *)
Gone(c) ==
    \/ client[c] = "waiting" /\ server[c] = "none" /\ replies[c] = <<>>
    \/ strayed[c]

Results(k, m) ==
    IF m.name = "ping" THEN {0} ELSE IF Invalid(m.work) THEN {} ELSE Outcomes(k, m.work)

MissingEntry(k) == IF k = "python" THEN Exception ELSE Value(Default)

Service == INSTANCE CalculatorService WITH
    Calls <- {m \in Calls : m.name # "zip"},
    Shared <- {"python"},
    Missing <- MissingEntry,
    Unknown <- Exception,
    joined <- {c \in Conns : client[c] # "closed" /\ ~Gone(c)},
    log <- [s \in Scopes |-> [k \in Keys |->
               IF log[s][k] = Default THEN Absent ELSE log[s][k]]],
    call <- [c \in Conns |-> IF Gone(c) THEN NoCall ELSE call[c]],
    reply <- [c \in Conns |->
               IF call[c] = NoCall \/ Gone(c) THEN NoReply
               ELSE IF answer[c] # NoReply THEN answer[c].reply
               ELSE IF replies[c] # <<>> THEN Head(replies[c]).reply
               ELSE IF out[c] # NoReply THEN out[c].reply ELSE NoReply]

ServiceSpec == Service!Spec

=============================================================================
