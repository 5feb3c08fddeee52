------------------------- MODULE CalculatorService -------------------------
(***************************************************************************)
(* What a calculator server promises to its callers, whatever runs at the  *)
(* same time: a call takes effect once, at one instant between call and    *)
(* return, on the log of its scope (the connection of the C++ server, all  *)
(* of the Python server).  A call may also fail, with its connection,      *)
(* before or after it took effect.                                         *)
(***************************************************************************)
CONSTANTS Conns, Scopes, Keys,
          Kinds,                   (* the kinds of servers                 *)
          Shared,                  (* those with one log for all           *)
          MethodSets,              (* what a server may know               *)
          Calls,                   (* the calls that are answered          *)
          Results(_, _),           (* the values a server of a kind can    *)
                                   (* compute for a call; none for an      *)
                                   (* invalid operation                    *)
          Value(_), Ouch, Unknown, (* the replies                          *)
          Missing(_),              (* the reply of a kind without an entry *)
          Absent, NoCall, NoReply

VARIABLES kind, served,
          joined,  (* the connections there are                            *)
          log,     (* per scope and key                                    *)
          call,    (* what each connection has called, or NoCall           *)
          reply    (* what the call came to, or NoReply before its effect  *)

vars == <<kind, served, joined, log, call, reply>>

(* The log a connection works on, which goes with it unless it is shared.  *)
Scope(c) == IF kind \in Shared THEN "server" ELSE c

Init ==
    /\ kind \in Kinds /\ served \in MethodSets
    /\ joined = {}
    /\ log = [s \in Scopes |-> [k \in Keys |-> Absent]]
    /\ call = [c \in Conns |-> NoCall]
    /\ reply = [c \in Conns |-> NoReply]

Join(c) ==
    /\ joined' = joined \union {c}
    /\ UNCHANGED <<log, call, reply>>

Leave(c) ==
    /\ call[c] = NoCall
    /\ joined' = joined \ {c}
    /\ UNCHANGED <<log, call, reply>>

Invoke(c) ==
    /\ c \in joined /\ call[c] = NoCall
    /\ \E m \in Calls : call' = [call EXCEPT ![c] = m]
    /\ UNCHANGED <<joined, log, reply>>

Answer(c, r) == reply' = [reply EXCEPT ![c] = r]

TakeEffect(c) ==
    /\ call[c] # NoCall /\ reply[c] = NoReply
    /\ LET m == call[c]
           s == Scope(c)
       IN  \/ /\ m.name \notin served
              /\ Answer(c, Unknown) /\ UNCHANGED log
           \/ /\ m.name \in served \ {"getStruct"}
              /\ \E n \in Results(kind, m) :
                     /\ Answer(c, Value(n))
                     /\ log' = IF m.name = "calculate" THEN [log EXCEPT ![s][m.key] = n] ELSE log
           \/ /\ m.name \in served \ {"getStruct"} /\ Results(kind, m) = {}
              /\ Answer(c, Ouch) /\ UNCHANGED log
           \/ /\ m.name \in served \intersect {"getStruct"}
              /\ Answer(c, IF log[s][m.key] = Absent THEN Missing(kind) ELSE Value(log[s][m.key]))
              /\ UNCHANGED log
    /\ UNCHANGED <<joined, call>>

Return(c) ==
    /\ reply[c] # NoReply
    /\ call' = [call EXCEPT ![c] = NoCall]
    /\ reply' = [reply EXCEPT ![c] = NoReply]
    /\ UNCHANGED <<joined, log>>

(* One connection breaks, or all of them with the server.                  *)
Fail(cs) ==
    /\ call' = [c \in Conns |-> IF c \in cs THEN NoCall ELSE call[c]]
    /\ reply' = [c \in Conns |-> IF c \in cs THEN NoReply ELSE reply[c]]
    /\ joined' = joined \ cs
    /\ UNCHANGED log

Forget(s) ==
    /\ kind \notin Shared
    /\ \A c \in joined : Scope(c) # s
    /\ log' = [log EXCEPT ![s] = [k \in Keys |-> Absent]]
    /\ UNCHANGED <<joined, call, reply>>

Next ==
    /\ UNCHANGED <<kind, served>>
    /\ \/ \E c \in Conns : Join(c) \/ Leave(c) \/ Invoke(c) \/ TakeEffect(c) \/ Return(c)
       \/ \E cs \in SUBSET joined : Fail(cs)
       \/ \E s \in Scopes : Forget(s)

Spec == Init /\ [][Next]_vars
=============================================================================
