---------------------------- MODULE BlockingQueue ----------------------------
(***************************************************************************)
(* base::BlockingQueue (base/blocking_queue.h, lines 17 to 57): the        *)
(* unbounded monitor.  put never blocks; take waits on the one condition.  *)
(***************************************************************************)
EXTENDS QueueMonitor

CONSTANT MaxLength    (* bound on the values in the queue and on their way *)

ASSUME UnboundedAssumption ==
    Conds = {"notEmpty"} /\ MaxLength \in Nat

CallPut(t, x) ==
    /\ Len(queue) + Cardinality({u \in Threads : pc[u] = "put"}) < MaxLength
    /\ Call(t, "put", x)

(* Seeded fault: a put that notifies only when the queue was empty.        *)
PutNotifyFirst(t) ==
    /\ pc[t] = "put" /\ Leave(t, NoValue)
    /\ queue' = Append(queue, val[t])
    /\ IF Empty THEN Notify("notEmpty") ELSE UNCHANGED waiting

Put(t) ==
    /\ pc[t] = "put" /\ Leave(t, NoValue)
    /\ queue' = Append(queue, val[t])
    /\ Notify("notEmpty")

Take(t) ==
    /\ pc[t] = "take" /\ ~Empty /\ Leave(t, Head(queue))
    /\ queue' = Tail(queue)
    /\ UNCHANGED waiting

Size(t) ==
    /\ pc[t] = "size" /\ Leave(t, Len(queue))
    /\ UNCHANGED <<queue, waiting>>

Next ==
    \E t \in Threads :
        \/ \E x \in Values : CallPut(t, x)
        \/ \E op \in {"take", "size"} : Call(t, op, NoValue)
        \/ Enter(t) \/ Put(t) \/ TakeWait(t) \/ Take(t) \/ Wakeup(t) \/ Size(t)
        \/ Return(t) \/ Spurious(t)

Spec == Init /\ [][Next]_vars

-----------------------------------------------------------------------------
(* Types, and mutual exclusion: only the owner is past its Lock.           *)
TypeOK ==
    /\ owner \in Threads \union {NoThread}
    /\ waiting \in [Conds -> SUBSET Threads]
    /\ queue \in Seq(Values)
    /\ pc \in [Threads -> {"idle", "put", "take", "size", "take_wait", "return"}]
    /\ val \in [Threads -> Values \union {NoValue} \union Nat]
    /\ \A t \in Threads :
        /\ pc[t] = "return" => owner = t
        /\ t \in waiting["notEmpty"] => pc[t] = "take_wait"
        /\ pc[t] = "put" => val[t] \in Values

(* It is a channel whose put always has room: puts and takes take effect   *)
(* once, in FIFO order, at one instant between call and return.            *)
Channel == INSTANCE BoundedChannel WITH
    Capacity <- MaxLength,
    phase <- [t \in Threads |-> Phase(pc[t])]

ChannelSpec == Channel!Spec

=============================================================================
