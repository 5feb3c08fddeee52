------------------------ MODULE BoundedBlockingQueue ------------------------
(***************************************************************************)
(* base::BoundedBlockingQueue (base/blocking_queue.h, lines 61 to 119): a  *)
(* circular buffer, with a second condition (notFull) that put waits on.   *)
(***************************************************************************)
EXTENDS QueueMonitor

CONSTANT Capacity    (* the maxSize given to the constructor               *)

(* The program builds one queue, with maxSize 10000.  The argument is an   *)
(* int and the buffer takes 0 as well: such a queue blocks every caller.   *)
ASSUME QueueAssumption ==
    /\ Capacity \in Nat
    /\ Conds = {"notEmpty", "notFull"}

(* Seeded fault: full() off by one.                                        *)
FullOffByOne == Len(queue) > Capacity

(* circular_buffer::full.                                                  *)
Full == Len(queue) = Capacity

(* circular_buffer::push_back: a full buffer overwrites its oldest value,  *)
(* and one of capacity 0 drops the new one.                                *)
PushBack(q, x) ==
    IF Len(q) < Capacity THEN Append(q, x)
    ELSE IF q = <<>> THEN q ELSE Append(Tail(q), x)

(* The results of the getters; C++ bools are 0 and 1.                      *)
Answer(g) ==
    CASE g = "empty"    -> IF Empty THEN 1 ELSE 0
      [] g = "full"     -> IF Full THEN 1 ELSE 0
      [] g = "size"     -> Len(queue)
      [] g = "capacity" -> Capacity

-----------------------------------------------------------------------------
(* put, full queue: blocks on notFull and releases the mutex.              *)
PutWait(t) ==
    /\ pc[t] = "put"
    /\ Full
    /\ Wait("notFull", t)
    /\ pc' = [pc EXCEPT ![t] = "put_wait"]
    /\ UNCHANGED <<queue, val>>

(* Seeded faults: a put that does not wait for room, and one that notifies *)
(* only when the queue was empty before.                                   *)
PutPushUnbounded(t) ==
    /\ pc[t] = "put"
    /\ queue' = Append(queue, val[t])
    /\ Notify("notEmpty")
    /\ Leave(t, NoValue)

PutPushNotifyFirst(t) ==
    /\ pc[t] = "put"
    /\ ~Full
    /\ queue' = PushBack(queue, val[t])
    /\ IF Empty THEN Notify("notEmpty") ELSE UNCHANGED waiting
    /\ Leave(t, NoValue)

(* put with room: stores the value and notifies one taker.                 *)
PutPush(t) ==
    /\ pc[t] = "put"
    /\ ~Full
    /\ queue' = PushBack(queue, val[t])
    /\ Notify("notEmpty")
    /\ Leave(t, NoValue)

(* Seeded fault: a take that notifies nobody.                              *)
TakePopSilent(t) ==
    /\ pc[t] = "take"
    /\ ~Empty
    /\ queue' = Tail(queue)
    /\ Leave(t, Head(queue))
    /\ UNCHANGED waiting

(* take with a value there: removes the oldest and notifies one putter.    *)
TakePop(t) ==
    /\ pc[t] = "take"
    /\ ~Empty
    /\ queue' = Tail(queue)
    /\ Notify("notFull")
    /\ Leave(t, Head(queue))

(* empty(), full(), size() and capacity() read under the mutex.            *)
Get(t, g) ==
    /\ pc[t] = g
    /\ Leave(t, Answer(g))
    /\ UNCHANGED <<waiting, queue>>

-----------------------------------------------------------------------------
(* What a thread does on its own once it is in a method.                   *)
Step(t) ==
    \/ Enter(t)
    \/ PutWait(t)
    \/ PutPush(t)
    \/ TakeWait(t)
    \/ TakePop(t)
    \/ Wakeup(t)
    \/ \E g \in Getters : Get(t, g)
    \/ Return(t)

(* What the caller of the queue decides.                                   *)
Caller(t) ==
    \/ \E x \in Values : Call(t, "put", x)
    \/ \E op \in {"take"} \union Getters : Call(t, op, NoValue)

Next ==
    \E t \in Threads : Step(t) \/ Caller(t) \/ Spurious(t)

Spec == Init /\ [][Next]_vars

-----------------------------------------------------------------------------
(* Threads that are on their way to the test of the while-loop of put.     *)
Putters == {t \in Threads : \/ pc[t] = "put" /\ owner = t
                            \/ pc[t] = "put_wait" /\ t \notin waiting["notFull"]}

TypeOK ==
    /\ owner \in Threads \union {NoThread}
    /\ waiting \in [Conds -> SUBSET Threads]
    /\ queue \in Seq(Values)
    /\ Len(queue) <= Capacity
    /\ pc \in [Threads -> {"idle", "put_wait", "take_wait", "return"} \union Methods]
    /\ val \in [Threads -> Values \union {NoValue} \union Nat]
    /\ \A t \in Threads : pc[t] \in {"put", "put_wait"} => val[t] \in Values

(* The ERRORCHECK mutex and the scoped guards pair up: whoever runs between*)
(* Lock and Unlock owns the mutex, whoever is outside does not, so that    *)
(* Unlock is never called by a thread that pthread would refuse, and no    *)
(* thread is blocked on a condition it did not ask for.                    *)
GuardsPair ==
    \A t \in Threads :
        /\ pc[t] = "return" => owner = t
        /\ owner = t => pc[t] \in Methods \union {"return"}
        /\ t \in waiting["notFull"] => pc[t] = "put_wait"
        /\ t \in waiting["notEmpty"] => pc[t] = "take_wait"

(* One signal per operation is enough: while a taker sleeps there is a     *)
(* taker under way for every value in the queue, and while a putter sleeps *)
(* a putter for every free slot.                                           *)
SlotsCovered == waiting["notFull"] # {} => Capacity - Len(queue) <= Cardinality(Putters)

NoLostWakeup == ItemsCovered /\ SlotsCovered

(* The monitor implements the atomic channel: every put and take takes     *)
(* effect once, in FIFO order, at one instant between call and return.     *)
Channel == INSTANCE BoundedChannel WITH
    phase <- [t \in Threads |-> Phase(pc[t])]

ChannelSpec == Channel!Spec

=============================================================================
