--------------------------- MODULE BoundedChannel ---------------------------
(***************************************************************************)
(* What BoundedBlockingQueue (base/blocking_queue.h) promises its callers: *)
(* a FIFO channel of at most Capacity values whose operations take effect  *)
(* atomically, exactly once, between their call and their return.  put     *)
(* takes effect only while there is room, take only while there is a       *)
(* value; the getters report the length at one instant of their call.      *)
(* There is no mutex and no condition variable here.                       *)
(***************************************************************************)
EXTENDS Integers, Sequences

CONSTANTS Threads,    (* the threads that call the channel                 *)
          Values,     (* the values put into it                            *)
          Capacity,   (* how many it holds                                 *)
          NoValue     (* the argument or result of a thread with none      *)

VARIABLES queue,      (* the values put and not yet taken, oldest first    *)
          phase,      (* phase[t]: the call t is in, "return" once it has  *)
                      (* taken effect, "idle" outside of a call            *)
          val         (* val[t]: argument, then result, of the call of t   *)

vars == <<queue, phase, val>>

Getters == {"empty", "full", "size", "capacity"}

(* What each getter answers for a channel that holds n values; C++ bools   *)
(* are 0 and 1.                                                            *)
Answer(g, n) ==
    CASE g = "empty"    -> IF n = 0 THEN 1 ELSE 0
      [] g = "full"     -> IF n = Capacity THEN 1 ELSE 0
      [] g = "size"     -> n
      [] g = "capacity" -> Capacity

Init ==
    /\ queue = <<>>
    /\ phase = [t \in Threads |-> "idle"]
    /\ val = [t \in Threads |-> NoValue]

Call(t, op, x) ==
    /\ phase[t] = "idle"
    /\ phase' = [phase EXCEPT ![t] = op]
    /\ val' = [val EXCEPT ![t] = x]
    /\ UNCHANGED queue

Effect(t, op, result) ==
    /\ phase[t] = op
    /\ phase' = [phase EXCEPT ![t] = "return"]
    /\ val' = [val EXCEPT ![t] = result]

Put(t) ==
    /\ Len(queue) < Capacity
    /\ Effect(t, "put", NoValue)
    /\ queue' = Append(queue, val[t])

Take(t) ==
    /\ queue # <<>>
    /\ Effect(t, "take", Head(queue))
    /\ queue' = Tail(queue)

Get(t, g) ==
    /\ Effect(t, g, Answer(g, Len(queue)))
    /\ UNCHANGED queue

Return(t) ==
    /\ phase[t] = "return"
    /\ phase' = [phase EXCEPT ![t] = "idle"]
    /\ val' = [val EXCEPT ![t] = NoValue]
    /\ UNCHANGED queue

Next ==
    \E t \in Threads :
        \/ \E x \in Values : Call(t, "put", x)
        \/ \E op \in {"take"} \union Getters : Call(t, op, NoValue)
        \/ Put(t)
        \/ Take(t)
        \/ \E g \in Getters : Get(t, g)
        \/ Return(t)

Spec == Init /\ [][Next]_vars

=============================================================================
