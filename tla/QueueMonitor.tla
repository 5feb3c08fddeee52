---------------------------- MODULE QueueMonitor ----------------------------
(***************************************************************************)
(* What the two queues of base/blocking_queue.h have in common: a queue    *)
(* guarded by one mutex, with a condition (notEmpty) that take waits on.   *)
(* Any thread may call any method at any time, so the methods interleave   *)
(* at every point where a thread does not own the mutex.                   *)
(*                                                                         *)
(* A thread is in one of these control states (pc):                        *)
(*   "idle"                outside of every method                         *)
(*   "put", "take" or the name of a getter                                 *)
(*                         in the method; in its critical section once it  *)
(*                         owns the mutex                                  *)
(*   "put_wait", "take_wait"                                               *)
(*                         in Condition::Wait: blocked while it is in a    *)
(*                         waiting set, and after that waiting for the     *)
(*                         mutex again                                     *)
(*   "return"              done, about to run ~MutexLockGuard              *)
(***************************************************************************)
EXTENDS Integers, Sequences, Mutex

CONSTANTS Values,     (* the values put into the queue                     *)
          NoValue     (* the argument or result of a thread with none      *)

ASSUME ValueAssumption == NoValue \notin Values

VARIABLES queue,      (* queue_, oldest value first                        *)
          pc,         (* the control state of each thread                  *)
          val         (* its argument x, later its result                  *)

vars == <<owner, waiting, queue, pc, val>>

Getters == {"empty", "full", "size", "capacity"}

(* Every entry point of the classes.                                       *)
Methods == {"put", "take"} \union Getters

Empty == queue = <<>>

Init ==
    /\ MutexInit
    /\ queue = <<>>
    /\ pc = [t \in Threads |-> "idle"]
    /\ val = [t \in Threads |-> NoValue]

(* A thread calls a method.                                                *)
Call(t, op, x) ==
    /\ pc[t] = "idle"
    /\ pc' = [pc EXCEPT ![t] = op]
    /\ val' = [val EXCEPT ![t] = x]
    /\ UNCHANGED <<owner, waiting, queue>>

(* MutexLockGuard lock(mutex_): the first statement of every method.       *)
Enter(t) ==
    /\ pc[t] \in Methods
    /\ owner # t
    /\ Lock(t)
    /\ UNCHANGED <<waiting, queue, pc, val>>

(* The rest of a critical section, up to the guard's destructor.           *)
Leave(t, result) ==
    /\ owner = t
    /\ pc' = [pc EXCEPT ![t] = "return"]
    /\ val' = [val EXCEPT ![t] = result]
    /\ UNCHANGED owner

(* take, empty queue: blocks on notEmpty and releases the mutex.           *)
TakeWait(t) ==
    /\ pc[t] = "take"
    /\ Empty
    /\ Wait("notEmpty", t)
    /\ pc' = [pc EXCEPT ![t] = "take_wait"]
    /\ UNCHANGED <<queue, val>>

(* Seeded fault: "if" in place of the while-loop, which takes from what    *)
(* may be an empty queue again.                                            *)
WakeupTakes(t) ==
    /\ pc[t] = "take_wait" /\ t \notin waiting["notEmpty"]
    /\ Lock(t)
    /\ pc' = [pc EXCEPT ![t] = "return"]
    /\ val' = [val EXCEPT ![t] = IF Empty THEN NoValue ELSE Head(queue)]
    /\ queue' = IF Empty THEN queue ELSE Tail(queue)
    /\ UNCHANGED waiting

(* The wait is over: the thread owns the mutex again and goes back to the  *)
(* condition of its while-loop.                                            *)
Wakeup(t) ==
    /\ pc[t] \in {"put_wait", "take_wait"}
    /\ \A c \in Conds : t \notin waiting[c]
    /\ Lock(t)
    /\ pc' = [pc EXCEPT ![t] = IF @ = "put_wait" THEN "put" ELSE "take"]
    /\ UNCHANGED <<waiting, queue, val>>

(* ~MutexLockGuard: the method returns and its caller has the result.      *)
Return(t) ==
    /\ pc[t] = "return"
    /\ Unlock(t)
    /\ pc' = [pc EXCEPT ![t] = "idle"]
    /\ val' = [val EXCEPT ![t] = NoValue]
    /\ UNCHANGED <<waiting, queue>>

(* A spurious return of pthread_cond_wait.                                 *)
Spurious(t) ==
    /\ \E c \in Conds : WakeSpuriously(c, t)
    /\ UNCHANGED <<queue, pc, val>>

-----------------------------------------------------------------------------
(* Threads that are on their way to the test of the while-loop of take:    *)
(* already past it once, or new.                                           *)
Takers == {t \in Threads : \/ pc[t] = "take" /\ owner = t
                           \/ pc[t] = "take_wait" /\ t \notin waiting["notEmpty"]}

(* One signal per put is enough (Notify, never NotifyAll): while a taker   *)
(* sleeps there is a taker under way for every value in the queue.  A      *)
(* value that nobody comes for is a lost wakeup.                           *)
ItemsCovered == waiting["notEmpty"] # {} => Len(queue) <= Cardinality(Takers)

(* What a caller sees of the control state: a thread that waits is still   *)
(* in its call.                                                            *)
Phase(control) ==
    IF control = "put_wait" THEN "put"
    ELSE IF control = "take_wait" THEN "take" ELSE control

=============================================================================
