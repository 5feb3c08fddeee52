----------------------- MODULE MCBoundedBlockingQueue -----------------------
(***************************************************************************)
(* Small instances of BoundedBlockingQueue: threads that call any method   *)
(* at any time, without a bound on the calls.                              *)
(***************************************************************************)
EXTENDS BoundedBlockingQueue

MCConds == {"notEmpty", "notFull"}

(* The scheduler runs every thread that stays runnable.                    *)
FairSpec == Spec /\ \A t \in Threads : WF_vars(Step(t))

(* Pthread mutexes are not fair: endless calls of other threads, and       *)
(* endless spurious wakeups, may starve any one thread.                    *)
TrafficStops == <>[][\A t \in Threads : ~Caller(t) /\ ~Spurious(t)]_vars

Settled ==
    \A t \in Threads :
        \/ pc[t] = "idle"
        \/ t \in waiting["notFull"] /\ Len(queue) = Capacity
        \/ t \in waiting["notEmpty"] /\ queue = <<>>

(* Nobody is left behind: once the traffic stops, every thread returns     *)
(* from its method, or sleeps in put because the queue is full, or sleeps  *)
(* in take because it is empty.                                            *)
EventuallySettled == TrafficStops => <>[]Settled

=============================================================================
