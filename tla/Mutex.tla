------------------------------- MODULE Mutex -------------------------------
(***************************************************************************)
(* The monitor primitives of base/mutex.h: a pthread mutex of type         *)
(* ERRORCHECK (MutexLock, taken and released by the scope of a             *)
(* MutexLockGuard) and the pthread condition variables bound to it         *)
(* (Condition).  The wrappers throw the return codes away, so an error of  *)
(* pthread is a call that has no effect.                                   *)
(*                                                                         *)
(* The module holds the state and the operations; the monitors that        *)
(* EXTEND it decide who calls what.                                        *)
(***************************************************************************)
EXTENDS FiniteSets

CONSTANTS Threads,   (* the threads that use the monitor                   *)
          Conds,     (* its condition variables                            *)
          NoThread   (* the owner of a free mutex                          *)

ASSUME MutexAssumption ==
    /\ IsFiniteSet(Threads)
    /\ NoThread \notin Threads

VARIABLES owner,     (* the thread that owns the mutex, or NoThread        *)
          waiting    (* waiting[c]: the threads blocked on condition c     *)

MutexInit ==
    /\ owner = NoThread
    /\ waiting = [c \in Conds |-> {}]

(* Seeded fault: a lock that does not wait for the owner.                  *)
LockWithoutWaiting(t) ==
    owner' = t

(* MutexLock::Lock blocks while another thread owns the mutex.  For the    *)
(* owner itself pthread_mutex_lock answers EDEADLK, which Lock drops.      *)
Lock(t) ==
    /\ owner \in {NoThread, t}
    /\ owner' = t

(* MutexLock::Unlock.  pthread_mutex_unlock answers EPERM to a thread that *)
(* is not the owner, and nothing changes.                                  *)
Unlock(t) ==
    owner' = IF owner = t THEN NoThread ELSE owner

(* Condition::Wait: releases the mutex and blocks, in one atomic step.  A  *)
(* thread that has left waiting[c] still has to Lock(t) before the call    *)
(* returns.                                                                *)
Wait(c, t) ==
    /\ owner = t
    /\ owner' = NoThread
    /\ waiting' = [waiting EXCEPT ![c] = @ \union {t}]

(* Condition::Notify: wakes one waiting thread, if there is one.           *)
Notify(c) ==
    IF waiting[c] = {}
    THEN UNCHANGED waiting
    ELSE \E t \in waiting[c] : waiting' = [waiting EXCEPT ![c] = @ \ {t}]

(* pthread_cond_wait may return although nobody signalled.  The comment in *)
(* BlockingQueue::take names it as the reason for its while-loop.          *)
WakeSpuriously(c, t) ==
    /\ t \in waiting[c]
    /\ waiting' = [waiting EXCEPT ![c] = @ \ {t}]
    /\ UNCHANGED owner

=============================================================================
