------------------------ MODULE BlockingQueue_proofs ------------------------
(***************************************************************************)
(* The safety properties of both queues of base/blocking_queue.h, proved   *)
(* for every finite set of threads, every set of values and every bound on *)
(* their number: the capacity of BoundedBlockingQueue, MaxLength of        *)
(* BlockingQueue, whose definitions have the prefix U! here.               *)
(***************************************************************************)
EXTENDS BoundedBlockingQueue, FiniteSetTheorems, TLAPS

(* A value pushed into a queue that is not full keeps it a queue of values *)
(* within its capacity, at the end of it.                                  *)
LEMMA PushBackWithRoom ==
    ASSUME TypeOK, ~Full, NEW x \in Values
    PROVE  /\ PushBack(queue, x) = Append(queue, x)
           /\ Append(queue, x) \in Seq(Values)
           /\ Len(Append(queue, x)) = Len(queue) + 1
           /\ Len(queue) + 1 <= Capacity
  BY QueueAssumption DEF TypeOK, Full, PushBack

(* Notify wakes at most one thread and never puts one to sleep.            *)
LEMMA NotifyType ==
    ASSUME waiting \in [Conds -> SUBSET Threads], NEW c \in Conds, Notify(c)
    PROVE  waiting' \in [Conds -> SUBSET Threads]
  BY DEF Notify

(* The type invariant is inductive by itself.                              *)
THEOREM TypeCorrect == Spec => []TypeOK
<1>1. Init => TypeOK
  BY QueueAssumption, ValueAssumption DEF Init, MutexInit, TypeOK, Methods, Getters
<1>2. TypeOK /\ [Next]_vars => TypeOK'
  <2> SUFFICES ASSUME TypeOK, [Next]_vars
               PROVE  TypeOK'
    OBVIOUS
  <2> USE QueueAssumption, ValueAssumption DEF TypeOK, Methods, Getters
  <2>1. ASSUME NEW t \in Threads, Enter(t)
        PROVE  TypeOK'
    BY <2>1 DEF Enter, Lock
  <2>2. ASSUME NEW t \in Threads, PutWait(t)
        PROVE  TypeOK'
    BY <2>2 DEF PutWait, Wait
  <2>3. ASSUME NEW t \in Threads, PutPush(t)
        PROVE  TypeOK'
    <3>1. val[t] \in Values
      BY <2>3 DEF PutPush, Leave
    <3>2. queue' \in Seq(Values) /\ Len(queue') <= Capacity
      BY <2>3, <3>1, PushBackWithRoom DEF PutPush, Leave
    <3>3. waiting' \in [Conds -> SUBSET Threads]
      BY <2>3, NotifyType DEF PutPush, Leave
    <3> QED
      BY <2>3, <3>2, <3>3 DEF PutPush, Leave
  <2>4. ASSUME NEW t \in Threads, TakeWait(t)
        PROVE  TypeOK'
    BY <2>4 DEF TakeWait, Wait
  <2>5. ASSUME NEW t \in Threads, TakePop(t)
        PROVE  TypeOK'
    <3>1. queue' \in Seq(Values) /\ Len(queue') <= Capacity /\ Head(queue) \in Values
      BY <2>5 DEF TakePop, Leave, Empty
    <3>2. waiting' \in [Conds -> SUBSET Threads]
      BY <2>5, NotifyType DEF TakePop, Leave
    <3> QED
      BY <2>5, <3>1, <3>2 DEF TakePop, Leave
  <2>6. ASSUME NEW t \in Threads, Wakeup(t)
        PROVE  TypeOK'
    BY <2>6 DEF Wakeup, Lock
  <2>7. ASSUME NEW t \in Threads, NEW g \in Getters, Get(t, g)
        PROVE  TypeOK'
    <3>1. Answer(g) \in Nat
      BY DEF Answer
    <3> QED
      BY <2>7, <3>1 DEF Get, Leave
  <2>8. ASSUME NEW t \in Threads, Return(t)
        PROVE  TypeOK'
    BY <2>8 DEF Return, Unlock
  <2>9. ASSUME NEW t \in Threads, Caller(t)
        PROVE  TypeOK'
    BY <2>9 DEF Caller, Call
  <2>10. ASSUME NEW t \in Threads, Spurious(t)
         PROVE  TypeOK'
    BY <2>10 DEF Spurious, WakeSpuriously
  <2>11. CASE UNCHANGED vars
    BY <2>11 DEF vars
  <2> QED
    BY <2>1, <2>2, <2>3, <2>4, <2>5, <2>6, <2>7, <2>8, <2>9, <2>10, <2>11
       DEF Next, Step
<1> QED
  BY <1>1, <1>2, PTL DEF Spec

-----------------------------------------------------------------------------
(* Locks and unlocks pair up, and only sleepers are in the waiting sets.   *)
THEOREM GuardsCorrect == Spec => []GuardsPair
<1>1. Init => GuardsPair
  BY MutexAssumption, QueueAssumption DEF Init, MutexInit, GuardsPair
<1>2. TypeOK /\ GuardsPair /\ [Next]_vars => GuardsPair'
  <2> SUFFICES ASSUME TypeOK, GuardsPair, [Next]_vars
               PROVE  GuardsPair'
    OBVIOUS
  <2> USE MutexAssumption, QueueAssumption, ValueAssumption DEF TypeOK, GuardsPair, Methods, Getters
  <2>1. ASSUME NEW t \in Threads, Enter(t)
        PROVE  GuardsPair'
    BY <2>1 DEF Enter, Lock
  <2>2. ASSUME NEW t \in Threads, PutWait(t)
        PROVE  GuardsPair'
    BY <2>2 DEF PutWait, Wait
  <2>3. ASSUME NEW t \in Threads, PutPush(t)
        PROVE  GuardsPair'
    BY <2>3 DEF PutPush, Leave, Notify
  <2>4. ASSUME NEW t \in Threads, TakeWait(t)
        PROVE  GuardsPair'
    BY <2>4 DEF TakeWait, Wait
  <2>5. ASSUME NEW t \in Threads, TakePop(t)
        PROVE  GuardsPair'
    BY <2>5 DEF TakePop, Leave, Notify
  <2>6. ASSUME NEW t \in Threads, Wakeup(t)
        PROVE  GuardsPair'
    BY <2>6 DEF Wakeup, Lock
  <2>7. ASSUME NEW t \in Threads, NEW g \in Getters, Get(t, g)
        PROVE  GuardsPair'
    BY <2>7 DEF Get, Leave
  <2>8. ASSUME NEW t \in Threads, Return(t)
        PROVE  GuardsPair'
    BY <2>8 DEF Return, Unlock
  <2>9. ASSUME NEW t \in Threads, Caller(t)
        PROVE  GuardsPair'
    BY <2>9 DEF Caller, Call
  <2>10. ASSUME NEW t \in Threads, Spurious(t)
         PROVE  GuardsPair'
    BY <2>10 DEF Spurious, WakeSpuriously
  <2>11. CASE UNCHANGED vars
    BY <2>11 DEF vars
  <2> QED
    BY <2>1, <2>2, <2>3, <2>4, <2>5, <2>6, <2>7, <2>8, <2>9, <2>10, <2>11
       DEF Next, Step
<1> QED
  BY <1>1, <1>2, TypeCorrect, PTL DEF Spec

-----------------------------------------------------------------------------
(* The sets that ItemsCovered and SlotsCovered count.                      *)
LEMMA CountsAreNaturals ==
    ASSUME NEW S, S \subseteq Threads
    PROVE  IsFiniteSet(S) /\ Cardinality(S) \in Nat
  BY MutexAssumption, FS_Subset, FS_CardinalityType

(* More threads under way cover at least as much.                          *)
LEMMA CountsGrow ==
    ASSUME NEW S, NEW T, S \subseteq T, T \subseteq Threads
    PROVE  Cardinality(S) <= Cardinality(T)
  BY MutexAssumption, FS_Subset, FS_CardinalityType

LEMMA CountsRise ==
    ASSUME NEW S, NEW T, S \subseteq T, T \subseteq Threads,
           NEW u \in T, u \notin S
    PROVE  Cardinality(S) + 1 <= Cardinality(T)
<1>1. IsFiniteSet(S) /\ Cardinality(S) \in Nat
  BY CountsAreNaturals
<1>2. Cardinality(S \union {u}) = Cardinality(S) + 1
  BY <1>1, FS_AddElement
<1> QED
  BY <1>2, CountsGrow

LEMMA CountsDrop ==
    ASSUME NEW S, NEW T, NEW u, T \subseteq Threads, T \ {u} \subseteq S, S \subseteq Threads
    PROVE  Cardinality(T) - 1 <= Cardinality(S)
<1>1. IsFiniteSet(T) /\ Cardinality(T) \in Nat
  BY CountsAreNaturals
<1>2. Cardinality(T \ {u}) = IF u \in T THEN Cardinality(T) - 1 ELSE Cardinality(T)
  BY <1>1, FS_RemoveElement
<1>3. Cardinality(T \ {u}) <= Cardinality(S)
  BY CountsGrow
<1>4. Cardinality(S) \in Nat
  BY CountsAreNaturals
<1> QED
  BY <1>1, <1>2, <1>3, <1>4

(* A step that leaves the queue, keeps every taker on its way on its way   *)
(* and puts no taker to sleep keeps the values covered; and so for slots.  *)
LEMMA ItemsStayCovered ==
    ASSUME queue \in Seq(Values), ItemsCovered, queue' = queue,
           Takers \subseteq Takers', waiting'["notEmpty"] \subseteq waiting["notEmpty"]
    PROVE  ItemsCovered'
<1>1. Takers' \subseteq Threads /\ Takers \subseteq Threads
  BY DEF Takers
<1>2. Cardinality(Takers) <= Cardinality(Takers')
  BY <1>1, CountsGrow
<1>3. Cardinality(Takers) \in Nat /\ Cardinality(Takers') \in Nat
  BY <1>1, CountsAreNaturals
<1> QED
  BY <1>2, <1>3 DEF ItemsCovered

LEMMA SlotsStayCovered ==
    ASSUME TypeOK, SlotsCovered, queue' = queue, Putters \subseteq Putters',
           waiting'["notFull"] \subseteq waiting["notFull"]
    PROVE  SlotsCovered'
<1>1. Putters' \subseteq Threads /\ Putters \subseteq Threads
  BY DEF Putters
<1>2. Cardinality(Putters) <= Cardinality(Putters')
  BY <1>1, CountsGrow
<1>3. Cardinality(Putters) \in Nat /\ Cardinality(Putters') \in Nat
  BY <1>1, CountsAreNaturals
<1>4. Len(queue) \in Nat /\ Capacity \in Nat
  BY QueueAssumption DEF TypeOK
<1> QED
  BY <1>2, <1>3, <1>4 DEF SlotsCovered

(* A put covers the value it adds by the taker it wakes, and uses up a     *)
(* free slot and itself.                                                   *)
LEMMA PutPushCovers ==
    ASSUME TypeOK, GuardsPair, ItemsCovered, SlotsCovered,
           NEW t \in Threads, PutPush(t)
    PROVE  ItemsCovered' /\ SlotsCovered'
<1> USE QueueAssumption, ValueAssumption DEF TypeOK, GuardsPair
<1>1. Len(queue') = Len(queue) + 1 /\ Len(queue) \in Nat
  BY PushBackWithRoom DEF PutPush, Leave
<1>2. /\ Takers \subseteq Threads /\ Takers' \subseteq Threads
      /\ Putters \subseteq Threads /\ Putters' \subseteq Threads
  BY DEF Takers, Putters
<1>3. /\ Cardinality(Takers) \in Nat /\ Cardinality(Takers') \in Nat
      /\ Cardinality(Putters) \in Nat /\ Cardinality(Putters') \in Nat
  BY <1>2, CountsAreNaturals
<1>4. ItemsCovered'
  <2>1. CASE waiting["notEmpty"] = {}
    BY <2>1 DEF PutPush, Leave, Notify, ItemsCovered
  <2>2. CASE waiting["notEmpty"] # {}
    <3>1. PICK u \in waiting["notEmpty"] :
            waiting' = [waiting EXCEPT !["notEmpty"] = @ \ {u}]
      BY <2>2 DEF PutPush, Leave, Notify
    <3>2. u \in Threads /\ pc[u] = "take_wait" /\ u # t
      BY <3>1 DEF PutPush, Leave
    <3>3. Takers \subseteq Takers' /\ u \in Takers' /\ u \notin Takers
      BY <3>1, <3>2 DEF PutPush, Leave, Takers
    <3>4. Cardinality(Takers) + 1 <= Cardinality(Takers')
      BY <1>2, <3>3, CountsRise
    <3> QED
      BY <1>1, <1>3, <2>2, <3>4 DEF ItemsCovered
  <2> QED
    BY <2>1, <2>2
<1>5. SlotsCovered'
  <2>1. Putters \ {t} \subseteq Putters' /\ waiting'["notFull"] = waiting["notFull"]
    BY DEF PutPush, Leave, Notify, Putters
  <2>2. Cardinality(Putters) - 1 <= Cardinality(Putters')
    BY <1>2, <2>1, CountsDrop
  <2> QED
    BY <1>1, <1>3, <2>1, <2>2 DEF SlotsCovered
<1> QED
  BY <1>4, <1>5

(* A take covers the slot it frees by the putter it wakes, and uses up a   *)
(* value and itself.                                                       *)
LEMMA TakePopCovers ==
    ASSUME TypeOK, GuardsPair, ItemsCovered, SlotsCovered,
           NEW t \in Threads, TakePop(t)
    PROVE  ItemsCovered' /\ SlotsCovered'
<1> USE QueueAssumption, ValueAssumption DEF TypeOK, GuardsPair
<1>1. Len(queue') = Len(queue) - 1 /\ Len(queue) \in Nat
  BY DEF TakePop, Leave, Empty
<1>2. /\ Takers \subseteq Threads /\ Takers' \subseteq Threads
      /\ Putters \subseteq Threads /\ Putters' \subseteq Threads
  BY DEF Takers, Putters
<1>3. /\ Cardinality(Takers) \in Nat /\ Cardinality(Takers') \in Nat
      /\ Cardinality(Putters) \in Nat /\ Cardinality(Putters') \in Nat
  BY <1>2, CountsAreNaturals
<1>4. SlotsCovered'
  <2>1. CASE waiting["notFull"] = {}
    BY <2>1 DEF TakePop, Leave, Notify, SlotsCovered
  <2>2. CASE waiting["notFull"] # {}
    <3>1. PICK u \in waiting["notFull"] :
            waiting' = [waiting EXCEPT !["notFull"] = @ \ {u}]
      BY <2>2 DEF TakePop, Leave, Notify
    <3>2. u \in Threads /\ pc[u] = "put_wait" /\ u # t
      BY <3>1 DEF TakePop, Leave
    <3>3. Putters \subseteq Putters' /\ u \in Putters' /\ u \notin Putters
      BY <3>1, <3>2 DEF TakePop, Leave, Putters
    <3>4. Cardinality(Putters) + 1 <= Cardinality(Putters')
      BY <1>2, <3>3, CountsRise
    <3> QED
      BY <1>1, <1>3, <2>2, <3>4 DEF SlotsCovered
  <2> QED
    BY <2>1, <2>2
<1>5. ItemsCovered'
  <2>1. Takers \ {t} \subseteq Takers' /\ waiting'["notEmpty"] = waiting["notEmpty"]
    BY DEF TakePop, Leave, Notify, Takers
  <2>2. Cardinality(Takers) - 1 <= Cardinality(Takers')
    BY <1>2, <2>1, CountsDrop
  <2> QED
    BY <1>1, <1>3, <2>1, <2>2 DEF ItemsCovered
<1> QED
  BY <1>4, <1>5

(* A putter goes to sleep only when no slot is free, a taker only when     *)
(* there is no value: nothing has to be covered then.                      *)
LEMMA SleepersCover ==
    ASSUME TypeOK, GuardsPair, ItemsCovered, SlotsCovered,
           NEW t \in Threads, PutWait(t) \/ TakeWait(t)
    PROVE  ItemsCovered' /\ SlotsCovered'
<1> USE QueueAssumption, ValueAssumption DEF TypeOK, GuardsPair
<1>1. Takers' \subseteq Threads /\ Putters' \subseteq Threads
  BY DEF Takers, Putters
<1>2. Cardinality(Takers') \in Nat /\ Cardinality(Putters') \in Nat
  BY <1>1, CountsAreNaturals
<1>3. CASE PutWait(t)
  <2>1. Takers \subseteq Takers' /\ waiting'["notEmpty"] = waiting["notEmpty"]
    BY <1>3 DEF PutWait, Wait, Takers
  <2>2. queue' = queue /\ Capacity - Len(queue) = 0
    BY <1>3 DEF PutWait, Full
  <2>3. ItemsCovered'
    BY <2>1, <2>2, ItemsStayCovered
  <2>4. SlotsCovered'
    BY <1>2, <2>2 DEF SlotsCovered
  <2> QED
    BY <2>3, <2>4
<1>4. CASE TakeWait(t)
  <2>1. Putters \subseteq Putters' /\ waiting'["notFull"] = waiting["notFull"]
    BY <1>4 DEF TakeWait, Wait, Putters
  <2>2. queue' = queue /\ Len(queue) = 0
    BY <1>4 DEF TakeWait, Empty
  <2>3. SlotsCovered'
    BY <2>1, <2>2, SlotsStayCovered
  <2>4. ItemsCovered'
    BY <1>2, <2>2 DEF ItemsCovered
  <2> QED
    BY <2>3, <2>4
<1> QED
  BY <1>3, <1>4

(* The other steps leave the queue alone and take nobody off its way.      *)
LEMMA OthersCover ==
    ASSUME TypeOK, GuardsPair, ItemsCovered, SlotsCovered, NEW t \in Threads,
           \/ Enter(t) \/ Wakeup(t) \/ Return(t) \/ Caller(t) \/ Spurious(t)
           \/ \E g \in Getters : Get(t, g)
    PROVE  ItemsCovered' /\ SlotsCovered'
<1> USE MutexAssumption, QueueAssumption, ValueAssumption DEF TypeOK, GuardsPair, Methods, Getters
<1>1. /\ queue' = queue
      /\ Takers \subseteq Takers' /\ Putters \subseteq Putters'
      /\ waiting'["notEmpty"] \subseteq waiting["notEmpty"]
      /\ waiting'["notFull"] \subseteq waiting["notFull"]
  <2>1. CASE Enter(t)
    BY <2>1 DEF Enter, Lock, Takers, Putters
  <2>2. CASE Wakeup(t)
    BY <2>2 DEF Wakeup, Lock, Takers, Putters
  <2>3. CASE Return(t)
    BY <2>3 DEF Return, Unlock, Takers, Putters
  <2>4. CASE Caller(t)
    BY <2>4 DEF Caller, Call, Takers, Putters
  <2>5. CASE Spurious(t)
    BY <2>5 DEF Spurious, WakeSpuriously, Takers, Putters
  <2>6. CASE \E g \in Getters : Get(t, g)
    BY <2>6 DEF Get, Leave, Takers, Putters
  <2> QED
    BY <2>1, <2>2, <2>3, <2>4, <2>5, <2>6
<1> QED
  BY <1>1, ItemsStayCovered, SlotsStayCovered

(* One Notify per put and per take is enough, for any number of threads    *)
(* and with spurious wakeups: nobody sleeps on a value or a slot that no   *)
(* other thread is on its way to.                                          *)
THEOREM WakeupsSuffice == Spec => []NoLostWakeup
<1>1. Init => ItemsCovered /\ SlotsCovered
  BY QueueAssumption DEF Init, MutexInit, ItemsCovered, SlotsCovered
<1>2. TypeOK /\ GuardsPair /\ ItemsCovered /\ SlotsCovered /\ [Next]_vars
        => ItemsCovered' /\ SlotsCovered'
  <2> SUFFICES ASSUME TypeOK, GuardsPair, ItemsCovered, SlotsCovered, [Next]_vars
               PROVE  ItemsCovered' /\ SlotsCovered'
    OBVIOUS
  <2>1. CASE UNCHANGED vars
    BY <2>1 DEF vars, ItemsCovered, SlotsCovered, Takers, Putters
  <2>2. CASE Next
    BY <2>2, PutPushCovers, TakePopCovers, SleepersCover, OthersCover
       DEF Next, Step
  <2> QED
    BY <2>1, <2>2
<1>3. ItemsCovered /\ SlotsCovered => NoLostWakeup
  BY DEF NoLostWakeup
<1> QED
  BY <1>1, <1>2, <1>3, TypeCorrect, GuardsCorrect, PTL DEF Spec

-----------------------------------------------------------------------------
(* Every step of the monitor is a step of the atomic channel or invisible: *)
(* put and take take effect at PutPush and TakePop, the getters at Get.    *)
THEOREM QueueImplementsChannel == Spec => ChannelSpec
<1> DEFINE phase == [t \in Threads |-> Phase(pc[t])]
<1> USE MutexAssumption, QueueAssumption, ValueAssumption
        DEF TypeOK, Phase, Methods, Getters, Channel!Getters
<1>1. Init => Channel!Init
  BY DEF Init, Channel!Init
<1>2. TypeOK /\ [Next]_vars => [Channel!Next]_(Channel!vars)
  <2> SUFFICES ASSUME TypeOK, [Next]_vars
               PROVE  Channel!Next \/ UNCHANGED Channel!vars
    OBVIOUS
  <2>1. ASSUME NEW t \in Threads, Enter(t)
        PROVE  UNCHANGED Channel!vars
    BY <2>1 DEF Enter, Channel!vars
  <2>2. ASSUME NEW t \in Threads, PutWait(t)
        PROVE  UNCHANGED Channel!vars
    BY <2>2 DEF PutWait, Channel!vars
  <2>3. ASSUME NEW t \in Threads, PutPush(t)
        PROVE  Channel!Put(t)
    <3>1. queue' = Append(queue, val[t]) /\ Len(queue) < Capacity
      BY <2>3, PushBackWithRoom DEF PutPush, Leave, Full
    <3> QED
      BY <2>3, <3>1 DEF PutPush, Leave, Channel!Put, Channel!Effect
  <2>4. ASSUME NEW t \in Threads, TakeWait(t)
        PROVE  UNCHANGED Channel!vars
    BY <2>4 DEF TakeWait, Channel!vars
  <2>5. ASSUME NEW t \in Threads, TakePop(t)
        PROVE  Channel!Take(t)
    BY <2>5 DEF TakePop, Leave, Empty, Channel!Take, Channel!Effect
  <2>6. ASSUME NEW t \in Threads, Wakeup(t)
        PROVE  UNCHANGED Channel!vars
    BY <2>6 DEF Wakeup, Channel!vars
  <2>7. ASSUME NEW t \in Threads, NEW g \in Getters, Get(t, g)
        PROVE  Channel!Get(t, g)
    <3>1. Answer(g) = Channel!Answer(g, Len(queue))
      BY DEF Answer, Channel!Answer, Empty, Full
    <3> QED
      BY <2>7, <3>1 DEF Get, Leave, Channel!Get, Channel!Effect
  <2>8. ASSUME NEW t \in Threads, Return(t)
        PROVE  Channel!Return(t)
    BY <2>8 DEF Return, Channel!Return
  <2>9. ASSUME NEW t \in Threads, Caller(t)
        PROVE  Channel!Next
    <3>1. ASSUME NEW x \in Values, Call(t, "put", x)
          PROVE  Channel!Call(t, "put", x)
      BY <3>1 DEF Call, Channel!Call
    <3>2. ASSUME NEW op \in {"take"} \union Getters, Call(t, op, NoValue)
          PROVE  Channel!Call(t, op, NoValue)
      BY <3>2 DEF Call, Channel!Call
    <3> QED
      BY <2>9, <3>1, <3>2 DEF Caller, Channel!Next
  <2>10. ASSUME NEW t \in Threads, Spurious(t)
         PROVE  UNCHANGED Channel!vars
    BY <2>10 DEF Spurious, Channel!vars
  <2>11. CASE UNCHANGED vars
    BY <2>11 DEF vars, Channel!vars
  <2> QED
    BY <2>1, <2>2, <2>3, <2>4, <2>5, <2>6, <2>7, <2>8, <2>9, <2>10, <2>11
       DEF Next, Step, Channel!Next
<1> QED
  BY <1>1, <1>2, TypeCorrect, PTL DEF Spec, ChannelSpec, Channel!Spec

-----------------------------------------------------------------------------
(* The unbounded queue, on the mutex and the one condition that it has.    *)
U == INSTANCE BlockingQueue WITH Conds <- {"notEmpty"}, MaxLength <- Capacity

(* Sets of threads are counted alike in both.                              *)
LEMMA CountsAlike ==
    ASSUME NEW S
    PROVE  U!Cardinality(S) = Cardinality(S)
  BY DEF U!Cardinality, Cardinality

(* Notify wakes at most one thread and never puts one to sleep.            *)
LEMMA UnboundedNotifyType ==
    ASSUME waiting \in [{"notEmpty"} -> SUBSET Threads], U!Notify("notEmpty")
    PROVE  waiting' \in [{"notEmpty"} -> SUBSET Threads]
  BY QueueAssumption DEF U!Notify

(* The type invariant is inductive by itself; with it, whoever is past its *)
(* Lock owns the mutex, and only a thread in Wait is in the waiting set.   *)
THEOREM UnboundedTypeCorrect == U!Spec => []U!TypeOK
<1>1. U!Init => U!TypeOK
  BY MutexAssumption, QueueAssumption DEF U!Init, U!MutexInit, U!TypeOK
<1>2. U!TypeOK /\ [U!Next]_(U!vars) => U!TypeOK'
  <2> SUFFICES ASSUME U!TypeOK, [U!Next]_(U!vars)
               PROVE  U!TypeOK'
    OBVIOUS
  <2> USE MutexAssumption, QueueAssumption, ValueAssumption DEF U!TypeOK
  <2>1. ASSUME NEW t \in Threads, NEW x \in Values, U!CallPut(t, x)
        PROVE  U!TypeOK'
    BY <2>1 DEF U!CallPut, U!Call
  <2>2. ASSUME NEW t \in Threads, NEW op \in {"take", "size"}, U!Call(t, op, NoValue)
        PROVE  U!TypeOK'
    BY <2>2 DEF U!Call
  <2>3. ASSUME NEW t \in Threads, U!Enter(t)
        PROVE  U!TypeOK'
    BY <2>3 DEF U!Enter, U!Methods, U!Getters, U!Lock
  <2>4. ASSUME NEW t \in Threads, U!Put(t)
        PROVE  U!TypeOK'
    <3>1. queue' \in Seq(Values)
      BY <2>4 DEF U!Put, U!Leave
    <3>2. waiting' \in [{"notEmpty"} -> SUBSET Threads]
      BY <2>4, UnboundedNotifyType DEF U!Put, U!Leave
    <3>3. waiting'["notEmpty"] \subseteq waiting["notEmpty"]
      BY <2>4 DEF U!Put, U!Leave, U!Notify
    <3> QED
      BY <2>4, <3>1, <3>2, <3>3 DEF U!Put, U!Leave
  <2>5. ASSUME NEW t \in Threads, U!TakeWait(t)
        PROVE  U!TypeOK'
    BY <2>5 DEF U!TakeWait, U!Empty, U!Wait
  <2>6. ASSUME NEW t \in Threads, U!Take(t)
        PROVE  U!TypeOK'
    <3>1. queue' \in Seq(Values) /\ Head(queue) \in Values
      BY <2>6 DEF U!Take, U!Empty
    <3> QED
      BY <2>6, <3>1 DEF U!Take, U!Empty, U!Leave
  <2>7. ASSUME NEW t \in Threads, U!Wakeup(t)
        PROVE  U!TypeOK'
    BY <2>7 DEF U!Wakeup, U!Lock
  <2>8. ASSUME NEW t \in Threads, U!Size(t)
        PROVE  U!TypeOK'
    BY <2>8 DEF U!Size, U!Leave
  <2>9. ASSUME NEW t \in Threads, U!Return(t)
        PROVE  U!TypeOK'
    BY <2>9 DEF U!Return, U!Unlock
  <2>10. ASSUME NEW t \in Threads, U!Spurious(t)
         PROVE  U!TypeOK'
    BY <2>10 DEF U!Spurious, U!WakeSpuriously
  <2>11. CASE UNCHANGED U!vars
    BY <2>11 DEF U!vars
  <2> QED
    BY <2>1, <2>2, <2>3, <2>4, <2>5, <2>6, <2>7, <2>8, <2>9, <2>10, <2>11 DEF U!Next
<1> QED
  BY <1>1, <1>2, PTL DEF U!Spec

-----------------------------------------------------------------------------
(* The value that a put adds is covered by the taker it wakes.             *)
LEMMA UnboundedPutCovers ==
    ASSUME U!TypeOK, ItemsCovered, NEW t \in Threads, U!Put(t)
    PROVE  ItemsCovered'
<1> USE QueueAssumption, ValueAssumption DEF U!TypeOK
<1>1. Takers' \subseteq Threads /\ Takers \subseteq Threads
  BY DEF Takers
<1>2. Cardinality(Takers) \in Nat /\ Cardinality(Takers') \in Nat
  BY <1>1, CountsAreNaturals
<1>3. Len(queue') = Len(queue) + 1 /\ Len(queue) \in Nat
  BY DEF U!Put, U!Leave
<1>4. CASE waiting["notEmpty"] = {}
  BY <1>4 DEF U!Put, U!Leave, U!Notify, ItemsCovered
<1>5. CASE waiting["notEmpty"] # {}
  <2>1. PICK u \in waiting["notEmpty"] :
          waiting' = [waiting EXCEPT !["notEmpty"] = @ \ {u}]
    BY <1>5 DEF U!Put, U!Leave, U!Notify
  <2>2. u \in Threads /\ pc[u] = "take_wait" /\ u # t
    BY <2>1 DEF U!Put, U!Leave
  <2>3. Takers \subseteq Takers' /\ u \in Takers' /\ u \notin Takers
    BY <2>1, <2>2 DEF U!Put, U!Leave, Takers
  <2>4. Cardinality(Takers) + 1 <= Cardinality(Takers')
    BY <1>1, <2>3, CountsRise
  <2> QED
    BY <1>2, <1>3, <1>5, <2>4 DEF ItemsCovered
<1> QED
  BY <1>4, <1>5

(* A take uses up a value and itself.                                      *)
LEMMA UnboundedTakeCovers ==
    ASSUME U!TypeOK, ItemsCovered, NEW t \in Threads, U!Take(t)
    PROVE  ItemsCovered'
<1> USE QueueAssumption, ValueAssumption DEF U!TypeOK
<1>1. Takers' \subseteq Threads /\ Takers \subseteq Threads
  BY DEF Takers
<1>2. Cardinality(Takers) \in Nat /\ Cardinality(Takers') \in Nat
  BY <1>1, CountsAreNaturals
<1>3. Len(queue') = Len(queue) - 1 /\ Len(queue) \in Nat
  BY DEF U!Take, U!Empty
<1>4. Takers \ {t} \subseteq Takers' /\ waiting' = waiting
  BY DEF U!Take, U!Empty, U!Leave, Takers
<1>5. Cardinality(Takers) - 1 <= Cardinality(Takers')
  BY <1>1, <1>4, CountsDrop
<1> QED
  BY <1>2, <1>3, <1>4, <1>5 DEF ItemsCovered

(* A taker goes to sleep only when there is nothing to take.               *)
LEMMA UnboundedSleeperCovers ==
    ASSUME U!TypeOK, NEW t \in Threads, U!TakeWait(t)
    PROVE  ItemsCovered'
<1>1. Takers' \subseteq Threads
  BY DEF Takers
<1>2. Cardinality(Takers') \in Nat
  BY <1>1, CountsAreNaturals
<1>3. Len(queue') = 0
  BY DEF U!TakeWait, U!Empty, U!TypeOK
<1> QED
  BY <1>2, <1>3 DEF ItemsCovered

(* The other steps take nobody off its way.                                *)
LEMMA UnboundedOthersCover ==
    ASSUME U!TypeOK, ItemsCovered, NEW t \in Threads,
           \/ \E x \in Values : U!CallPut(t, x)
           \/ \E op \in {"take", "size"} : U!Call(t, op, NoValue)
           \/ U!Enter(t) \/ U!Wakeup(t) \/ U!Size(t) \/ U!Return(t) \/ U!Spurious(t)
    PROVE  ItemsCovered'
<1> USE MutexAssumption, QueueAssumption, ValueAssumption DEF U!TypeOK
<1>1. /\ queue' = queue
      /\ Takers \subseteq Takers'
      /\ waiting'["notEmpty"] \subseteq waiting["notEmpty"]
  <2>1. CASE \/ \E x \in Values : U!CallPut(t, x)
             \/ \E op \in {"take", "size"} : U!Call(t, op, NoValue)
    BY <2>1 DEF U!CallPut, U!Call, Takers
  <2>2. CASE U!Enter(t)
    BY <2>2 DEF U!Enter, U!Lock, Takers
  <2>3. CASE U!Wakeup(t)
    BY <2>3 DEF U!Wakeup, U!Lock, Takers
  <2>4. CASE U!Size(t)
    BY <2>4 DEF U!Size, U!Leave, Takers
  <2>5. CASE U!Return(t)
    BY <2>5 DEF U!Return, U!Unlock, Takers
  <2>6. CASE U!Spurious(t)
    BY <2>6 DEF U!Spurious, U!WakeSpuriously, Takers
  <2> QED
    BY <2>1, <2>2, <2>3, <2>4, <2>5, <2>6
<1> QED
  BY <1>1, ItemsStayCovered

(* One Notify per put is enough for any number of threads: nobody sleeps   *)
(* on a value that no other thread is on its way to.                       *)
THEOREM UnboundedWakeupsSuffice == U!Spec => []ItemsCovered
<1>1. U!Init => ItemsCovered
  BY QueueAssumption DEF U!Init, U!MutexInit, ItemsCovered
<1>2. U!TypeOK /\ ItemsCovered /\ [U!Next]_(U!vars) => ItemsCovered'
  <2> SUFFICES ASSUME U!TypeOK, ItemsCovered, [U!Next]_(U!vars)
               PROVE  ItemsCovered'
    OBVIOUS
  <2>1. CASE UNCHANGED U!vars
    BY <2>1 DEF U!vars, ItemsCovered, Takers
  <2>2. CASE U!Next
    BY <2>2, UnboundedPutCovers, UnboundedTakeCovers, UnboundedSleeperCovers,
       UnboundedOthersCover DEF U!Next
  <2> QED
    BY <2>1, <2>2
<1> QED
  BY <1>1, <1>2, UnboundedTypeCorrect, PTL DEF U!Spec

-----------------------------------------------------------------------------
(* The bound on the values in the queue and on their way keeps the channel *)
(* from being full when a put takes effect.                                *)
Putting == {u \in Threads : pc[u] = "put"}

RoomKept == Len(queue) + Cardinality(Putting) <= Capacity

(* A call of put waits for nothing, but the model makes none that would    *)
(* exceed its bound.                                                       *)
LEMMA RoomStaysKept == U!Spec => []RoomKept
<1>1. U!Init => RoomKept
  <2> SUFFICES ASSUME U!Init
               PROVE  RoomKept
    OBVIOUS
  <2>1. Putting = {} /\ Len(queue) = 0
    BY DEF U!Init, Putting
  <2> QED
    BY <2>1, FS_EmptySet, QueueAssumption DEF RoomKept
<1>2. U!TypeOK /\ RoomKept /\ [U!Next]_(U!vars) => RoomKept'
  <2> SUFFICES ASSUME U!TypeOK, RoomKept, [U!Next]_(U!vars)
               PROVE  RoomKept'
    OBVIOUS
  <2> USE QueueAssumption, ValueAssumption DEF U!TypeOK
  <2>1. Putting \subseteq Threads /\ Putting' \subseteq Threads
    BY DEF Putting
  <2>2. /\ Cardinality(Putting) \in Nat /\ Cardinality(Putting') \in Nat
        /\ Len(queue) \in Nat
    BY <2>1, CountsAreNaturals
  <2>3. ASSUME NEW t \in Threads, NEW x \in Values, U!CallPut(t, x)
        PROVE  RoomKept'
    <3>1. Putting' = Putting \union {t} /\ t \notin Putting
      BY <2>3 DEF U!CallPut, U!Call, Putting
    <3>2. Cardinality(Putting') = Cardinality(Putting) + 1
      BY <2>1, <3>1, CountsAreNaturals, FS_AddElement
    <3>3. Len(queue) + Cardinality(Putting) < Capacity /\ queue' = queue
      BY <2>3, CountsAlike DEF U!CallPut, U!Call, Putting
    <3> QED
      BY <2>2, <3>2, <3>3 DEF RoomKept
  <2>4. ASSUME NEW t \in Threads, U!Put(t)
        PROVE  RoomKept'
    <3>1. Putting' = Putting \ {t} /\ t \in Putting
      BY <2>4 DEF U!Put, U!Leave, Putting
    <3>2. Cardinality(Putting') = Cardinality(Putting) - 1
      BY <2>1, <3>1, CountsAreNaturals, FS_RemoveElement
    <3>3. Len(queue') = Len(queue) + 1
      BY <2>4 DEF U!Put, U!Leave
    <3> QED
      BY <2>2, <3>2, <3>3 DEF RoomKept
  <2>5. ASSUME NEW t \in Threads,
               \/ \E op \in {"take", "size"} : U!Call(t, op, NoValue)
               \/ U!Enter(t) \/ U!TakeWait(t) \/ U!Take(t) \/ U!Wakeup(t) \/ U!Size(t)
               \/ U!Return(t) \/ U!Spurious(t)
        PROVE  RoomKept'
    <3>1. Len(queue') <= Len(queue) /\ Len(queue') \in Nat /\ Putting' \subseteq Putting
      BY <2>5 DEF U!Call, U!Enter, U!TakeWait, U!Take, U!Empty, U!Leave, U!Wakeup, U!Size,
                  U!Return, U!Spurious, Putting
    <3>2. Cardinality(Putting') <= Cardinality(Putting)
      BY <2>1, <3>1, CountsGrow
    <3> QED
      BY <2>2, <3>1, <3>2 DEF RoomKept
  <2>6. CASE UNCHANGED U!vars
    BY <2>6 DEF U!vars, RoomKept, Putting
  <2> QED
    BY <2>3, <2>4, <2>5, <2>6 DEF U!Next
<1> QED
  BY <1>1, <1>2, UnboundedTypeCorrect, PTL DEF U!Spec

(* Every step of the monitor is a step of the atomic channel or invisible: *)
(* put, take and size take effect at Put, Take and Size.                   *)
THEOREM UnboundedQueueImplementsChannel == U!Spec => U!ChannelSpec
<1> USE MutexAssumption, QueueAssumption, ValueAssumption DEF U!TypeOK, U!Phase, U!Channel!Getters
<1>1. U!Init => U!Channel!Init
  BY DEF U!Init, U!Channel!Init
<1>2. U!TypeOK /\ RoomKept /\ [U!Next]_(U!vars) => [U!Channel!Next]_(U!Channel!vars)
  <2> SUFFICES ASSUME U!TypeOK, RoomKept, [U!Next]_(U!vars)
               PROVE  U!Channel!Next \/ UNCHANGED U!Channel!vars
    OBVIOUS
  <2>1. ASSUME NEW t \in Threads, NEW x \in Values, U!CallPut(t, x)
        PROVE  U!Channel!Call(t, "put", x)
    BY <2>1 DEF U!CallPut, U!Call, U!Channel!Call
  <2>2. ASSUME NEW t \in Threads, NEW op \in {"take", "size"}, U!Call(t, op, NoValue)
        PROVE  U!Channel!Call(t, op, NoValue)
    BY <2>2 DEF U!Call, U!Channel!Call
  <2>3. ASSUME NEW t \in Threads, U!Enter(t)
        PROVE  UNCHANGED U!Channel!vars
    BY <2>3 DEF U!Enter, U!Channel!vars
  <2>4. ASSUME NEW t \in Threads, U!Put(t)
        PROVE  U!Channel!Put(t)
    <3>1. Putting \subseteq Threads /\ t \in Putting
      BY <2>4 DEF U!Put, U!Leave, Putting
    <3>2. Cardinality(Putting \ {t}) = Cardinality(Putting) - 1
      BY <3>1, CountsAreNaturals, FS_RemoveElement
    <3>3. Cardinality(Putting) \in Nat /\ Cardinality(Putting \ {t}) \in Nat
      BY <3>1, CountsAreNaturals
    <3>4. Len(queue) < Capacity
      BY <3>2, <3>3 DEF RoomKept
    <3> QED
      BY <2>4, <3>4 DEF U!Put, U!Leave, U!Channel!Put, U!Channel!Effect
  <2>5. ASSUME NEW t \in Threads, U!TakeWait(t)
        PROVE  UNCHANGED U!Channel!vars
    BY <2>5 DEF U!TakeWait, U!Empty, U!Wait, U!Channel!vars
  <2>6. ASSUME NEW t \in Threads, U!Take(t)
        PROVE  U!Channel!Take(t)
    BY <2>6 DEF U!Take, U!Empty, U!Leave, U!Channel!Take, U!Channel!Effect
  <2>7. ASSUME NEW t \in Threads, U!Wakeup(t)
        PROVE  UNCHANGED U!Channel!vars
    BY <2>7 DEF U!Wakeup, U!Channel!vars
  <2>8. ASSUME NEW t \in Threads, U!Size(t)
        PROVE  U!Channel!Get(t, "size")
    <3>1. U!Channel!Answer("size", Len(queue)) = Len(queue)
      BY DEF U!Channel!Answer
    <3> QED
      BY <2>8, <3>1 DEF U!Size, U!Leave, U!Channel!Get, U!Channel!Effect
  <2>9. ASSUME NEW t \in Threads, U!Return(t)
        PROVE  U!Channel!Return(t)
    BY <2>9 DEF U!Return, U!Channel!Return
  <2>10. ASSUME NEW t \in Threads, U!Spurious(t)
         PROVE  UNCHANGED U!Channel!vars
    BY <2>10 DEF U!Spurious, U!Channel!vars
  <2>11. CASE UNCHANGED U!vars
    BY <2>11 DEF U!vars, U!Channel!vars
  <2> QED
    BY <2>1, <2>2, <2>3, <2>4, <2>5, <2>6, <2>7, <2>8, <2>9, <2>10, <2>11
       DEF U!Next, U!Channel!Next
<1> QED
  BY <1>1, <1>2, UnboundedTypeCorrect, RoomStaysKept, PTL
     DEF U!Spec, U!ChannelSpec, U!Channel!Spec

=============================================================================
