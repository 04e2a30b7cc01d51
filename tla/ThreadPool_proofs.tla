--------------------------- MODULE ThreadPool_proofs ---------------------------
(***************************************************************************)
(* Proofs about ThreadPool for any number of workers, tasks and slots, and *)
(* (but for the last two theorems) any number of producers.                *)
(***************************************************************************)
EXTENDS ThreadPool, FiniteSetTheorems, TLAPS

\* The ring has slots: TASKS_PER_THREAD for each of at least one worker.
LEMMA SizeIsPositive == size \in Nat /\ size > 0
<1>1. Cardinality(Workers) \in Nat /\ Cardinality(Workers) > 0
  BY PoolAssumption, FS_CardinalityType, FS_EmptySet
<1>2. TASKS_PER_THREAD \in Nat /\ TASKS_PER_THREAD > 0
  BY PoolAssumption
<1> QED
  BY <1>1, <1>2 DEF size

\* The wrap-around of the ring: the slot after i is i + 1 or, at the end, 0.
LEMMA NextSlotWraps ==
  ASSUME NEW i \in Slots
  PROVE  /\ NextSlot(i) \in Slots
         /\ NextSlot(i) = IF i = size - 1 THEN 0 ELSE i + 1
<1>1. size \in Nat /\ size > 0 /\ i \in Nat /\ i <= size - 1
  BY SizeIsPositive DEF Slots
<1>2. CASE i = size - 1
  BY <1>1, <1>2 DEF NextSlot, Slots
<1>3. CASE i # size - 1
  <2>1. i + 1 \in 0 .. size - 1
    BY <1>1, <1>3
  <2>2. (i + 1) % size = i + 1
    BY <1>1, <2>1
  <2> QED
    BY <2>1, <2>2, <1>3 DEF NextSlot, Slots
<1> QED
  BY <1>2, <1>3

------------------------------------------------------------------------------

\* Theorem: every reachable state is well typed.  In particular the three
\* indices never leave the ring, however stale a local copy of front is.
THEOREM Typing == Spec => []TypeOK
<1>1. Init => TypeOK
  <2> SUFFICES ASSUME Init PROVE TypeOK
    OBVIOUS
  <2>1. 0 \in Slots
    BY SizeIsPositive DEF Slots
  <2> QED
    BY <2>1, PoolAssumption DEF Init, TypeOK, Threads, ProducerPC, WorkerPC
<1>2. TypeOK /\ [Next]_vars => TypeOK'
  <2> SUFFICES ASSUME TypeOK, [Next]_vars PROVE TypeOK'
    OBVIOUS
  <2> USE PoolAssumption DEF TypeOK, Threads, ProducerPC, WorkerPC, Goto,
          ring, flags, mutexes, locals
  <2>1. ASSUME NEW p \in Producers, NEW t \in Tasks, Call(p, t)
        PROVE  TypeOK'
    BY <2>1 DEF Call
  <2>2. ASSUME NEW p \in Producers, LockQueue(p)
        PROVE  TypeOK'
    BY <2>2 DEF LockQueue
  <2>3. ASSUME NEW p \in Producers, CheckIfFull(p) \/ RelockQueue(p)
        PROVE  TypeOK'
    BY <2>3 DEF CheckIfFull, RelockQueue, TestFullFlag
  <2>4. ASSUME NEW p \in Producers, WakeProducer(p)
        PROVE  TypeOK'
    BY <2>4 DEF WakeProducer
  <2>5. ASSUME NEW p \in Producers, AddTaskToQueue(p)
        PROVE  TypeOK'
    <3>1. NextSlot(back) \in Slots /\ newtask[p] \in Tasks
      BY <2>5, NextSlotWraps DEF AddTaskToQueue
    <3> QED
      BY <2>5, <3>1 DEF AddTaskToQueue
  <2>6. ASSUME NEW p \in Producers, SetFullFlag(p) \/ CountTask(p)
        PROVE  TypeOK'
    BY <2>6 DEF SetFullFlag, CountTask
  <2>7. ASSUME NEW p \in Producers, SignalTask(p)
        PROVE  TypeOK'
    BY <2>7 DEF SignalTask
  <2>8. ASSUME NEW w \in Workers, ClaimTask(w)
        PROVE  TypeOK'
    BY <2>8 DEF ClaimTask
  <2>9. ASSUME NEW w \in Workers, ReadFront(w)
        PROVE  TypeOK'
    BY <2>9 DEF ReadFront
  <2>10. ASSUME NEW w \in Workers, PopTask(w)
         PROVE  TypeOK'
    <3>1. NextSlot(local_front[w]) \in Slots
      BY NextSlotWraps
    <3> QED
      BY <2>10, <3>1 DEF PopTask
  <2>11. ASSUME NEW w \in Workers, FindEmpty(w)
         PROVE  TypeOK'
    BY <2>11 DEF FindEmpty
  <2>12. ASSUME NEW w \in Workers, ClearFullFlag(w)
         PROVE  TypeOK'
    BY <2>12 DEF ClearFullFlag
  <2>13. ASSUME NEW w \in Workers, RunJob(w)
         PROVE  TypeOK'
    BY <2>13 DEF RunJob
  <2>14. ASSUME NEW t \in Threads, SpuriousWakeup(t)
         PROVE  TypeOK'
    BY <2>14 DEF SpuriousWakeup
  <2>15. CASE UNCHANGED vars
    BY <2>15 DEF vars
  <2> QED
    BY <2>1, <2>2, <2>3, <2>4, <2>5, <2>6, <2>7, <2>8, <2>9, <2>10, <2>11,
       <2>12, <2>13, <2>14, <2>15 DEF Next, AddSteps, LoopSteps
<1> QED
  BY <1>1, <1>2, PTL DEF Spec


------------------------------------------------------------------------------

\* Theorem: a producer that is looking at the flag, filling a slot or raising
\* the flag owns queue_m; the owner of q_flag_m is the producer relocking
\* queue_m; and no worker that took a task still owns queue_m.
THEOREM MutexOwnership == Spec => []MutexOwners
<1>1. Init => MutexOwners
  BY PoolAssumption DEF Init, MutexOwners, Threads
<1>2. TypeOK /\ TypeOK' /\ MutexOwners /\ [Next]_vars => MutexOwners'
  <2> SUFFICES ASSUME TypeOK, TypeOK', MutexOwners, [Next]_vars
               PROVE  MutexOwners'
    OBVIOUS
  <2> USE PoolAssumption DEF TypeOK, Threads, ProducerPC, WorkerPC, Goto,
          ring, flags, mutexes, locals,
          MutexOwners
  <2>1. ASSUME NEW p \in Producers, NEW t \in Tasks, Call(p, t)
        PROVE  MutexOwners'
    BY <2>1 DEF Call
  <2>2. ASSUME NEW p \in Producers, LockQueue(p)
        PROVE  MutexOwners'
    BY <2>2 DEF LockQueue
  <2>3. ASSUME NEW p \in Producers, CheckIfFull(p) \/ RelockQueue(p)
        PROVE  MutexOwners'
    BY <2>3 DEF CheckIfFull, RelockQueue, TestFullFlag
  <2>4. ASSUME NEW p \in Producers, WakeProducer(p)
        PROVE  MutexOwners'
    BY <2>4 DEF WakeProducer
  <2>5. ASSUME NEW p \in Producers, AddTaskToQueue(p)
        PROVE  MutexOwners'
    BY <2>5 DEF AddTaskToQueue
  <2>6. ASSUME NEW p \in Producers, SetFullFlag(p)
        PROVE  MutexOwners'
    BY <2>6 DEF SetFullFlag
  <2>7. ASSUME NEW p \in Producers, CountTask(p)
        PROVE  MutexOwners'
    BY <2>7 DEF CountTask
  <2>8. ASSUME NEW p \in Producers, SignalTask(p)
        PROVE  MutexOwners'
    BY <2>8 DEF SignalTask
  <2>9. ASSUME NEW w \in Workers, ClaimTask(w)
        PROVE  MutexOwners'
    BY <2>9 DEF ClaimTask
  <2>10. ASSUME NEW w \in Workers, ReadFront(w)
         PROVE  MutexOwners'
    BY <2>10 DEF ReadFront
  <2>11. ASSUME NEW w \in Workers, PopTask(w)
         PROVE  MutexOwners'
    BY <2>11 DEF PopTask
  <2>12. ASSUME NEW w \in Workers, FindEmpty(w)
         PROVE  MutexOwners'
    BY <2>12 DEF FindEmpty
  <2>13. ASSUME NEW w \in Workers, ClearFullFlag(w)
         PROVE  MutexOwners'
    BY <2>13 DEF ClearFullFlag
  <2>14. ASSUME NEW w \in Workers, RunJob(w)
         PROVE  MutexOwners'
    BY <2>14 DEF RunJob
  <2>15. ASSUME NEW t \in Threads, SpuriousWakeup(t)
         PROVE  MutexOwners'
    BY <2>15 DEF SpuriousWakeup
  <2>16. CASE UNCHANGED vars
    BY <2>16 DEF vars
  <2> QED
    BY <2>1, <2>2, <2>3, <2>4, <2>5, <2>6, <2>7, <2>8,
       <2>9, <2>10, <2>11, <2>12, <2>13, <2>14, <2>15, <2>16 DEF Next, AddSteps, LoopSteps
<1> QED
  BY <1>1, <1>2, Typing, PTL DEF Spec

\* Theorem: the full flag is a bit.  It needs MutexOwners: two producers past
\* the check would both own queue_m, so only one can raise the flag, and it was
\* down when that one looked.
THEOREM FullFlagIsBinary == Spec => []FullFlagSound
<1>1. Init => FullFlagSound
  BY PoolAssumption DEF Init, FullFlagSound, MutexOwners, Threads
<1>2. TypeOK /\ TypeOK' /\ MutexOwners /\ FullFlagSound /\ [Next]_vars => FullFlagSound'
  <2> SUFFICES ASSUME TypeOK, TypeOK', MutexOwners, FullFlagSound, [Next]_vars
               PROVE  FullFlagSound'
    OBVIOUS
  <2> USE PoolAssumption DEF TypeOK, Threads, ProducerPC, WorkerPC, Goto,
          ring, flags, mutexes, locals,
          FullFlagSound, MutexOwners
  <2>1. ASSUME NEW p \in Producers, NEW t \in Tasks, Call(p, t)
        PROVE  FullFlagSound'
    BY <2>1 DEF Call
  <2>2. ASSUME NEW p \in Producers, LockQueue(p)
        PROVE  FullFlagSound'
    BY <2>2 DEF LockQueue
  <2>3. ASSUME NEW p \in Producers, CheckIfFull(p) \/ RelockQueue(p)
        PROVE  FullFlagSound'
    BY <2>3 DEF CheckIfFull, RelockQueue, TestFullFlag
  <2>4. ASSUME NEW p \in Producers, WakeProducer(p)
        PROVE  FullFlagSound'
    BY <2>4 DEF WakeProducer
  <2>5. ASSUME NEW p \in Producers, AddTaskToQueue(p)
        PROVE  FullFlagSound'
    BY <2>5 DEF AddTaskToQueue
  <2>6. ASSUME NEW p \in Producers, SetFullFlag(p)
        PROVE  FullFlagSound'
    BY <2>6 DEF SetFullFlag
  <2>7. ASSUME NEW p \in Producers, CountTask(p)
        PROVE  FullFlagSound'
    BY <2>7 DEF CountTask
  <2>8. ASSUME NEW p \in Producers, SignalTask(p)
        PROVE  FullFlagSound'
    BY <2>8 DEF SignalTask
  <2>9. ASSUME NEW w \in Workers, ClaimTask(w)
        PROVE  FullFlagSound'
    BY <2>9 DEF ClaimTask
  <2>10. ASSUME NEW w \in Workers, ReadFront(w)
         PROVE  FullFlagSound'
    BY <2>10 DEF ReadFront
  <2>11. ASSUME NEW w \in Workers, PopTask(w)
         PROVE  FullFlagSound'
    BY <2>11 DEF PopTask
  <2>12. ASSUME NEW w \in Workers, FindEmpty(w)
         PROVE  FullFlagSound'
    BY <2>12 DEF FindEmpty
  <2>13. ASSUME NEW w \in Workers, ClearFullFlag(w)
         PROVE  FullFlagSound'
    BY <2>13 DEF ClearFullFlag
  <2>14. ASSUME NEW w \in Workers, RunJob(w)
         PROVE  FullFlagSound'
    BY <2>14 DEF RunJob
  <2>15. ASSUME NEW t \in Threads, SpuriousWakeup(t)
         PROVE  FullFlagSound'
    BY <2>15 DEF SpuriousWakeup
  <2>16. CASE UNCHANGED vars
    BY <2>16 DEF vars
  <2> QED
    BY <2>1, <2>2, <2>3, <2>4, <2>5, <2>6, <2>7, <2>8,
       <2>9, <2>10, <2>11, <2>12, <2>13, <2>14, <2>15, <2>16 DEF Next, AddSteps, LoopSteps
<1> QED
  BY <1>1, <1>2, Typing, MutexOwnership, PTL DEF Spec

\* Theorem: no interleaving loses the signal that a task is ready.
THEOREM TaskSignalsArrive == Spec => []NoLostTaskSignal
<1>1. Init => NoLostTaskSignal
  BY PoolAssumption DEF Init, NoLostTaskSignal, Threads
<1>2. TypeOK /\ TypeOK' /\ NoLostTaskSignal /\ [Next]_vars => NoLostTaskSignal'
  <2> SUFFICES ASSUME TypeOK, TypeOK', NoLostTaskSignal, [Next]_vars
               PROVE  NoLostTaskSignal'
    OBVIOUS
  <2> USE PoolAssumption DEF TypeOK, Threads, ProducerPC, WorkerPC, Goto,
          ring, flags, mutexes, locals,
          NoLostTaskSignal
  <2>1. ASSUME NEW p \in Producers, NEW t \in Tasks, Call(p, t)
        PROVE  NoLostTaskSignal'
    BY <2>1 DEF Call
  <2>2. ASSUME NEW p \in Producers, LockQueue(p)
        PROVE  NoLostTaskSignal'
    BY <2>2 DEF LockQueue
  <2>3. ASSUME NEW p \in Producers, CheckIfFull(p) \/ RelockQueue(p)
        PROVE  NoLostTaskSignal'
    BY <2>3 DEF CheckIfFull, RelockQueue, TestFullFlag
  <2>4. ASSUME NEW p \in Producers, WakeProducer(p)
        PROVE  NoLostTaskSignal'
    BY <2>4 DEF WakeProducer
  <2>5. ASSUME NEW p \in Producers, AddTaskToQueue(p)
        PROVE  NoLostTaskSignal'
    BY <2>5 DEF AddTaskToQueue
  <2>6. ASSUME NEW p \in Producers, SetFullFlag(p)
        PROVE  NoLostTaskSignal'
    BY <2>6 DEF SetFullFlag
  <2>7. ASSUME NEW p \in Producers, CountTask(p)
        PROVE  NoLostTaskSignal'
    BY <2>7 DEF CountTask
  <2>8. ASSUME NEW p \in Producers, SignalTask(p)
        PROVE  NoLostTaskSignal'
    BY <2>8 DEF SignalTask
  <2>9. ASSUME NEW w \in Workers, ClaimTask(w)
        PROVE  NoLostTaskSignal'
    BY <2>9 DEF ClaimTask
  <2>10. ASSUME NEW w \in Workers, ReadFront(w)
         PROVE  NoLostTaskSignal'
    BY <2>10 DEF ReadFront
  <2>11. ASSUME NEW w \in Workers, PopTask(w)
         PROVE  NoLostTaskSignal'
    BY <2>11 DEF PopTask
  <2>12. ASSUME NEW w \in Workers, FindEmpty(w)
         PROVE  NoLostTaskSignal'
    BY <2>12 DEF FindEmpty
  <2>13. ASSUME NEW w \in Workers, ClearFullFlag(w)
         PROVE  NoLostTaskSignal'
    BY <2>13 DEF ClearFullFlag
  <2>14. ASSUME NEW w \in Workers, RunJob(w)
         PROVE  NoLostTaskSignal'
    BY <2>14 DEF RunJob
  <2>15. ASSUME NEW t \in Threads, SpuriousWakeup(t)
         PROVE  NoLostTaskSignal'
    BY <2>15 DEF SpuriousWakeup
  <2>16. CASE UNCHANGED vars
    BY <2>16 DEF vars
  <2> QED
    BY <2>1, <2>2, <2>3, <2>4, <2>5, <2>6, <2>7, <2>8,
       <2>9, <2>10, <2>11, <2>12, <2>13, <2>14, <2>15, <2>16 DEF Next, AddSteps, LoopSteps
<1> QED
  BY <1>1, <1>2, Typing, PTL DEF Spec

------------------------------------------------------------------------------
(* One producer, as in server.c, where only epoll_wait_loop adds tasks. *)

\* Theorem: with one producer q_flag_m and queue_m are never waited for in a
\* cycle.
THEOREM NoDeadlyEmbrace ==
  ASSUME \A p, q \in Producers : p = q
  PROVE  Spec => []NoLockCycle
<1>1. TypeOK /\ MutexOwners => NoLockCycle
  BY PoolAssumption DEF TypeOK, MutexOwners, NoLockCycle, Threads, ProducerPC,
     WorkerPC
<1> QED
  BY <1>1, Typing, MutexOwnership, PTL

\* Theorem: with one producer no interleaving loses the signal that the queue
\* has space.  (With two, one of them can go on waiting after the flag is down:
\* dequeue signals once for each time it lowers the flag.)
THEOREM SpaceSignalsArrive == 
  ASSUME \A p, q \in Producers : p = q
  PROVE  Spec => []NoLostSpaceSignal
<1>1. Init => NoLostSpaceSignal
  BY PoolAssumption DEF Init, NoLostSpaceSignal, Threads
<1>2. TypeOK /\ TypeOK' /\ NoLostSpaceSignal /\ [Next]_vars => NoLostSpaceSignal'
  <2> SUFFICES ASSUME TypeOK, TypeOK', NoLostSpaceSignal, [Next]_vars
               PROVE  NoLostSpaceSignal'
    OBVIOUS
  <2> USE PoolAssumption DEF TypeOK, Threads, ProducerPC, WorkerPC, Goto,
          ring, flags, mutexes, locals,
          NoLostSpaceSignal
  <2>1. ASSUME NEW p \in Producers, NEW t \in Tasks, Call(p, t)
        PROVE  NoLostSpaceSignal'
    BY <2>1 DEF Call
  <2>2. ASSUME NEW p \in Producers, LockQueue(p)
        PROVE  NoLostSpaceSignal'
    BY <2>2 DEF LockQueue
  <2>3. ASSUME NEW p \in Producers, CheckIfFull(p) \/ RelockQueue(p)
        PROVE  NoLostSpaceSignal'
    BY <2>3 DEF CheckIfFull, RelockQueue, TestFullFlag
  <2>4. ASSUME NEW p \in Producers, WakeProducer(p)
        PROVE  NoLostSpaceSignal'
    BY <2>4 DEF WakeProducer
  <2>5. ASSUME NEW p \in Producers, AddTaskToQueue(p)
        PROVE  NoLostSpaceSignal'
    BY <2>5 DEF AddTaskToQueue
  <2>6. ASSUME NEW p \in Producers, SetFullFlag(p)
        PROVE  NoLostSpaceSignal'
    BY <2>6 DEF SetFullFlag
  <2>7. ASSUME NEW p \in Producers, CountTask(p)
        PROVE  NoLostSpaceSignal'
    BY <2>7 DEF CountTask
  <2>8. ASSUME NEW p \in Producers, SignalTask(p)
        PROVE  NoLostSpaceSignal'
    BY <2>8 DEF SignalTask
  <2>9. ASSUME NEW w \in Workers, ClaimTask(w)
        PROVE  NoLostSpaceSignal'
    BY <2>9 DEF ClaimTask
  <2>10. ASSUME NEW w \in Workers, ReadFront(w)
         PROVE  NoLostSpaceSignal'
    BY <2>10 DEF ReadFront
  <2>11. ASSUME NEW w \in Workers, PopTask(w)
         PROVE  NoLostSpaceSignal'
    BY <2>11 DEF PopTask
  <2>12. ASSUME NEW w \in Workers, FindEmpty(w)
         PROVE  NoLostSpaceSignal'
    BY <2>12 DEF FindEmpty
  <2>13. ASSUME NEW w \in Workers, ClearFullFlag(w)
         PROVE  NoLostSpaceSignal'
    BY <2>13 DEF ClearFullFlag
  <2>14. ASSUME NEW w \in Workers, RunJob(w)
         PROVE  NoLostSpaceSignal'
    BY <2>14 DEF RunJob
  <2>15. ASSUME NEW t \in Threads, SpuriousWakeup(t)
         PROVE  NoLostSpaceSignal'
    BY <2>15 DEF SpuriousWakeup
  <2>16. CASE UNCHANGED vars
    BY <2>16 DEF vars
  <2> QED
    BY <2>1, <2>2, <2>3, <2>4, <2>5, <2>6, <2>7, <2>8,
       <2>9, <2>10, <2>11, <2>12, <2>13, <2>14, <2>15, <2>16 DEF Next, AddSteps, LoopSteps
<1> QED
  BY <1>1, <1>2, Typing, PTL DEF Spec

==============================================================================
