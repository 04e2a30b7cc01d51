---------------------------- MODULE TaskQueue_proofs ----------------------------
(***************************************************************************)
(* Proof that ThreadPool implements TaskQueue, for any number of tasks,    *)
(* slots and producers, while one worker empties the ring and the ring has *)
(* a slot more than there are tasks.  With more workers a stale            *)
(* local_front breaks the queue; with more tasks the worker may lower the  *)
(* full flag of a ring that is full.                                       *)
(***************************************************************************)
EXTENDS ThreadPool_proofs, SequenceTheorems

OneWorker  == \A v, w \in Workers : v = w
RoomForAll == IsFiniteSet(Tasks) /\ Cardinality(Tasks) <= size - 1

AddingPC == {"lock", "check", "q_wait", "q_wake", "relock", "add"}

\* A task is in one place: with a producer that has yet to queue it, in one
\* slot, or with the worker; and the copy of front that dequeue made is still
\* right when it is used.
OnePlace ==
    /\ Contents \in Seq(outstanding)
    /\ \A i, j \in 1 .. Len(Contents) : Contents[i] = Contents[j] => i = j
    /\ \A p \in Producers : pc[p] \in AddingPC =>
        /\ newtask[p] \in outstanding
        /\ \A i \in 1 .. Len(Contents) : Contents[i] # newtask[p]
        /\ \A w \in Workers : job_num[w] # newtask[p]
        /\ \A q \in Producers : pc[q] \in AddingPC /\ newtask[q] = newtask[p] => p = q
    /\ \A w \in Workers :
        /\ IF pc[w] \in {"clear_full", "job"}
             THEN /\ job_num[w] \in outstanding
                  /\ \A i \in 1 .. Len(Contents) : Contents[i] # job_num[w]
             ELSE job_num[w] = NoTask
        /\ pc[w] = "dequeue" => local_front[w] = front

------------------------------------------------------------------------------
(* The ring as a sequence. *)

LEMMA Wrap ==
  ASSUME NEW x \in 0 .. 2 * size - 1
  PROVE  x % size = IF x < size THEN x ELSE x - size
<1>1. size \in Nat /\ size > 0
  BY SizeIsPositive
<1>2. CASE x < size
  BY <1>1, <1>2
<1>3. CASE x >= size
  BY <1>1, <1>3
<1> QED
  BY <1>1, <1>2, <1>3

\* The number of queued tasks, and the slot each is in.
LEMMA RingGeometry ==
  ASSUME TypeOK
  PROVE  /\ QueueLen = IF back >= front THEN back - front ELSE back + size - front
         /\ QueueLen \in 0 .. size - 1
         /\ QueueLen = 0 <=> front = back
         /\ \A i \in 1 .. size :
              (front + i - 1) % size = IF front + i - 1 < size THEN front + i - 1
                                       ELSE front + i - 1 - size
<1>1. size \in Nat /\ size > 0 /\ front \in 0 .. size - 1 /\ back \in 0 .. size - 1
  BY SizeIsPositive DEF TypeOK, Slots
<1>2. back + size - front \in 0 .. 2 * size - 1
  BY <1>1
<1>3. QueueLen = IF back + size - front < size THEN back + size - front
                 ELSE back - front
  BY <1>1, <1>2, Wrap DEF QueueLen
<1>4. \A i \in 1 .. size : front + i - 1 \in 0 .. 2 * size - 1
  BY <1>1
<1>5. \A i \in 1 .. size :
         (front + i - 1) % size = IF front + i - 1 < size THEN front + i - 1
                                  ELSE front + i - 1 - size
  <2> TAKE i \in 1 .. size
  <2>1. PICK x : x = front + i - 1
    OBVIOUS
  <2>2. x \in 0 .. 2 * size - 1
    BY <1>4, <2>1
  <2>3. x % size = IF x < size THEN x ELSE x - size
    BY <2>2, Wrap
  <2> QED
    BY <1>1, <2>1, <2>2, <2>3
<1> QED
  BY <1>1, <1>3, <1>5

\* The ring between front and back is a sequence of tasks, slot by slot.
LEMMA ContentsIsSequence ==
  ASSUME TypeOK
  PROVE  /\ Contents \in Seq(Tasks \cup {Junk})
         /\ Len(Contents) = QueueLen
         /\ \A i \in 1 .. QueueLen : Contents[i] = queue_array[(front + i - 1) % size]
<1>1. size \in Nat /\ size > 0 /\ front \in 0 .. size - 1
  BY SizeIsPositive DEF TypeOK, Slots
<1>2. QueueLen \in 0 .. size - 1
  BY RingGeometry
<1>3. \A i \in 1 .. QueueLen : (front + i - 1) % size \in Slots
  BY <1>1, <1>2, RingGeometry DEF Slots
<1>4. \A i \in 1 .. QueueLen : queue_array[(front + i - 1) % size] \in Tasks \cup {Junk}
  BY <1>3 DEF TypeOK
<1>5. QueueLen \in Nat
  BY <1>1, <1>2
<1>6. Contents \in [1 .. QueueLen -> Tasks \cup {Junk}]
  BY <1>4 DEF Contents
<1>7. Contents \in Seq(Tasks \cup {Junk})
  BY <1>5, <1>6, SeqDef
<1>8. Len(Contents) = QueueLen
  BY <1>5, <1>6, <1>7, LenProperties
<1> QED
  BY <1>7, <1>8 DEF Contents

\* Filling the slot at back appends, while one more slot stays free.
LEMMA FillAppends ==
  ASSUME TypeOK, TypeOK', NEW t \in Tasks, QueueLen < size - 1,
         queue_array' = [queue_array EXCEPT ![back] = t],
         back' = NextSlot(back), front' = front
  PROVE  Contents' = Append(Contents, t)
<1>1. /\ size \in Nat /\ size > 0
      /\ front \in 0 .. size - 1 /\ back \in 0 .. size - 1
  BY SizeIsPositive DEF TypeOK, Slots
<1>2. back' = IF back = size - 1 THEN 0 ELSE back + 1
  BY NextSlotWraps DEF TypeOK
<1>3. QueueLen = IF back >= front THEN back - front ELSE back + size - front
  BY RingGeometry
<1>4. (QueueLen)' = IF back' >= front THEN back' - front ELSE back' + size - front
  <2>1. back' \in 0 .. size - 1
    BY <1>1, <1>2
  <2>2. back' + size - front \in 0 .. 2 * size - 1
    BY <1>1, <2>1
  <2>3. (QueueLen)' = (back' + size - front) % size
    BY DEF QueueLen, size
  <2> QED
    BY <1>1, <2>1, <2>2, <2>3, Wrap
<1>5. (QueueLen)' = QueueLen + 1
  BY <1>1, <1>2, <1>3, <1>4
<1>6. QueueLen \in 0 .. size - 2
  BY <1>1, <1>3
<1>7. (Contents)' = [i \in 1 .. QueueLen + 1 |-> queue_array'[(front + i - 1) % size]]
  BY <1>5 DEF Contents, size
<1>8. (front + (QueueLen + 1) - 1) % size = back
  BY <1>1, <1>3, <1>6, RingGeometry
<1>9. \A i \in 1 .. QueueLen : /\ (front + i - 1) % size \in Slots
                               /\ (front + i - 1) % size # back
  BY <1>1, <1>3, <1>6, RingGeometry DEF Slots
<1>10. queue_array'[back] = t /\ \A s \in Slots \ {back} : queue_array'[s] = queue_array[s]
  BY DEF TypeOK
<1>11. Contents \in Seq(Tasks \cup {Junk}) /\ Len(Contents) = QueueLen
  BY ContentsIsSequence
<1>12. /\ Append(Contents, t) \in Seq(Tasks \cup {Junk})
       /\ Len(Append(Contents, t)) = QueueLen + 1
       /\ \A i \in 1 .. QueueLen + 1 :
            Append(Contents, t)[i] = IF i = QueueLen + 1 THEN t ELSE Contents[i]
  BY <1>6, <1>11, AppendProperties
<1>13. \A i \in 1 .. QueueLen + 1 :
          queue_array'[(front + i - 1) % size] =
            IF i = QueueLen + 1 THEN t ELSE Contents[i]
  <2> TAKE i \in 1 .. QueueLen + 1
  <2>1. CASE i = QueueLen + 1
    BY <2>1, <1>8, <1>10
  <2>2. CASE i # QueueLen + 1
    <3>1. i \in 1 .. QueueLen
      BY <1>1, <1>6, <2>2
    <3> QED
      BY <2>2, <3>1, <1>9, <1>10, ContentsIsSequence
  <2> QED
    BY <2>1, <2>2
<1>14. /\ Contents' \in Seq(Tasks \cup {Junk})
       /\ Len(Contents') = QueueLen + 1
       /\ \A i \in 1 .. QueueLen + 1 :
            (Contents')[i] = IF i = QueueLen + 1 THEN t ELSE Contents[i]
  <2>1. \A i \in 1 .. QueueLen + 1 :
           queue_array'[(front + i - 1) % size] \in Tasks \cup {Junk}
    <3> TAKE i \in 1 .. QueueLen + 1
    <3>1. CASE i = QueueLen + 1
      BY <3>1, <1>13
    <3>2. CASE i # QueueLen + 1
      <4>1. i \in 1 .. Len(Contents)
        BY <1>1, <1>6, <1>11, <3>2
      <4>2. Contents[i] \in Tasks \cup {Junk}
        BY <1>11, <4>1, ElementOfSeq
      <4> QED
        BY <3>2, <4>2, <1>13
    <3> QED
      BY <3>1, <3>2
  <2>2. Contents' \in [1 .. QueueLen + 1 -> Tasks \cup {Junk}]
    BY <1>7, <2>1
  <2>3. QueueLen + 1 \in Nat
    BY <1>1, <1>6
  <2>4. Contents' \in Seq(Tasks \cup {Junk})
    BY <2>2, <2>3, SeqDef
  <2> QED
    BY <1>7, <1>13, <2>2, <2>3, <2>4, LenProperties
<1> QED
  BY <1>12, <1>14, SeqEqual

\* Advancing front from a slot that is not back takes the head.
LEMMA AdvanceTakesHead ==
  ASSUME TypeOK, front # back, front' = NextSlot(front),
         UNCHANGED <<back, queue_array>>
  PROVE  /\ Contents # <<>>
         /\ Head(Contents) = queue_array[front]
         /\ Contents' = Tail(Contents)
<1>1. /\ size \in Nat /\ size > 0
      /\ front \in 0 .. size - 1 /\ back \in 0 .. size - 1
  BY SizeIsPositive DEF TypeOK, Slots
<1>2. front' = IF front = size - 1 THEN 0 ELSE front + 1
  BY NextSlotWraps DEF TypeOK
<1>3. QueueLen = IF back >= front THEN back - front ELSE back + size - front
  BY RingGeometry
<1>4. (QueueLen)' = IF back >= front' THEN back - front' ELSE back + size - front'
  <2>1. front' \in 0 .. size - 1
    BY <1>1, <1>2
  <2>2. back + size - front' \in 0 .. 2 * size - 1
    BY <1>1, <2>1
  <2>3. (QueueLen)' = (back + size - front') % size
    BY DEF QueueLen, size
  <2> QED
    BY <1>1, <2>1, <2>2, <2>3, Wrap
<1>5. (QueueLen)' = QueueLen - 1 /\ QueueLen \in 1 .. size - 1
  BY <1>1, <1>2, <1>3, <1>4
<1>6. Contents \in Seq(Tasks \cup {Junk}) /\ Len(Contents) = QueueLen
  BY ContentsIsSequence
<1>7. Contents # <<>>
  BY <1>5, <1>6, EmptySeq
<1>8. Head(Contents) = queue_array[front]
  <2>1. (front + 1 - 1) % size = front
    BY <1>1, <1>5, RingGeometry
  <2>2. Contents[1] = queue_array[(front + 1 - 1) % size]
    BY <1>5, ContentsIsSequence
  <2>3. Head(Contents) = Contents[1]
    BY <1>6, <1>7, HeadTailProperties
  <2> QED
    BY <2>1, <2>2, <2>3
<1>9. (Contents)' = [i \in 1 .. QueueLen - 1 |-> queue_array[(front' + i - 1) % size]]
  BY <1>5 DEF Contents, size
<1>10. \A i \in 1 .. QueueLen - 1 :
          (front' + i - 1) % size = (front + (i + 1) - 1) % size
  <2> TAKE i \in 1 .. QueueLen - 1
  <2>1. PICK x, y : x = front' + i - 1 /\ y = front + (i + 1) - 1
    OBVIOUS
  <2>2. x \in 0 .. 2 * size - 1 /\ y \in 0 .. 2 * size - 1
    BY <1>1, <1>2, <1>5, <2>1
  <2>3. /\ x % size = IF x < size THEN x ELSE x - size
        /\ y % size = IF y < size THEN y ELSE y - size
    BY <2>2, Wrap
  <2>4. x % size = y % size
    BY <1>1, <1>2, <1>5, <2>1, <2>2, <2>3
  <2> QED
    BY <2>1, <2>4
<1>11. \A i \in 1 .. QueueLen - 1 :
          queue_array[(front' + i - 1) % size] = Contents[i + 1]
  <2> TAKE i \in 1 .. QueueLen - 1
  <2>1. i + 1 \in 1 .. QueueLen
    BY <1>1, <1>5
  <2> QED
    BY <2>1, <1>10, ContentsIsSequence
<1>12. /\ Tail(Contents) \in Seq(Tasks \cup {Junk})
       /\ Len(Tail(Contents)) = QueueLen - 1
       /\ \A i \in 1 .. QueueLen - 1 : Tail(Contents)[i] = Contents[i + 1]
  BY <1>6, <1>7, HeadTailProperties
<1>13. /\ Contents' \in Seq(Tasks \cup {Junk})
       /\ Len(Contents') = QueueLen - 1
       /\ \A i \in 1 .. QueueLen - 1 : (Contents')[i] = Contents[i + 1]
  <2>1. \A i \in 1 .. QueueLen - 1 :
           queue_array[(front' + i - 1) % size] \in Tasks \cup {Junk}
    <3> TAKE i \in 1 .. QueueLen - 1
    <3>1. i + 1 \in 1 .. Len(Contents)
      BY <1>1, <1>5, <1>6
    <3>2. Contents[i + 1] \in Tasks \cup {Junk}
      BY <1>6, <3>1, ElementOfSeq
    <3> QED
      BY <3>2, <1>11
  <2>2. Contents' \in [1 .. QueueLen - 1 -> Tasks \cup {Junk}]
    BY <1>9, <2>1
  <2>3. QueueLen - 1 \in Nat
    BY <1>1, <1>5
  <2>4. Contents' \in Seq(Tasks \cup {Junk})
    BY <2>2, <2>3, SeqDef
  <2> QED
    BY <1>9, <1>11, <2>2, <2>3, <2>4, LenProperties
<1> QED
  BY <1>7, <1>8, <1>12, <1>13, SeqEqual

------------------------------------------------------------------------------
(* A task is in one place. *)

\* No more tasks are queued than there are, less the one about to be queued.
LEMMA RoomToAdd ==
  ASSUME TypeOK, OnePlace, RoomForAll, NEW p \in Producers, pc[p] \in AddingPC
  PROVE  QueueLen < size - 1
<1> DEFINE n == Len(Contents)
           f == [i \in 1 .. n + 1 |-> IF i = n + 1 THEN newtask[p] ELSE Contents[i]]
<1>1. n \in Nat /\ n = QueueLen
  BY LenProperties, ContentsIsSequence DEF OnePlace
<1>2. \A i \in 1 .. n : Contents[i] \in outstanding
  BY ElementOfSeq DEF OnePlace
<1>3. f \in [1 .. n + 1 -> Tasks]
  BY <1>1, <1>2 DEF OnePlace, TypeOK
<1>4. \A i, j \in 1 .. n + 1 : f[i] = f[j] => i = j
  BY <1>1 DEF OnePlace
<1>5. IsFiniteSet(1 .. n + 1) /\ Cardinality(1 .. n + 1) = n + 1
  BY <1>1, FS_Interval
<1>6. Cardinality(Tasks) \in Nat /\ size \in Nat
  BY FS_CardinalityType, SizeIsPositive DEF RoomForAll
<1>7. ~ Cardinality(Tasks) < n + 1
  <2> HIDE DEF f, n
  <2> SUFFICES ASSUME Cardinality(Tasks) < n + 1 PROVE FALSE
    OBVIOUS
  <2>1. \E x, y \in 1 .. n + 1 : x # y /\ f[x] = f[y]
    BY <1>3, <1>5, FS_PigeonHole DEF RoomForAll
  <2> QED
    BY <2>1, <1>4
<1> QED
  BY <1>1, <1>6, <1>7 DEF RoomForAll

\* A step that moves no task.
LEMMA NothingMoves ==
  ASSUME OnePlace,
         UNCHANGED <<ring, local_front, job_num, outstanding>>,
         \A p \in Producers : pc'[p] \in AddingPC => pc[p] \in AddingPC /\ newtask'[p] = newtask[p],
         \A w \in Workers :
           /\ pc'[w] \in {"clear_full", "job"} <=> pc[w] \in {"clear_full", "job"}
           /\ pc'[w] = "dequeue" => pc[w] = "dequeue"
  PROVE  OnePlace' /\ UNCHANGED Contents
<1>1. UNCHANGED Contents
  BY DEF Contents, QueueLen, ring, size
<1>2. \A p, q \in Producers :
         pc'[p] \in AddingPC /\ pc'[q] \in AddingPC /\ newtask'[p] = newtask'[q] => p = q
  BY DEF OnePlace
<1>3. \A p \in Producers : pc'[p] \in AddingPC =>
        /\ newtask'[p] \in outstanding
        /\ \A i \in 1 .. Len(Contents) : Contents[i] # newtask'[p]
        /\ \A w \in Workers : job_num[w] # newtask'[p]
  BY DEF OnePlace
<1>4. \A w \in Workers :
        /\ IF pc'[w] \in {"clear_full", "job"}
             THEN /\ job_num[w] \in outstanding
                  /\ \A i \in 1 .. Len(Contents) : Contents[i] # job_num[w]
             ELSE job_num[w] = NoTask
        /\ pc'[w] = "dequeue" => local_front[w] = front
  BY DEF OnePlace
<1> QED
  BY <1>1, <1>2, <1>3, <1>4 DEF OnePlace, ring

\* Theorem: with one worker, and a slot more than there are tasks, a task is in
\* one place at a time, for any number of producers.
THEOREM TasksInOnePlace ==
  ASSUME OneWorker, RoomForAll
  PROVE  Spec => []OnePlace
<1>1. Init => OnePlace
  <2> SUFFICES ASSUME Init PROVE OnePlace
    OBVIOUS
  <2>1. TypeOK /\ front = back
    BY PoolAssumption, SizeIsPositive DEF Init, TypeOK, Threads, ProducerPC, WorkerPC,
       Slots
  <2>2. QueueLen = 0
    BY <2>1, RingGeometry
  <2>3. Contents = <<>>
    BY <2>1, <2>2, ContentsIsSequence, EmptySeq
  <2> QED
    BY <2>3, PoolAssumption DEF Init, OnePlace, AddingPC, Threads
<1>2. TypeOK /\ TypeOK' /\ OnePlace /\ [Next]_vars => OnePlace'
  <2> SUFFICES ASSUME TypeOK, TypeOK', OnePlace, [Next]_vars
               PROVE  OnePlace'
    OBVIOUS
  <2>0. /\ pc \in [Threads -> ProducerPC \cup WorkerPC]
        /\ \A w \in Workers : w \in Threads /\ w \notin Producers
        /\ \A p \in Producers : p \in Threads /\ p \notin Workers
        /\ \A v, w \in Workers : v = w
    BY PoolAssumption DEF TypeOK, Threads, OneWorker
  <2>1. ASSUME NEW p \in Producers, NEW t \in Tasks, Call(p, t)
        PROVE  OnePlace'
    <3>1. /\ t \notin outstanding /\ outstanding' = outstanding \cup {t}
          /\ newtask' = [newtask EXCEPT ![p] = t]
          /\ pc' = [pc EXCEPT ![p] = "lock"]
          /\ UNCHANGED <<ring, local_front, job_num>>
      BY <2>1 DEF Call, Goto
    <3>2. UNCHANGED Contents
      BY <3>1 DEF Contents, QueueLen, ring, size
    <3>3. \A i \in 1 .. Len(Contents) : Contents[i] \in outstanding
      BY ElementOfSeq DEF OnePlace
    <3>4. Contents \in Seq(outstanding \cup {t})
      BY SeqMonotonic DEF OnePlace
    <3>5. \A q \in Producers : /\ q # p => (pc'[q] \in AddingPC <=> pc[q] \in AddingPC)
                               /\ q # p => newtask'[q] = newtask[q]
                               /\ newtask'[p] = t
      BY <3>1, <2>0 DEF AddingPC, TypeOK
    <3>11. newtask'[p] = t
      BY <3>1 DEF TypeOK
    <3>6. \A w \in Workers : pc'[w] = pc[w] /\ job_num[w] # t
      BY <3>1, <2>0, PoolAssumption DEF OnePlace
    <3>7. \A q \in Producers : pc[q] \in AddingPC => newtask[q] \in outstanding
      BY DEF OnePlace
    <3>8. \A q, r \in Producers :
             pc'[q] \in AddingPC /\ pc'[r] \in AddingPC /\ newtask'[r] = newtask'[q] => q = r
      <4>0. \A q, r \in Producers :
               pc[q] \in AddingPC /\ pc[r] \in AddingPC /\ newtask[r] = newtask[q] => q = r
        BY DEF OnePlace
      <4> TAKE q, r \in Producers
      <4> HAVE pc'[q] \in AddingPC /\ pc'[r] \in AddingPC /\ newtask'[r] = newtask'[q]
      <4>1. CASE q = p /\ r # p
        BY <3>1, <3>5, <3>7, <4>1
      <4>2. CASE q # p /\ r = p
        BY <3>1, <3>5, <3>7, <4>2
      <4>3. CASE q # p /\ r # p
        <5>1. pc[q] \in AddingPC /\ pc[r] \in AddingPC
          BY <3>5, <4>3
        <5>2. newtask[r] = newtask[q]
          BY <3>5, <4>3
        <5> QED
          BY <4>0, <5>1, <5>2
      <4> QED
        BY <4>1, <4>2, <4>3
    <3>9. \A q \in Producers : pc'[q] \in AddingPC =>
            /\ newtask'[q] \in outstanding'
            /\ \A i \in 1 .. Len(Contents) : Contents[i] # newtask'[q]
            /\ \A w \in Workers : job_num[w] # newtask'[q]
      <4> TAKE q \in Producers
      <4> HAVE pc'[q] \in AddingPC
      <4>1. CASE q = p
        BY <3>1, <3>3, <3>6, <3>11, <4>1
      <4>2. CASE q # p
        BY <3>1, <3>5, <4>2 DEF OnePlace
      <4> QED
        BY <4>1, <4>2
    <3>10. \A w \in Workers :
        /\ IF pc'[w] \in {"clear_full", "job"}
             THEN /\ job_num[w] \in outstanding'
                  /\ \A i \in 1 .. Len(Contents) : Contents[i] # job_num[w]
             ELSE job_num[w] = NoTask
        /\ pc'[w] = "dequeue" => local_front[w] = front
      BY <3>1, <3>6 DEF OnePlace
    <3> QED
      BY <3>1, <3>2, <3>4, <3>8, <3>9, <3>10 DEF OnePlace, ring
  <2>2. ASSUME NEW p \in Producers, 
               \/ LockQueue(p) \/ CheckIfFull(p) \/ WakeProducer(p) \/ RelockQueue(p)
               \/ SetFullFlag(p) \/ CountTask(p)
        PROVE  OnePlace'
    <3>1. /\ pc[p] # "caller" /\ pc' \in [Threads -> ProducerPC \cup WorkerPC]
          /\ \A t \in Threads \ {p} : pc'[t] = pc[t]
          /\ pc'[p] \in AddingPC => pc[p] \in AddingPC
          /\ UNCHANGED <<ring, locals, outstanding>>
      BY <2>2, <2>0 DEF LockQueue, CheckIfFull, WakeProducer, RelockQueue,
         SetFullFlag, CountTask, TestFullFlag, Goto, AddingPC, TypeOK
    <3>2. \A q \in Producers : pc'[q] \in AddingPC => pc[q] \in AddingPC /\ newtask'[q] = newtask[q]
      BY <3>1, <2>0 DEF AddingPC, locals
    <3>3. \A w \in Workers : pc'[w] = pc[w]
      BY <3>1, <2>0
    <3> QED
      BY <3>1, <3>2, <3>3, NothingMoves DEF locals
  <2>3. ASSUME NEW p \in Producers, AddTaskToQueue(p)
        PROVE  OnePlace'
    <3>1. /\ pc[p] = "add" /\ pc' \in [Threads -> ProducerPC \cup WorkerPC]
          /\ pc'[p] \in {"set_full", "notify"}
          /\ \A t \in Threads \ {p} : pc'[t] = pc[t]
          /\ queue_array' = [queue_array EXCEPT ![back] = newtask[p]]
          /\ back' = NextSlot(back)
          /\ UNCHANGED <<front, locals, outstanding>>
      BY <2>3, <2>0 DEF AddTaskToQueue, Goto, TypeOK
    <3>2. pc[p] \in AddingPC /\ newtask[p] \in Tasks /\ pc'[p] \notin AddingPC
      BY <3>1 DEF AddingPC, TypeOK
    <3>3. Contents' = Append(Contents, newtask[p])
      BY <3>1, <3>2, RoomToAdd, FillAppends
    <3>4. Contents \in Seq(outstanding) /\ newtask[p] \in outstanding
      BY <3>2 DEF OnePlace
    <3>5. /\ Contents' \in Seq(outstanding)
          /\ Len(Contents) \in Nat
          /\ Len(Contents') = Len(Contents) + 1
          /\ \A i \in 1 .. Len(Contents) : (Contents')[i] = Contents[i]
          /\ (Contents')[Len(Contents) + 1] = newtask[p]
      BY <3>3, <3>4, AppendProperties, LenProperties
    <3>6. \A i \in 1 .. Len(Contents') :
            \/ i \in 1 .. Len(Contents) /\ (Contents')[i] = Contents[i]
            \/ i = Len(Contents) + 1 /\ (Contents')[i] = newtask[p]
      BY <3>5
    <3>7. \A i, j \in 1 .. Len(Contents') : (Contents')[i] = (Contents')[j] => i = j
      BY <3>2, <3>6 DEF OnePlace
    <3>8. \A q \in Producers : pc'[q] \in AddingPC => q # p /\ pc[q] \in AddingPC /\ newtask'[q] = newtask[q]
      BY <3>1, <3>2, <2>0 DEF AddingPC, locals
    <3>9. \A q \in Producers : pc'[q] \in AddingPC =>
            /\ newtask'[q] \in outstanding
            /\ \A i \in 1 .. Len(Contents') : (Contents')[i] # newtask'[q]
            /\ \A w \in Workers : job_num[w] # newtask'[q]
            /\ \A r \in Producers : pc'[r] \in AddingPC /\ newtask'[r] = newtask'[q] => q = r
      BY <3>2, <3>6, <3>8 DEF OnePlace
    <3>10. \A w \in Workers :
        /\ IF pc'[w] \in {"clear_full", "job"}
             THEN /\ job_num[w] \in outstanding
                  /\ \A i \in 1 .. Len(Contents') : (Contents')[i] # job_num[w]
             ELSE job_num[w] = NoTask
        /\ pc'[w] = "dequeue" => local_front[w] = front
      BY <3>1, <3>2, <3>6, <2>0 DEF OnePlace
    <3> QED
      BY <3>1, <3>5, <3>7, <3>9, <3>10 DEF OnePlace, locals
  <2>4. ASSUME NEW p \in Producers, SignalTask(p)
        PROVE  OnePlace'
    <3>1. /\ pc'[p] = "caller"
          /\ \A q \in Producers \ {p} : pc'[q] = pc[q] /\ newtask'[q] = newtask[q]
          /\ \A w \in Workers : \/ pc'[w] = pc[w]
                                \/ pc[w] = "task_wait" /\ pc'[w] = "ready"
          /\ UNCHANGED <<ring, local_front, job_num, outstanding>>
      <4>1. ASSUME Goto(p, "caller")
            PROVE  /\ pc'[p] = "caller"
                   /\ \A q \in Producers \ {p} : pc'[q] = pc[q]
                   /\ \A v \in Workers : pc'[v] = pc[v]
        BY <2>0, <4>1 DEF Goto
      <4>2. ASSUME NEW w \in Workers, pc[w] = "task_wait",
                   pc' = [pc EXCEPT ![p] = "caller", ![w] = "ready"]
            PROVE  /\ pc'[p] = "caller"
                   /\ \A q \in Producers \ {p} : pc'[q] = pc[q]
                   /\ \A v \in Workers : \/ pc'[v] = pc[v]
                                         \/ pc[v] = "task_wait" /\ pc'[v] = "ready"
        BY <2>0, <4>2
      <4>3. /\ \A q \in Producers \ {p} : newtask'[q] = newtask[q]
            /\ UNCHANGED <<ring, local_front, job_num, outstanding>>
        BY <2>4 DEF SignalTask, TypeOK
      <4>4. Goto(p, "caller") \/ \E w \in Workers : /\ pc[w] = "task_wait"
                                                    /\ pc' = [pc EXCEPT ![p] = "caller", ![w] = "ready"]
        BY <2>4 DEF SignalTask
      <4> QED
        BY <4>1, <4>2, <4>3, <4>4
    <3>2. \A q \in Producers : pc'[q] \in AddingPC => pc[q] \in AddingPC /\ newtask'[q] = newtask[q]
      BY <3>1 DEF AddingPC
    <3> QED
      BY <3>1, <3>2, NothingMoves
  <2>5. ASSUME NEW w \in Workers, ClaimTask(w) \/ FindEmpty(w)
        PROVE  OnePlace'
    <3>1. /\ \A p \in Producers : pc'[p] = pc[p]
          /\ pc[w] \in {"ready", "dequeue"}
          /\ pc'[w] \in {"task_wait", "read_front", "ready"}
          /\ UNCHANGED <<ring, locals, outstanding>>
      BY <2>5, <2>0 DEF ClaimTask, FindEmpty, Goto
    <3>2. \A p \in Producers : pc'[p] \in AddingPC => pc[p] \in AddingPC /\ newtask'[p] = newtask[p]
      BY <3>1 DEF AddingPC, locals
    <3>3. \A v \in Workers :
            /\ pc'[v] \in {"clear_full", "job"} <=> pc[v] \in {"clear_full", "job"}
            /\ pc'[v] = "dequeue" => pc[v] = "dequeue"
      BY <3>1, <2>0
    <3> QED
      BY <3>1, <3>2, <3>3, NothingMoves DEF locals
  <2>6. ASSUME NEW w \in Workers, ReadFront(w)
        PROVE  OnePlace'
    <3>1. /\ pc[w] = "read_front"
          /\ pc' = [pc EXCEPT ![w] = "dequeue"]
          /\ local_front' = [local_front EXCEPT ![w] = front]
          /\ UNCHANGED <<ring, newtask, job_num, outstanding>>
      BY <2>6 DEF ReadFront, Goto
    <3>2. UNCHANGED Contents
      BY <3>1 DEF Contents, QueueLen, ring, size
    <3>3. \A q \in Producers : pc'[q] \in AddingPC <=> pc[q] \in AddingPC
      BY <3>1, <2>0 DEF AddingPC
    <3>4. pc'[w] = "dequeue" /\ local_front'[w] = front
      BY <3>1, <2>0 DEF TypeOK
    <3>5. \A v \in Workers : v = w
      BY <2>0
    <3>6. \A v \in Workers :
        /\ IF pc'[v] \in {"clear_full", "job"}
             THEN /\ job_num[v] \in outstanding
                  /\ \A i \in 1 .. Len(Contents) : Contents[i] # job_num[v]
             ELSE job_num[v] = NoTask
        /\ pc'[v] = "dequeue" => local_front'[v] = front
      BY <3>1, <3>4, <3>5 DEF OnePlace
    <3>7. \A q \in Producers : pc'[q] \in AddingPC =>
            /\ newtask[q] \in outstanding
            /\ \A i \in 1 .. Len(Contents) : Contents[i] # newtask[q]
            /\ \A v \in Workers : job_num[v] # newtask[q]
            /\ \A r \in Producers : pc'[r] \in AddingPC /\ newtask[r] = newtask[q] => q = r
      BY <3>3 DEF OnePlace
    <3> QED
      BY <3>1, <3>2, <3>6, <3>7 DEF OnePlace, ring
  <2>7. ASSUME NEW w \in Workers, PopTask(w)
        PROVE  OnePlace'
    <3>1. /\ pc[w] = "dequeue" /\ front # back
          /\ pc' = [pc EXCEPT ![w] = "clear_full"]
          /\ job_num' = [job_num EXCEPT ![w] = queue_array[local_front[w]]]
          /\ front' = NextSlot(local_front[w])
          /\ UNCHANGED <<back, queue_array, newtask, local_front, outstanding>>
      BY <2>7 DEF PopTask, Goto
    <3>2. local_front[w] = front
      BY <3>1 DEF OnePlace
    <3>3. /\ Contents # <<>>
          /\ Head(Contents) = queue_array[front]
          /\ Contents' = Tail(Contents)
      BY <3>1, <3>2, AdvanceTakesHead
    <3>4. Contents \in Seq(outstanding) /\ Len(Contents) \in Nat
      BY LenProperties DEF OnePlace
    <3>5. /\ Contents' \in Seq(outstanding)
          /\ Len(Contents') = Len(Contents) - 1
          /\ \A i \in 1 .. Len(Contents') : (Contents')[i] = Contents[i + 1]
          /\ Head(Contents) = Contents[1]
          /\ Head(Contents) \in outstanding
          /\ Len(Contents) > 0
      <4>1. Len(Contents) > 0
        BY <3>3, <3>4, EmptySeq
      <4>2. Contents[1] \in outstanding
        BY <3>4, <4>1, ElementOfSeq
      <4> QED
        BY <3>3, <3>4, <4>1, <4>2, HeadTailProperties
    <3>6. \A i \in 1 .. Len(Contents') :
            i + 1 \in 1 .. Len(Contents) /\ i + 1 # 1 /\ i \in Int
      BY <3>4, <3>5
    <3>7. 1 \in 1 .. Len(Contents)
      BY <3>4, <3>5
    <3>8. job_num'[w] = Contents[1] /\ pc'[w] = "clear_full"
      BY <3>1, <3>2, <3>3, <3>5, <2>0 DEF TypeOK
    <3>9. \A q \in Producers : pc'[q] \in AddingPC <=> pc[q] \in AddingPC
      BY <3>1, <2>0 DEF AddingPC
    <3>10. \A i, j \in 1 .. Len(Contents') : (Contents')[i] = (Contents')[j] => i = j
      <4> TAKE i, j \in 1 .. Len(Contents')
      <4> HAVE (Contents')[i] = (Contents')[j]
      <4>1. i + 1 = j + 1
        BY <3>5, <3>6 DEF OnePlace
      <4> QED
        BY <3>6, <4>1
    <3>11. \A i \in 1 .. Len(Contents') : (Contents')[i] # Contents[1]
      BY <3>5, <3>6, <3>7 DEF OnePlace
    <3>12. \A q \in Producers : pc'[q] \in AddingPC =>
            /\ newtask[q] \in outstanding
            /\ \A i \in 1 .. Len(Contents') : (Contents')[i] # newtask[q]
            /\ \A v \in Workers : job_num'[v] # newtask[q]
            /\ \A r \in Producers : pc'[r] \in AddingPC /\ newtask[r] = newtask[q] => q = r
      <4> TAKE q \in Producers
      <4> HAVE pc'[q] \in AddingPC
      <4>1. \A i \in 1 .. Len(Contents) : Contents[i] # newtask[q]
        BY <3>9 DEF OnePlace
      <4>2. \A v \in Workers : job_num'[v] # newtask[q]
        BY <3>7, <3>8, <4>1, <2>0
      <4>3. \A i \in 1 .. Len(Contents') : (Contents')[i] # newtask[q]
        BY <3>5, <3>6, <4>1
      <4> QED
        BY <3>9, <4>2, <4>3 DEF OnePlace
    <3>13. \A v \in Workers :
        /\ IF pc'[v] \in {"clear_full", "job"}
             THEN /\ job_num'[v] \in outstanding
                  /\ \A i \in 1 .. Len(Contents') : (Contents')[i] # job_num'[v]
             ELSE job_num'[v] = NoTask
        /\ pc'[v] = "dequeue" => local_front'[v] = front'
      BY <3>5, <3>8, <3>11, <2>0
    <3> QED
      BY <3>1, <3>5, <3>10, <3>12, <3>13 DEF OnePlace
  <2>8. ASSUME NEW w \in Workers, ClearFullFlag(w)
        PROVE  OnePlace'
    <3>1. /\ pc[w] = "clear_full" /\ pc'[w] = "job"
          /\ \A p \in Producers : \/ pc'[p] = pc[p]
                                  \/ pc[p] = "q_wait" /\ pc'[p] = "q_wake"
          /\ UNCHANGED <<ring, locals, outstanding>>
      <4>1. ASSUME Goto(w, "job")
            PROVE  pc'[w] = "job" /\ \A q \in Producers : pc'[q] = pc[q]
        BY <2>0, <4>1 DEF Goto
      <4>2. ASSUME NEW p \in Producers, pc[p] = "q_wait",
                   pc' = [pc EXCEPT ![w] = "job", ![p] = "q_wake"]
            PROVE  /\ pc'[w] = "job"
                   /\ \A q \in Producers : \/ pc'[q] = pc[q]
                                           \/ pc[q] = "q_wait" /\ pc'[q] = "q_wake"
        BY <2>0, <4>2
      <4>3. pc[w] = "clear_full" /\ UNCHANGED <<ring, locals, outstanding>>
        BY <2>8 DEF ClearFullFlag, ring
      <4>4. \/ Goto(w, "job")
            \/ \E p \in Producers : /\ pc[p] = "q_wait"
                                    /\ pc' = [pc EXCEPT ![w] = "job", ![p] = "q_wake"]
        BY <2>8 DEF ClearFullFlag
      <4> QED
        BY <4>1, <4>2, <4>3, <4>4
    <3>2. \A p \in Producers : pc'[p] \in AddingPC => pc[p] \in AddingPC /\ newtask'[p] = newtask[p]
      BY <3>1 DEF AddingPC, locals
    <3>3. \A v \in Workers :
            /\ pc'[v] \in {"clear_full", "job"} <=> pc[v] \in {"clear_full", "job"}
            /\ pc'[v] = "dequeue" => pc[v] = "dequeue"
      BY <3>1, <2>0
    <3> QED
      BY <3>1, <3>2, <3>3, NothingMoves DEF locals
  <2>9. ASSUME NEW w \in Workers, RunJob(w)
        PROVE  OnePlace'
    <3>1. /\ pc[w] = "job" /\ pc' = [pc EXCEPT ![w] = "ready"]
          /\ outstanding' = outstanding \ {job_num[w]}
          /\ job_num' = [job_num EXCEPT ![w] = NoTask]
          /\ UNCHANGED <<ring, newtask, local_front>>
      BY <2>9 DEF RunJob, Goto
    <3>2. UNCHANGED Contents
      BY <3>1 DEF Contents, QueueLen, ring, size
    <3>3. \A i \in 1 .. Len(Contents) : Contents[i] \in outstanding'
      BY <3>1, ElementOfSeq DEF OnePlace
    <3>4. Contents \in Seq(outstanding')
      <4>1. Contents \in [1 .. Len(Contents) -> outstanding'] /\ Len(Contents) \in Nat
        BY <3>3, LenProperties DEF OnePlace
      <4> QED
        BY <4>1, SeqDef
    <3>5. \A q \in Producers : pc'[q] \in AddingPC <=> pc[q] \in AddingPC
      BY <3>1, <2>0 DEF AddingPC
    <3>6. job_num'[w] = NoTask /\ pc'[w] = "ready"
      BY <3>1, <2>0 DEF TypeOK
    <3>7. \A q \in Producers : pc'[q] \in AddingPC =>
            /\ newtask[q] \in outstanding'
            /\ \A i \in 1 .. Len(Contents) : Contents[i] # newtask[q]
            /\ \A v \in Workers : job_num'[v] # newtask[q]
            /\ \A r \in Producers : pc'[r] \in AddingPC /\ newtask[r] = newtask[q] => q = r
      <4> TAKE q \in Producers
      <4> HAVE pc'[q] \in AddingPC
      <4>1. newtask[q] \in outstanding /\ newtask[q] # job_num[w]
        BY <3>5 DEF OnePlace
      <4>2. newtask[q] \in Tasks
        BY <4>1 DEF TypeOK
      <4>3. \A v \in Workers : job_num'[v] # newtask[q]
        BY <3>6, <4>2, <2>0, PoolAssumption
      <4> QED
        BY <3>1, <3>5, <4>1, <4>3 DEF OnePlace
    <3>8. \A v \in Workers :
        /\ IF pc'[v] \in {"clear_full", "job"}
             THEN /\ job_num'[v] \in outstanding'
                  /\ \A i \in 1 .. Len(Contents) : Contents[i] # job_num'[v]
             ELSE job_num'[v] = NoTask
        /\ pc'[v] = "dequeue" => local_front'[v] = front
      BY <3>6, <2>0
    <3> QED
      BY <3>1, <3>2, <3>4, <3>7, <3>8 DEF OnePlace, ring
  <2>10. ASSUME NEW t \in Threads, SpuriousWakeup(t)
         PROVE  OnePlace'
    <3>1. /\ \A s \in Threads : \/ pc'[s] = pc[s]
                                \/ pc[s] = "task_wait" /\ pc'[s] = "ready"
                                \/ pc[s] = "q_wait" /\ pc'[s] = "q_wake"
          /\ UNCHANGED <<ring, locals, outstanding>>
      BY <2>10, <2>0 DEF SpuriousWakeup, Goto
    <3>2. \A p \in Producers : pc'[p] \in AddingPC => pc[p] \in AddingPC /\ newtask'[p] = newtask[p]
      BY <3>1, <2>0 DEF AddingPC, locals
    <3>3. \A v \in Workers :
            /\ pc'[v] \in {"clear_full", "job"} <=> pc[v] \in {"clear_full", "job"}
            /\ pc'[v] = "dequeue" => pc[v] = "dequeue"
      BY <3>1, <2>0
    <3> QED
      BY <3>1, <3>2, <3>3, NothingMoves DEF locals
  <2>11. CASE UNCHANGED vars
    <3>1. UNCHANGED <<ring, locals, outstanding, pc>>
      BY <2>11 DEF vars
    <3>2. \A p \in Producers : pc'[p] \in AddingPC => pc[p] \in AddingPC /\ newtask'[p] = newtask[p]
      BY <3>1 DEF AddingPC, locals
    <3> QED
      BY <3>1, <3>2, NothingMoves DEF locals
  <2> QED
    BY <2>1, <2>2, <2>3, <2>4, <2>5, <2>6, <2>7, <2>8, <2>9, <2>10, <2>11
    DEF Next, AddSteps, LoopSteps
<1> QED
  BY <1>1, <1>2, Typing, PTL DEF Spec
------------------------------------------------------------------------------
(* The refinement. *)

\* Theorem: whatever the producers and the worker do to the ring, its mutexes and
\* its flags, the tasks in it are a bounded first-in first-out queue: what
\* tpool_add_task appends, dequeue hands out once and in order.
THEOREM PoolIsTaskQueue ==
  ASSUME OneWorker, RoomForAll
  PROVE  Spec => ImplementsTaskQueue
<1>1. Init => Promise!Init
  <2> SUFFICES ASSUME Init PROVE Promise!Init
    OBVIOUS
  <2>1. TypeOK /\ front = back
    BY PoolAssumption, SizeIsPositive DEF Init, TypeOK, Threads, ProducerPC, WorkerPC,
       Slots
  <2>2. Contents = <<>>
    BY <2>1, RingGeometry, ContentsIsSequence, EmptySeq
  <2> QED
    BY <2>2 DEF Init, Promise!Init
<1>2. TypeOK /\ TypeOK' /\ OnePlace /\ [Next]_vars => [Promise!Next]_(Promise!tvars)
  <2> SUFFICES ASSUME TypeOK, TypeOK', OnePlace, [Next]_vars
               PROVE  Promise!Next \/ UNCHANGED <<Contents, job_num>>
    BY DEF Promise!tvars
  <2>1. ASSUME NEW p \in Producers, AddTaskToQueue(p)
        PROVE  Promise!Next
    <3>1. /\ pc[p] \in AddingPC /\ newtask[p] \in Tasks
          /\ queue_array' = [queue_array EXCEPT ![back] = newtask[p]]
          /\ back' = NextSlot(back)
          /\ UNCHANGED <<front, job_num>>
      BY <2>1 DEF AddTaskToQueue, AddingPC, TypeOK, locals
    <3>2. QueueLen < size - 1 /\ Len(Contents) = QueueLen
      BY <3>1, RoomToAdd, ContentsIsSequence
    <3>3. Contents' = Append(Contents, newtask[p])
      BY <3>1, <3>2, FillAppends
    <3>4. Promise!Add(newtask[p])
      BY <3>1, <3>2, <3>3 DEF Promise!Add
    <3> QED
      BY <3>1, <3>4 DEF Promise!Next
  <2>2. ASSUME NEW w \in Workers, PopTask(w)
        PROVE  Promise!Next
    <3>1. /\ pc[w] = "dequeue" /\ front # back
          /\ job_num' = [job_num EXCEPT ![w] = queue_array[local_front[w]]]
          /\ front' = NextSlot(local_front[w])
          /\ UNCHANGED <<back, queue_array>>
      BY <2>2 DEF PopTask
    <3>2. local_front[w] = front /\ job_num[w] = NoTask
      BY <3>1 DEF OnePlace
    <3>3. /\ Contents # <<>>
          /\ Head(Contents) = queue_array[front]
          /\ Contents' = Tail(Contents)
      BY <3>1, <3>2, AdvanceTakesHead
    <3>4. Promise!Take(w)
      BY <3>1, <3>2, <3>3 DEF Promise!Take
    <3> QED
      BY <3>4 DEF Promise!Next
  <2>3. ASSUME NEW w \in Workers, RunJob(w)
        PROVE  Promise!Next
    <3>1. /\ pc[w] = "job"
          /\ job_num' = [job_num EXCEPT ![w] = NoTask]
          /\ UNCHANGED ring
      BY <2>3 DEF RunJob
    <3>2. job_num[w] # NoTask
      BY <3>1, PoolAssumption DEF OnePlace, TypeOK
    <3>3. UNCHANGED Contents
      BY <3>1 DEF Contents, QueueLen, ring, size
    <3>4. Promise!Finish(w)
      BY <3>1, <3>2, <3>3 DEF Promise!Finish
    <3> QED
      BY <3>4 DEF Promise!Next
  <2>4. CASE UNCHANGED <<ring, job_num>>
    BY <2>4 DEF Contents, QueueLen, ring, size
  <2>5. ASSUME NEW p \in Producers, NEW t \in Tasks, Call(p, t)
        PROVE  UNCHANGED <<ring, job_num>>
    BY <2>5 DEF Call
  <2>6. ASSUME NEW p \in Producers, 
               \/ LockQueue(p) \/ CheckIfFull(p) \/ WakeProducer(p) \/ RelockQueue(p)
               \/ SetFullFlag(p) \/ CountTask(p) \/ SignalTask(p)
        PROVE  UNCHANGED <<ring, job_num>>
    BY <2>6 DEF LockQueue, CheckIfFull, WakeProducer, RelockQueue, SetFullFlag,
       CountTask, SignalTask, locals
  <2>7. ASSUME NEW w \in Workers,
               ClaimTask(w) \/ ReadFront(w) \/ FindEmpty(w) \/ ClearFullFlag(w)
        PROVE  UNCHANGED <<ring, job_num>>
    BY <2>7 DEF ClaimTask, ReadFront, FindEmpty, ClearFullFlag, locals
  <2>8. ASSUME NEW t \in Threads, SpuriousWakeup(t)
        PROVE  UNCHANGED <<ring, job_num>>
    BY <2>8 DEF SpuriousWakeup, locals
  <2>9. CASE UNCHANGED vars
    BY <2>9, <2>4 DEF vars, locals
  <2> QED
    BY <2>1, <2>2, <2>3, <2>4, <2>5, <2>6, <2>7, <2>8, <2>9
    DEF Next, AddSteps, LoopSteps
<1> QED
  BY <1>1, <1>2, Typing, TasksInOnePlace, PTL DEF Spec, ImplementsTaskQueue, Promise!Spec

================================================================================
