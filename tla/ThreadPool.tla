------------------------------ MODULE ThreadPool ------------------------------
(***************************************************************************)
(* src/lib/tpool.c: a ring buffer of tasks filled by tpool_add_task and    *)
(* emptied by the threads running thread_loop.                             *)
(*                                                                         *)
(* Every thread of the program has a program counter.  A step is a piece   *)
(* of code that no other thread can observe half done: it ends where the   *)
(* thread blocks on a mutex it does not hold, releases a mutex and goes on *)
(* without it, or touches shared memory with no mutex at all (the read of  *)
(* front at the top of dequeue).  proc_flag_m needs no variable: every     *)
(* section it protects is a single step.  queue_m and q_flag_m are held    *)
(* across steps and name their owner.                                      *)
(*                                                                         *)
(* pthread_cond_wait may return without a signal, as POSIX allows; both    *)
(* callers test again in a loop.                                           *)
(***************************************************************************)
EXTENDS Integers, FiniteSets

CONSTANTS Producers,         \* threads that call tpool_add_task
          Workers,           \* threads running thread_loop, one per processor
          Tasks,             \* the tasks: file descriptors in server.c
          TASKS_PER_THREAD,  \* ring buffer slots per worker
          NoThread,          \* owner of a free mutex
          NoTask,            \* the 0 that dequeue returns for an empty queue
          Junk               \* a slot malloc returned and nobody wrote

ASSUME PoolAssumption ==
    /\ IsFiniteSet(Workers)
    /\ Workers # {}
    /\ Producers \cap Workers = {}
    /\ NoThread \notin Producers \cup Workers
    /\ TASKS_PER_THREAD \in Nat \ {0}
    /\ NoTask \notin Tasks \cup {Junk}
    /\ Junk \notin Tasks

VARIABLES
    front,          \* index of the oldest queued task
    back,           \* index of the next slot to fill
    queue_array,    \* the slots
    q_full_flag,    \* counts the times the queue was found full
    proc_rdy_flag,  \* counts the tasks no worker has claimed yet
    queue_m,        \* owner of the mutex around front, back and queue_array
    q_flag_m,       \* owner of the mutex around q_full_flag
    pc,             \* where each thread is
    newtask,        \* argument of the tpool_add_task a producer is in
    local_front,    \* dequeue's local copy of front
    job_num,        \* the task a worker took from the queue
    outstanding     \* tasks a caller has added and no worker has finished

ring    == <<front, back, queue_array>>
flags   == <<q_full_flag, proc_rdy_flag>>
mutexes == <<queue_m, q_flag_m>>
locals  == <<newtask, local_front, job_num>>
vars    == <<ring, flags, mutexes, pc, locals, outstanding>>

Threads == Producers \cup Workers

size == TASKS_PER_THREAD * Cardinality(Workers)

Slots == 0 .. size - 1

\* Mutant of NextSlot: the index is not wrapped.
NextSlotNoWrap(i) == i + 1

NextSlot(i) == (i + 1) % size

ProducerPC == {"caller", "lock", "check", "q_wait", "q_wake", "relock",
               "add", "set_full", "notify", "signal"}
WorkerPC   == {"ready", "task_wait", "read_front", "dequeue", "clear_full",
               "job"}

Init ==
    /\ front = 0
    /\ back = 0
    /\ queue_array = [i \in Slots |-> Junk]
    /\ q_full_flag = 0
    /\ proc_rdy_flag = 0
    /\ queue_m = NoThread
    /\ q_flag_m = NoThread
    /\ pc = [t \in Threads |-> IF t \in Producers THEN "caller" ELSE "ready"]
    /\ newtask = [p \in Producers |-> NoTask]
    /\ local_front = [w \in Workers |-> 0]
    /\ job_num = [w \in Workers |-> NoTask]
    /\ outstanding = {}

Goto(t, label) == pc' = [pc EXCEPT ![t] = label]

------------------------------------------------------------------------------
(* tpool_add_task *)

\* The caller adds a task that is not already on its way.  In server.c that
\* is EPOLLONESHOT's doing: a descriptor raises no event until process_task
\* has armed it again.
Call(p, t) ==
    /\ pc[p] = "caller"
    /\ t \notin outstanding
    /\ newtask' = [newtask EXCEPT ![p] = t]
    /\ outstanding' = outstanding \cup {t}
    /\ Goto(p, "lock")
    /\ UNCHANGED <<ring, flags, mutexes, local_front, job_num>>

LockQueue(p) ==
    /\ pc[p] = "lock"
    /\ queue_m = NoThread
    /\ queue_m' = p
    /\ Goto(p, "check")
    /\ UNCHANGED <<ring, flags, q_flag_m, locals, outstanding>>

\* The loop test of check_if_full, made by p holding both mutexes: wait with
\* neither, or go on holding queue_m.
TestFullFlag(p) ==
    /\ IF q_full_flag > 0
         THEN queue_m' = NoThread /\ Goto(p, "q_wait")
         ELSE queue_m' = p /\ Goto(p, "add")
    /\ q_flag_m' = NoThread

CheckIfFull(p) ==
    /\ pc[p] = "check"
    /\ q_flag_m = NoThread
    /\ TestFullFlag(p)
    /\ UNCHANGED <<ring, flags, locals, outstanding>>

\* pthread_cond_wait returns holding q_flag_m ...
WakeProducer(p) ==
    /\ pc[p] = "q_wake"
    /\ q_flag_m = NoThread
    /\ q_flag_m' = p
    /\ Goto(p, "relock")
    /\ UNCHANGED <<ring, flags, queue_m, locals, outstanding>>

\* Mutant of RelockQueue: `if' for `while' around pthread_cond_wait.
RelockQueueNoRetest(p) ==
    /\ pc[p] = "relock"
    /\ queue_m = NoThread
    /\ queue_m' = p
    /\ q_flag_m' = NoThread
    /\ Goto(p, "add")
    /\ UNCHANGED <<ring, flags, locals, outstanding>>

\* ... and check_if_full locks queue_m again before it looks at the flag.
RelockQueue(p) ==
    /\ pc[p] = "relock"
    /\ queue_m = NoThread
    /\ TestFullFlag(p)
    /\ UNCHANGED <<ring, flags, locals, outstanding>>

\* Fill the slot at back.  When the slot after the new back is the front one,
\* the queue is full and the flag is still to be raised.
AddTaskToQueue(p) ==
    /\ pc[p] = "add"
    /\ queue_array' = [queue_array EXCEPT ![back] = newtask[p]]
    /\ back' = NextSlot(back)
    /\ IF NextSlot(back') = front
         THEN UNCHANGED queue_m /\ Goto(p, "set_full")
         ELSE queue_m' = NoThread /\ Goto(p, "notify")
    /\ UNCHANGED <<front, flags, q_flag_m, locals, outstanding>>

SetFullFlag(p) ==
    /\ pc[p] = "set_full"
    /\ q_flag_m = NoThread
    /\ q_full_flag' = q_full_flag + 1
    /\ queue_m' = NoThread
    /\ Goto(p, "notify")
    /\ UNCHANGED <<ring, proc_rdy_flag, q_flag_m, locals, outstanding>>

CountTask(p) ==
    /\ pc[p] = "notify"
    /\ proc_rdy_flag' = proc_rdy_flag + 1
    /\ Goto(p, "signal")
    /\ UNCHANGED <<ring, q_full_flag, mutexes, locals, outstanding>>

\* Mutant of SignalTask: the signal is left out.
SignalTaskDropped(p) ==
    /\ pc[p] = "signal"
    /\ Goto(p, "caller")
    /\ newtask' = [newtask EXCEPT ![p] = NoTask]
    /\ UNCHANGED <<ring, flags, mutexes, local_front, job_num, outstanding>>

\* The signal on task_cond comes after proc_flag_m is released.  It wakes a
\* waiting worker, if there is one.
SignalTask(p) ==
    /\ pc[p] = "signal"
    /\ LET waiting == {w \in Workers : pc[w] = "task_wait"}
       IN  \/ waiting = {} /\ Goto(p, "caller")
           \/ \E w \in waiting :
                pc' = [pc EXCEPT ![p] = "caller", ![w] = "ready"]
    /\ newtask' = [newtask EXCEPT ![p] = NoTask]
    /\ UNCHANGED <<ring, flags, mutexes, local_front, job_num, outstanding>>

------------------------------------------------------------------------------
(* thread_loop *)

\* Mutant of ClaimTask: proc_rdy_flag treated as a flag and reset, not counted
\* down.
ClaimTaskAsFlag(w) ==
    /\ pc[w] = "ready"
    /\ proc_rdy_flag' = 0
    /\ Goto(w, IF proc_rdy_flag <= 0 THEN "task_wait" ELSE "read_front")
    /\ UNCHANGED <<ring, q_full_flag, mutexes, locals, outstanding>>

\* Claim a task or wait for one.
ClaimTask(w) ==
    /\ pc[w] = "ready"
    /\ IF proc_rdy_flag <= 0
         THEN Goto(w, "task_wait") /\ UNCHANGED proc_rdy_flag
         ELSE Goto(w, "read_front") /\ proc_rdy_flag' = proc_rdy_flag - 1
    /\ UNCHANGED <<ring, q_full_flag, mutexes, locals, outstanding>>

\* dequeue copies front before it holds queue_m.
ReadFront(w) ==
    /\ pc[w] = "read_front"
    /\ local_front' = [local_front EXCEPT ![w] = front]
    /\ Goto(w, "dequeue")
    /\ UNCHANGED <<ring, flags, mutexes, newtask, job_num, outstanding>>

\* Mutant of PopTask: front is not advanced.
PopTaskKeepsFront(w) ==
    /\ pc[w] = "dequeue"
    /\ queue_m = NoThread
    /\ front # back
    /\ job_num' = [job_num EXCEPT ![w] = queue_array[local_front[w]]]
    /\ Goto(w, "clear_full")
    /\ UNCHANGED <<ring, flags, mutexes, newtask, local_front, outstanding>>

\* Mutant of PopTask: queue_m is still locked when q_flag_m is asked for.
PopTaskKeepsLock(w) ==
    /\ pc[w] = "dequeue"
    /\ queue_m = NoThread
    /\ front # back
    /\ queue_m' = w
    /\ job_num' = [job_num EXCEPT ![w] = queue_array[local_front[w]]]
    /\ front' = NextSlot(local_front[w])
    /\ Goto(w, "clear_full")
    /\ UNCHANGED <<back, queue_array, flags, q_flag_m, newtask, local_front,
                   outstanding>>

\* The queue holds something: take the slot of the copied index and make the
\* slot after it the front one.
PopTask(w) ==
    /\ pc[w] = "dequeue"
    /\ queue_m = NoThread
    /\ front # back
    /\ job_num' = [job_num EXCEPT ![w] = queue_array[local_front[w]]]
    /\ front' = NextSlot(local_front[w])
    /\ Goto(w, "clear_full")
    /\ UNCHANGED <<back, queue_array, flags, mutexes, newtask, local_front,
                   outstanding>>

\* The queue looks empty: dequeue returns 0 and thread_loop starts over.
\* queue_m was locked and this path never unlocks it.
FindEmpty(w) ==
    /\ pc[w] = "dequeue"
    /\ queue_m = NoThread
    /\ front = back
    /\ queue_m' = w
    /\ Goto(w, "ready")
    /\ UNCHANGED <<ring, flags, q_flag_m, locals, outstanding>>

\* Mutant of ClearFullFlag: the flag is lowered and nobody is told.
ClearFullFlagNoSignal(w) ==
    /\ pc[w] = "clear_full"
    /\ q_flag_m = NoThread
    /\ q_full_flag' = IF q_full_flag > 0 THEN q_full_flag - 1 ELSE q_full_flag
    /\ Goto(w, "job")
    /\ UNCHANGED <<ring, proc_rdy_flag, mutexes, locals, outstanding>>

\* Lower the full flag and signal q_cond, in a section of their own.
ClearFullFlag(w) ==
    /\ pc[w] = "clear_full"
    /\ q_flag_m = NoThread
    /\ LET waiting == {p \in Producers : pc[p] = "q_wait"}
       IN  IF q_full_flag > 0 /\ waiting # {}
             THEN \E p \in waiting :
                    pc' = [pc EXCEPT ![w] = "job", ![p] = "q_wake"]
             ELSE Goto(w, "job")
    /\ q_full_flag' = IF q_full_flag > 0 THEN q_full_flag - 1 ELSE q_full_flag
    /\ UNCHANGED <<ring, proc_rdy_flag, mutexes, locals, outstanding>>

\* thread_pool.job(job_num) runs to its end; the task may then be added again.
RunJob(w) ==
    /\ pc[w] = "job"
    /\ outstanding' = outstanding \ {job_num[w]}
    /\ job_num' = [job_num EXCEPT ![w] = NoTask]
    /\ Goto(w, "ready")
    /\ UNCHANGED <<ring, flags, mutexes, newtask, local_front>>

------------------------------------------------------------------------------

SpuriousWakeup(t) ==
    /\ \/ pc[t] = "task_wait" /\ Goto(t, "ready")
       \/ pc[t] = "q_wait" /\ Goto(t, "q_wake")
    /\ UNCHANGED <<ring, flags, mutexes, locals, outstanding>>

AddSteps(p) ==
    \/ LockQueue(p) \/ CheckIfFull(p) \/ WakeProducer(p) \/ RelockQueue(p)
    \/ AddTaskToQueue(p) \/ SetFullFlag(p) \/ CountTask(p) \/ SignalTask(p)

LoopSteps(w) ==
    \/ ClaimTask(w) \/ ReadFront(w) \/ PopTask(w) \/ FindEmpty(w)
    \/ ClearFullFlag(w) \/ RunJob(w)

Next ==
    \/ \E p \in Producers : AddSteps(p) \/ \E t \in Tasks : Call(p, t)
    \/ \E w \in Workers : LoopSteps(w)
    \/ \E t \in Threads : SpuriousWakeup(t)

Spec == Init /\ [][Next]_vars

\* A thread that can run is eventually scheduled.  Nothing obliges a caller to
\* add another task, and no waiter counts on a spurious wake-up.
Fairness ==
    /\ \A p \in Producers : WF_vars(AddSteps(p))
    /\ \A w \in Workers : WF_vars(LoopSteps(w))

FairSpec == Spec /\ Fairness
------------------------------------------------------------------------------
(* Properties *)

\* The type invariant of the pool's state: indices stay inside the ring,
\* mutexes have one owner, and each thread is at a point of its own code.
TypeOK ==
    /\ front \in Slots
    /\ back \in Slots
    /\ queue_array \in [Slots -> Tasks \cup {Junk}]
    /\ q_full_flag \in Nat
    /\ proc_rdy_flag \in Nat
    /\ queue_m \in Threads \cup {NoThread}
    /\ q_flag_m \in Producers \cup {NoThread}
    /\ pc \in [Threads -> ProducerPC \cup WorkerPC]
    /\ \A p \in Producers : pc[p] \in ProducerPC
    /\ \A w \in Workers : pc[w] \in WorkerPC
    /\ newtask \in [Producers -> Tasks \cup {NoTask}]
    /\ \A p \in Producers : pc[p] # "caller" => newtask[p] \in Tasks
    /\ local_front \in [Workers -> Slots]
    /\ job_num \in [Workers -> Tasks \cup {NoTask, Junk}]
    /\ outstanding \subseteq Tasks

\* Who owns the two mutexes at which point of the code; the invariants below are
\* inductive only together with it.
MutexOwners ==
    /\ \A p \in Producers :
        /\ pc[p] \in {"check", "add", "set_full"} => queue_m = p
        /\ pc[p] = "relock" <=> q_flag_m = p
    /\ \A w \in Workers : pc[w] \in {"clear_full", "job"} => queue_m # w

\* q_full_flag is an int that add_task_to_queue increments and dequeue
\* decrements under q_flag_m while queue_m orders the adds: however the threads
\* interleave it never counts past one, and no producer fills a slot or raises
\* the flag while the flag is up.
FullFlagSound ==
    /\ q_full_flag \in {0, 1}
    /\ \A p \in Producers : pc[p] \in {"add", "set_full"} => q_full_flag = 0

\* check_if_full locks queue_m while it holds q_flag_m; check_if_full's entry,
\* add_task_to_queue and dequeue take q_flag_m after queue_m.  No two threads
\* ever wait for each other's mutex of the two.
NoLockCycle ==
    ~ \E p \in Producers, t \in Threads :
        /\ q_flag_m = p /\ pc[p] = "relock"
        /\ queue_m = t /\ pc[t] \in {"check", "set_full", "clear_full"}

\* A counted task is never left to sleeping workers: when proc_rdy_flag says
\* there is one, a worker is awake or a producer is about to signal.  The
\* signal is sent after proc_flag_m is released, and may find nobody waiting.
NoLostTaskSignal ==
    proc_rdy_flag > 0 =>
        \/ \E w \in Workers : pc[w] # "task_wait"
        \/ \E p \in Producers : pc[p] = "signal"

\* The one producer of server.c waits on q_cond only while the full flag is up:
\* dequeue never lowers the flag without waking it.
NoLostSpaceSignal ==
    \A p \in Producers : pc[p] = "q_wait" => q_full_flag > 0

QueueLen == (back + size - front) % size

Contents == [i \in 1 .. QueueLen |-> queue_array[(front + i - 1) % size]]

Promise == INSTANCE TaskQueue WITH queue <- Contents, running <- job_num,
                                   Capacity <- size - 1

\* The ring buffer is the first-in first-out queue of TaskQueue: each add
\* appends a task where there is room, each dequeue hands the oldest one to one
\* worker, and nothing else changes what is queued.
ImplementsTaskQueue == Promise!Spec

\* A task that tpool_add_task is about to queue is handed to a worker in the end.
EveryTaskRuns ==
    \A t \in Tasks :
        (\E p \in Producers :
            newtask[p] = t /\ pc[p] \notin {"set_full", "notify", "signal"})
            ~> (\E w \in Workers : job_num[w] = t)

\* "make sure to unlock the queue before we return error": no worker that is
\* back in thread_loop owns queue_m.
QueueUnlockedOnReturn == \A w \in Workers : queue_m # w

==============================================================================
