------------------------------ MODULE TaskQueue ------------------------------
(***************************************************************************)
(* What the thread pool of src/lib/tpool.c promises its caller, stated     *)
(* without its ring buffer, mutexes, flags or condition variables: a       *)
(* bounded first-in first-out queue of tasks, each of which is handed to   *)
(* exactly one worker.  ThreadPool is the code; it implements this module  *)
(* in the configurations MCThreadPool checks.                              *)
(***************************************************************************)
EXTENDS Naturals, Sequences

CONSTANTS Workers,    \* the threads that run jobs
          Tasks,      \* what a caller may pass to tpool_add_task
          NoTask,     \* a worker that runs no job holds this
          Capacity    \* how many tasks can be queued at once

VARIABLES queue,      \* the queued tasks, oldest first
          running     \* running[w]: the task worker w has been handed

tvars == <<queue, running>>

Init ==
    /\ queue = <<>>
    /\ running = [w \in Workers |-> NoTask]

\* A task is accepted only while there is room for it.
Add(t) ==
    /\ Len(queue) < Capacity
    /\ queue' = Append(queue, t)
    /\ UNCHANGED running

\* A free worker is handed the oldest task, which leaves the queue.
Take(w) ==
    /\ queue # <<>>
    /\ running[w] = NoTask
    /\ running' = [running EXCEPT ![w] = Head(queue)]
    /\ queue' = Tail(queue)

Finish(w) ==
    /\ running[w] # NoTask
    /\ running' = [running EXCEPT ![w] = NoTask]
    /\ UNCHANGED queue

Next ==
    \/ \E t \in Tasks : Add(t)
    \/ \E w \in Workers : Take(w) \/ Finish(w)

Spec == Init /\ [][Next]_tvars

==============================================================================
