# Lysten in TLA+

A model of Lysten: the remote-shell server `src/src/server.c`, the thread pool
`src/src/lib/tpool.c` it runs its work on, the client `src/src/client.c`, and
the earlier servers and clients under `src/old`, which solve the same task with
processes (lab 1 and 2) and with threads and epoll (lab 3).  TLC checks the
modules on small instances; TLAPS proves most of their safety invariants, and
that the pool is a queue, for every value of the constants.

## The system

| component | state | operations | who else touches the state |
|---|---|---|---|
| thread pool, `lib/tpool.c` | ring buffer `queue_array`, `front`, `back`; `q_full_flag`, `proc_rdy_flag`; three mutexes, two condition variables | `tpool_add_task`, `thread_loop`, `dequeue` | the main thread adds, one worker per processor takes |
| event loop, `server.c` 149-234 | `epfd`, `timer_epfd`, the events of the current `epoll_wait` | hand an event to the pool, `kill_client` on a hang-up, `handle_timer_epoll_loop` | workers register and re-arm descriptors |
| `process_task`, `server.c` 236-474, 584-664 | a local copy of a `client_struct` | accept, check the secret, start a shell, transfer, tear down, write the copy back | the main thread and the other workers |
| slabs, `server.c` 70-72 | `client_slab`, `client_ptr_slab`, `timer_slab`, indexed by descriptor | plain reads and writes | everybody, without a lock |
| start-up, `exec_bash` | - | open the listening socket; run bash on a terminal | - |
| client, `client.c` | two processes, the terminal's mode | handshake, copy both ways, restore the terminal | each process signals the other |
| lab 1 and 2, `old/lab1`, `old/lab2` (three versions) | an accepting process, a handler per client, its shell and relay; `cpid[]` | the same session with `fork`, signals and end of file | processes share descriptors, and end each other |
| lab 3, `old/lab3` | `epoll_fds`, `client_sockfd`, a timer per thread | accept, a thread per client for the protocol, one thread for all transfers | three kinds of threads, no lock; shells inherit descriptors |
| lab 4 and 5, tests, Makefile | - | copies of `tpool.c`, `server.c`, `client.c`; scripts | - |

A session: the listening socket becomes readable; the event loop turns the
event into a task; a worker accepts, registers the socket, sets a timer of
three seconds, sends `<rembash>`, and arms the listening socket again.  The
client's secret is the next event; a worker checks it, opens a pseudo terminal,
forks bash, registers the terminal, answers `<ok>`, and from then on every
event of the socket or the terminal is one `transfer_data`.  Every registration
is one-shot: after an event a descriptor is silent until a worker arms it again.

What is hard here, in the main program: two workers and the main thread work on
slabs without a lock, ordered only by the one-shot events; a descriptor number
is reused as soon as it is closed, while tasks, timers, slab entries and local
copies still name it; `process_task` writes a copy back over what others wrote
meanwhile; timers outlive what they were set for; and the pool's flags are
updated in sections of their own, apart from the ring they describe. In the
others: a connection is closed by the last process that holds it; SIGCHLD
arrives between any two steps, before `cpid[]` is filled or while output still
waits; `fork` and `execlp` fail; a handler for one client carries descriptors
of another; and `epoll_fds` is read by one thread while another is about to
fill it.
`PROJECT.json` lists the hazards line by line.

What makes each part correct:

- pool: a bounded first-in first-out queue, each task run by one worker, no
  signal lost, no two threads waiting for each other's mutex;
- events: one event or task per descriptor, none lost; the listening socket and
  `timer_epfd` always heard again;
- sessions: the slabs link a socket to the shell started for its client; data
  never crosses sessions; only a wrong secret is refused; no client brings the
  server down; a silent client, and only that one, is disconnected by its timer;
- client: never a signal for a stranger; no process left alone; the terminal
  restored;
- fork-based servers: a shell for the secret only; the end of either side ends
  all processes of the session, and no other;
- lab 3: each thread works for its own client; the one transfer thread never
  stops; what a hang-up closes is closed on both sides; silence is cut off.

## Modules

**TaskQueue** is what the pool promises: `Add` appends where there is room,
`Take` hands the oldest task to a free worker, `Finish` ends it.

**ThreadPool** is `tpool.c`.  Every thread has a program counter; a step ends
where the thread blocks on a mutex it does not hold, releases one and goes on
without it, or touches shared memory with no mutex (the read of `front` at line
262).  `queue_m` and `q_flag_m` are held across steps and have an owner;
`proc_flag_m` protects single steps only and needs no variable.
`pthread_cond_wait` may wake spuriously.  The caller never adds a task that is
still on its way: in the server, `EPOLLONESHOT` sees to that (`OneEventEach`).

**Kernel** is external: descriptors (the lowest free one is handed out),
one-shot registrations, what `read` and `write` return, hang-ups and resets,
timers, and, as environment, clients and shells.  Timers are all set for three
seconds, so what is kept of a running one is which others were set before it
(pairs in `running_timers`).  Two details carry much of the
behaviour: data sent to a closed connection is answered by a reset, after which
`write` raises SIGPIPE; and a hang-up is reported like an event.

**Server** extends Kernel with the slabs, the event loop and `process_task`, and
uses TaskQueue for the pool.  Each worker is at `load` (the switch of lines
245-257), at one of the states of the switch, between two calls (`greet`,
`reject`, `handle`, `ok`, `write`), or at `store` (lines 304-310).  Calls that
no other thread can tell apart are one step.  `kill_client` is two steps, in the
main thread and in workers: it closes, then it clears.

| in the code | in Server |
|---|---|
| `evlist`, the `for` loop of 166 | `EpollWait`, `HangUp`, `AddTask`, `TimerEvent`: events of one `epoll_wait` are handled in any order, one per step |
| `handle_timer_epoll_loop` | `TimerEvent`, `HandleTimer` per timer, `TimersDone` (line 186) |
| uninitialized `client`, `state` (241-247) | `LoadGarbage`: any state; the copy is what the thread last had there |
| `accept_new_client`; `setup_timer` to 253 | `Accept`; `Greet` |
| 262-274 | `CheckSecret`, `Reject`, `HandleClient`, `SendOk` |
| `transfer_data` | `ReadData`, `WriteData`, with `DieOfSigsegv`, `DieOfSigpipe` |
| 282-297 | `SendUnwritten`, `Terminate`, `ClearTerminated` |
| 304-310 | `Store` |

History variables: `owner` (whose secret a shell was started for),
`authenticated`, and `flows` (what was read from where and written to where).

**Processes** is external: what the fork-based programs get from the operating
system for one session.  Seven processes: the user's shell (`login`), the
client's parent and child (`reader`, `writer`), the accepting `server`, the
`handler` of the client, its `relay` and `bash`.  Its operators are system
calls, each taking the calling process and the labels it goes on at: `Fork`
copies descriptors and signal dispositions, `Terminate` sends SIGTERM, `Read`
has a label each for data, end of file and error, `Write` knows resets and
SIGPIPE.  A connection ends when the last process of a side closes it; a
terminal hangs up with its master.  Messages are members of a small set; what a
user types is a line, `exit` or `eof`.

**Lab1Server, Lab1Client, Lab2Server, Lab2Client, Lab2RefactorServer,
Lab2RefactorClient, CarverServer, CarverClient, Client** each model one program
in these calls: an operator for each C function, a disjunct per label, one
system call per step.  A label is where the process is; a failing call goes
where the code's `if` goes, which often is on.  `cpid[]` is kept as zero, the
child or -1, since `kill` treats the three differently.  `sigchld_handler` can
run before any step of a process that has set it.  The buffers for the secret
are not initialised in lab 1 and lab 2, so there the right secret may be
refused.

**Rembash** puts a server and a client together: `prog` chooses the programs,
and each process takes the steps of the one it runs.  The properties are there.

**Lab3Server** is `lab3-server.c`.  A temporary thread is named after its
client; `pc` is where it is in `handle_client`, `step` where the epoll thread is
in its loop.  A step is one system call, or one access to `epoll_fds`, `cell`
(the malloc'ed int a thread is given) or `client_sockfd`.  Descriptors, what
epoll watches (a number and the object behind it, which may part company),
timers, clients and shells are modelled alongside; what a shell inherits from
the fork is kept in `inherited`.

| in the code | in Lab3Server |
|---|---|
| `main`, 75-107; `accept_new_client` | `accept_new_client` |
| `handle_client` | `Start`, `setup_timer`, `handle_protocol`, `Drop`, `setup_pty`, `Fork`, `setup_client_pty_epoll_units` |
| `read` interrupted by the timer | `timer_handler`, only while the read of the secret waits |
| `epoll_wait_loop` | `epoll_wait`, `HandleEvent`: the events of one call in any order |
| `close_hung_fds` twice, then 167 | `close_hung_fds`, and after a hang-up with input `Transfer` |
| `transfer_data` | `TransferRead`, `TransferWrite` |
| the forked child | `exec_bash` |

**MCThreadPool**, **MCServer**, **MCRembash** and **MCLab3** add symmetry sets
and the sessions and settings of the runs.  The theorems are in
**ThreadPool_proofs**, **TaskQueue_proofs** (the pool implements TaskQueue),
**Server_proofs**, which **SilentClients_proofs** and **ServerSessions_proofs**
extend, **Rembash_proofs**, which **Lab2Output_proofs** extends, and
**Lab3Server_proofs**.

## Runs

| run | instance | shows |
|---|---|---|
| `pool_one_worker` | 1 worker, 4 slots, 3 tasks, fair | `ImplementsTaskQueue`: the ring is the queue of TaskQueue; `EveryTaskRuns` |
| `pool_many_workers` | 3 workers, 3 slots, 3 tasks | `FullFlagSound`, `NoLockCycle`, `NoLostTaskSignal`, `NoLostSpaceSignal` |
| `server_sessions` | 1 worker, 2 clients, right and wrong secrets, 1 line each, fair | one event per descriptor, slabs link sessions, only wrong secrets refused, nobody left in the backlog, all input read |
| `server_any_event` | 2 workers, 1 client, all events | slab pointers stay in the slab; exactly one event for the listening socket and for `timer_epfd` |
| `server_isolation` | 1 worker, 2 clients, shells that exit, 1 line each | data never crosses sessions although descriptors are reused |
| `server_silent` | 2 workers, 3 clients that never speak, fair | each is disconnected, by its own timer |
| `fork_sessions` | seven pairs of server and client, one connection each, one or two lines, `exit`, end of input, ^C, input from a file, failing `fork`, terminal and `exec`, fair | a shell for the secret only; lab 2 delivers all output; the server of lab 1 and 2 goes on; no signal for the user's shell; the end of either side ends the other; the terminal restored by the course's client |
| `lab3_sessions` | 2 clients: one with every event, or both typing lines, or both with shells that print, and silent ones; fair | threads on their own sockets, no bytes across sessions, silent clients released, typed input read, sessions torn down |

Disagreements with what the repository says, each a run TLC refutes:

| run | what happens |
|---|---|
| `pool_lock_leak` | with one worker: the full flag is lowered for adds that raised it later, the ring overflows and looks empty, and `dequeue` returns with `queue_m` locked |
| `server_rearm_race` | the client's first line, taken by a second worker before the new state is stored, is compared with the secret; the client is refused |
| `server_gone_client` | a client leaves while its shell prints: SIGPIPE ends the server |
| `lab3_held_connection` | a shell inherits the socket of a client that is still in its protocol; the timer makes the server close it, but the client is not disconnected while that shell runs |

### Seen with other settings

What follows fails when a run's settings are changed as said; it has no run of
its own, for want of a sentence in the repository it contradicts or because it
is close to a run above.  The properties of the passing runs leave these cases
out, each at its definition.

Main program:

- `EveryTaskRuns` with two workers (`Workers = {w1, w2}`, `Tasks = {t1, t2}`,
  `TASKS_PER_THREAD = 2` in `pool_one_worker`): both copy the same `front`
  (`tpool.c:262`), one task runs twice and
  another is never run.
- `StaysUp` with the settings of `server_rearm_race`: output of a new shell is
  handled before `client_ptr_slab` knows the terminal (`server.c:391`, `308`);
  the state is uninitialized and the pointer NULL.
- `TimerHitsItsClient` with one worker, two clients and
  `Happens = {"secret", "exit", "timeout"}` in `server_silent`: the timer of
  a finished session disconnects a later client on the same descriptor
  (`server.c:402-404` says the timer is deleted; nothing does).
- `Isolation` with two workers and `Happens = {"secret"}` in `server_isolation`:
  after the re-arm race one client's shell is linked to the next one's socket.
- `OneEventEach`, `SessionsLinked`, `StaysUp` and `RejectsOnlyWrongSecret` with
  `"exit"`, `"close"`, `"reset"` or a second worker in `server_sessions`, and the
  first two with `"late_timeout"`: a descriptor is closed while a worker or the
  queue has an event of it, or its slab entry outlives it.
- `SilentClientDropped` with `{"wrong_secret", "timeout"}` in `server_silent`: a
  failed CTL_DEL abandons a batch of timers, or a late task closes another
  client's timer.
- `terminated`, stored by `transfer_data`, is overwritten at `server.c:305`: a
  client that has left stays readable and is served again and again, until a
  hang-up is reported, if one is.

Fork-based programs (`Sessions` and `Happens` of `fork_sessions`):

- `EndsWithClient` with lab 2 (`Lab2`, `{"exit", "eof", "file"}`):
  `kill(SIGTERM, pid)` at `lab2-server.c:223` and `240` does not end the handler.
- `OutputDelivered` with the course's server (`Carver`, `{"exit"}`): the
  handler for SIGCHLD leaves while the shell's last output waits.
- `Alive("server")` with the servers that catch SIGCHLD and `setup_fails`: the
  handler runs before `cpid[1]` is set, and `kill(0, SIGTERM)` reaches the
  accepting server; with `fork_fails`, `kill(-1, SIGTERM)`.
- `SparesTheUser` without its condition, with `fork_fails`: the client's
  parent falls through to the child's loop and ends the shell it was started
  from (`client.c:53-61`).
- `TerminalRestored` of `client.c`: its child's SIGTERM, or its own `exit`, comes
  before the handler for SIGCHLD; of the course's client, when `fork` fails or ^C
  is typed.
- `EndsWithShell` with lab 1's client: its child reads on after the parent left.
- `Lab2DeliversOutput` with lab 2's server and lab 1's client: it prints 0 or 1
  bytes of what it reads for `<ok>` (`lab1-client.c:128` stores the comparison),
  and shell output that came with it is dropped.
- A shell of lab 2 that cannot be started ends the handler, not the relay.

Lab 3 (`Settings` of `lab3_sessions`):

- A line that arrives before `epoll_fds` is filled is written to descriptor 0,
  the server's input; `NoCrossTalk` allows it by `Stdin`.  A client that leaves
  then closes descriptor 0.
- `NoCrossTalk` with both clients and `{"exit", "line"}`: stale entries of
  `epoll_fds` lead to a descriptor that has been closed and handed out again.
- `InputRead` with both clients and `{"leave"}`: a descriptor closed after a
  hang-up is read once more (line 173); when it is another client's by then, the
  one transfer thread waits in that read.
- `Greeted` with `zero_timer`: `setup_timer`'s result is compared with NULL, and
  the first timer of a process is number 0 in today's C library.
- SIGPIPE, and a failing `fork` (line 309), end the server with every session.

### Bounds

- Pool: as many slots as outstanding tasks or one more.  With one worker and 3
  tasks in 4 slots the ring wraps and is filled to its last usable slot; a
  fourth task makes it overflow, which is `pool_lock_leak`.  So
  `ImplementsTaskQueue` is about at most `size - 1` outstanding tasks.  In
  `pool_many_workers` there are as many tasks as slots, one more than fit, so
  the producer waits for space, and stale fronts and leaked locks happen.
- `LastFd`: three descriptors per client (socket, timer, terminal), or one
  more, so that the limit of the model is never what stops a step.  Numbers are
  reused by the lowest-free rule.
- `MaxLines`: one line after the secret is enough to race the handshake, and
  to be merged with the secret into one read.
- `Happens` names the events of a run.  `timeout` lets a timer expire only when
  the server has nothing else to do, `late_timeout` at any time.
- Each client connects once; the backlog holds all of them.
- `fork_sessions`: one connection.  Sessions of one client do not share
  anything but the accepting server, whose own end is part of the model.  The
  user types one line, or two where a client that was refused must write
  twice to find out.  `AllPrograms` has every program at least once, each server
  with the client it was written with or the one whose secret it takes, and two
  sessions whose client does not know that it was refused.
- `lab3_sessions`: `LastFd` 8 gives each of two clients a socket and a terminal.
  One line per client; one print at a time.  A client alone meets every event; two
  together, those under which they stay connected (`OneOrAll`).  Sessions with two
  clients that leave are among those seen to fail above.

### Fairness

`ThreadPool!Fairness`: weak fairness of each thread's steps.  Nothing obliges
the caller to add, no waiter relies on a spurious wake-up.  Mutexes need no
more: no thread competes for `queue_m` for ever where liveness is checked (one
worker, finitely many tasks on their way).  `Server!Fairness`: weak fairness of
the event loop, of each worker, and of time passing; none of clients or shells.
Both are what an operating system that schedules every runnable thread gives.
`Rembash!FairSpec` asks less: as long as some process can take a step, one does.
That is enough because no process can run for ever on its own input, and the
user types finitely often.  `Lab3Server!FairSpec`: weak fairness of the epoll
thread and of each client's thread, its timer included; none of clients and
shells.

## Proofs

What is an assumption on a constant (`PoolAssumption`, `KernelAssumption`,
`ServerAssumption`, `ProcessesAssumption`, `Lab3Assumption`: finitely many
workers or clients, distinct names, sets of known events) is stated where the
constant is declared and holds in every run.  What the code needs beyond that
is a hypothesis of the theorem, named here.

`ThreadPool_proofs`, any number of producers, workers and tasks:

- `Typing`: `Spec => []TypeOK`;
- `MutexOwnership`: `Spec => []MutexOwners`, which program point owns which
  mutex.  It is the strengthening the others need: `TypeOK` says nothing of who
  holds a lock, so "nobody else fills a slot now" cannot be derived from it;
- `FullFlagIsBinary`: `Spec => []FullFlagSound`.  Between the test of the flag
  and the end of `add_task_to_queue` the producer owns `queue_m`, and only a
  producer that owns it raises the flag;
- `TaskSignalsArrive`: `Spec => []NoLostTaskSignal`: a worker sleeps only after
  it saw a count of zero under `proc_flag_m`, and the count is raised before the
  signal;
- with a single producer, as in the server, `NoDeadlyEmbrace` and
  `SpaceSignalsArrive`: `NoLockCycle` and `NoLostSpaceSignal`.  The hypothesis
  is needed: one signal per lowering of the flag wakes one of several waiting
  producers, and the flag is lowered for all of them.

`TaskQueue_proofs`, any number of producers, with the hypotheses `OneWorker`
and `RoomForAll` (at most `size - 1` tasks; with `size` of them the ring
overflows, `pool_lock_leak`, and with two workers a task runs twice):

- `TasksInOnePlace`: `Spec => []OnePlace`.  A task is with one producer, in one
  slot or with the worker, and the copy of `front` that `dequeue` made is still
  right when it is used.  The refinement is not inductive without it: nothing
  else keeps the ring from being full when a task is appended;
- `PoolIsTaskQueue`: `Spec => ImplementsTaskQueue`.  The slots from `front` to
  `back` are the queue; `AddTaskToQueue` is an `Add`, `PopTask` a `Take`, `RunJob` a
  `Finish`, every other step a stutter.

`Server_proofs`, any number of workers, clients, shells and descriptors, and
every event of the environment, so all the races of the slabs included:

- `Typing`: `Spec => []TypeOK`: slab pointers stay in the slab, and a copied,
  overwritten or uninitialized `client_struct` names no standing descriptor;
- `EventsKept`: `Spec => []EventInv`: the event of the listening socket is armed,
  reported, queued or with a worker, and with one of them only; that of
  `timer_epfd` likewise, or the loop is in `handle_timer_epoll_loop`.
  `StandingApart` is the strengthening: neither descriptor hangs up or is
  closed, and a worker with the listening socket is at `load` or `greet`;
- `AcceptorKept` and `TimersStayHeard`: `OneAcceptor` and `TimersHeard`, which
  count those places, follow.

`SilentClients_proofs`, any number of workers, and any number of clients that
connect and say nothing (`Silent`; timers may be late):

- `TimersHitTheirClients`: `Spec => TimerHitsItsClient`.  The invariant: a timer
  is open as long as the connection it was set for, no two are set for one, and
  what runs or has expired is an open timer (`Paired`, `OnTime`).  The hypothesis
  is needed: nothing deletes the timer of a client that is served, and the
  next one on its descriptor is hit by it.

`ServerSessions_proofs`, any number of clients, right and wrong secrets, full
sockets, with `OneWorker` and `Calm`: no client leaves, no shell exits, no timer
expires:

- `CalmKept`: `Spec => []CalmInv`.  Its parts: `SocketsKnown` and
  `TerminalsKnown` (slab elements and pointers, also while only the worker's copy
  knows the terminal), `Copies` (what the copy says between two calls),
  `Strangers` (connections and owners of shells are distinct), `EventsOfSessions`
  (a descriptor in use has one event, a free one none: the copy is stored after
  both descriptors were armed, and with one worker that is before the next task)
  and `FlowsInside`;
- `EachEventOnce`, `SessionsStayLinked`, `SessionsIsolated`, `ServerStaysUp` and
  `OnlyWrongSecretsRejected`: `OneEventEach`, `SessionsLinked`, `Isolation`,
  `StaysUp` and `RejectsOnlyWrongSecret`.  `OneWorker` is needed for each, and
  that nobody leaves for each but `Isolation` ("Seen with other settings"), which is
  model-checked for more than is proved: `server_isolation` lets shells exit.

`Rembash_proofs`, every pair of a server and a client program, any input of the
user, and any of the failing calls:

- `SessionKept`: `Spec => []SessionInv`.  Its parts: `Typed` with `CargoOK`
  (when the client's secret is wrong, neither the secret nor anything a shell
  prints is on its way or in a buffer); `PlacesOK` (which labels a process has);
  `NoShellYet` (a handler whose client has the wrong secret is not beyond its
  check); `ServerStays`; `PairStarts` and `UserSpared` (whom `getppid()` and
  `cpid` name); `TerminalKept`.  The argument goes by calls: each system call of
  Processes is put under one of a few kinds of step, by a lemma, and each program
  module, an INSTANCE, is bridged to it.  `CargoOK` is needed because the
  comparison of the secret reads a buffer: that a client with the wrong secret
  gets no shell rests on what may be in it;
- `Typing`, `ShellNeedsSecret`, `ServerSurvives`, `UserIsSpared`,
  `TerminalComesBack`: `TypeOK`, `ShellOnlyForSecret`, `ServerGoesOn`,
  `SparesTheUser` and `TerminalRestored`.

`Lab2Output_proofs`, lab 2's server with any client but lab 1's (which drops
output, above), any input of the user, any of the failing calls, and whichever
process ends first:

- `OutputConserved`: `Spec => [](Lab2 => Delivering)`.  `Conserved` says where
  output is: what was printed is in the terminal, in the handler's buffer, on the
  connection, in the reader's buffer or shown, as long as the client listens and
  the session has not failed before a relay was started; and once the handler is
  past its copying loop (`Over`) the shell is `Silent` and nothing is left on the
  server's side.  `Lab2DeliversOutput` is about a moment; this follows the output
  from call to call.  It needs the rest: `WiresOK` (a fault of one end means that
  nobody holds the other, so the handler fails to pass on only to a client that
  is gone), `HandlerOK` (the handler leaves while it has the socket only when
  the terminal has ended, and nobody keeps the terminal longer), `StagesOK` and
  `ShellOK` (nothing is printed before there is a handler to read it), `AskOK`
  and `ReaderOK` (the client reads over `<rembash>` and `<ok>`: that no output
  is in the buffer then is what fails with lab 1's client).  The calls are put
  under a few kinds of step first (`Rests`, `Closes`, `Reads`, `Writes`), then
  each program's steps under those;
- `EverythingIsShown`: `Lab2DeliversOutput`.  The connection closed in order means
  that nobody on the server's side holds the socket, so the handler is past its
  loop and everything has been given; nothing is on its way, and the reader's
  buffer is empty of output while it reads.

The parts of `Delivering` were model-checked before they were proved, over lab
2's server with each of the five clients; the run pairs it with its own client.

`Lab3Server_proofs`, any number of clients and descriptors:

- `GeneralKept` and `Typing`: `Spec => []GeneralInv` and `[]TypeOK` in every
  setting.  `HandedOut`: what a thread has taken for its connection or terminal
  is a descriptor above the server's own, although nobody locks the table;
- `SessionsApart`: `Spec => []CalmInv`.  In a setting in which no client leaves
  and no shell exits (`Calm`), descriptors are closed by their own thread only,
  and the entries of `epoll_fds`, what epoll watches, and what the transfer thread
  holds all belong to one client (`Apart`).  That the number behind a registration
  may have been closed and handed out again is why `Apart` is about objects;
- `NoBytesCross`: `Spec => []NoCrossTalk`, under `CalmOrAlone`: each setting is
  calm or has one client.  It is needed: after hang-ups stale entries of
  `epoll_fds` cross sessions (above).

Every invariant and every safety property of a passing run is the subject of a
theorem, under the hypotheses named above.  Only model-checked:

- liveness: `EveryTaskRuns`, everything under a Fairness, and what needs ENABLED;
- `Isolation` of Server with shells that exit.  It holds although links and
  events go wrong then, so the invariant has to follow slab elements and copies
  over the reuse of the descriptors they name.

## Not modelled

- Failures of `malloc`, `pthread_create` and of `epoll_ctl` on a fresh
  descriptor; in `server.c` also of `fork` and `posix_openpt`; running out of
  descriptors, and with it `accept4` failing and the index -1 that follows.  A
  write to element -1 of a slab (a client with no terminal has `pty_fd` -1, line
  308) has no effect in the model.
- The limits of the slabs (500 elements), and of `epoll_fds` (45), against
  descriptor numbers.
- Partial writes, blocking writes to a full pipe and lines longer than a buffer;
  in Server, the contents of messages to the client and their order.
- Reading standard input through an uninitialized `client` whose `sock_fd` is 0:
  the read fails in the model.
- In Server, copies of descriptors a forked child holds until it runs bash.
- Start-up: `socket`, `bind`, `listen`, `get_ip_addr`, arguments; in lab 1 these
  errors are reported and gone on from.
- Reuse of process numbers; a second connection to a fork-based server.
- `lab3-client.c`, `lab5-client.c`, `old/lab4` and the servers of `old/lab5`: the
  same programs as `client.c`, `tpool.c` and `server.c` up to a string, a header
  and a cleared buffer.  `lab3-refactor-server.c` and `lab3-server.c` are one text.

## Plan

1. (done) `TaskQueue`, `ThreadPool` and its proofs; `Kernel`, `Server`.
2. (done) `Processes`, the fork-based programs and `client.c`, `Rembash`;
   `Lab3Server`.
3. (done) Server proofs: typing, `OneAcceptor` and `TimersHeard` for any number
   of workers and clients.
4. (done) Proofs for Rembash and Lab3Server.
5. (done) ThreadPool implements TaskQueue, with one worker and at most
   `size - 1` tasks.
6. (done) Server: the sessions with one worker while nobody leaves; timers of
   silent clients.
7. (done) `Lab2DeliversOutput`, by the conservation of output.
8. `Isolation` with one worker and shells that exit.
9. An abstract session (refused, serving, ended) that both Rembash and, with one
   worker, Server implement.
