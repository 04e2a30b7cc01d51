-------------------------------- MODULE Server --------------------------------
(***************************************************************************)
(* src/server.c: the event loop of main() and the workers running          *)
(* process_task.  They share descriptors, the epoll set and three slabs,   *)
(* none of which has a lock.  A step ends where the code has changed       *)
(* something another thread reads.                                         *)
(*                                                                         *)
(* The thread pool is what TaskQueue promises; what tpool.c adds to that   *)
(* is the subject of ThreadPool.                                           *)
(***************************************************************************)
EXTENDS Kernel

CONSTANTS Workers,    \* the threads of the pool
          Main        \* the thread running epoll_wait_loop

ASSUME ServerAssumption ==
    /\ IsFiniteSet(Workers)
    /\ Workers # {}
    /\ Main \notin Workers

NULL == 0

States == {"new", "established", "unwritten", "terminated"}

\* An element of client_slab before anything is written to it.
ZeroClient == [sock_fd |-> 0, pty_fd |-> 0, state |-> "new"]

\* What transfer_data read, where it will write it, and the slab element its
\* client pointer names.
Idle == [what |-> Closed, to_fd |-> 0, slot |-> NULL]

VARIABLES
    \* memory of server.c
    client_slab, client_ptr_slab, timer_slab,
    \* the event loop
    evlist,           \* events epoll_wait returned, still to be handled
    time_evlist,      \* timers the inner epoll_wait returned
    in_timer_loop,    \* inside handle_timer_epoll_loop
    \* the pool
    tasks, job,
    \* the threads
    pc,
    client,           \* process_task's local copy of a client_struct
    client_fd,        \* process_task's local of that name
    moving,           \* transfer_data between its read and its write
    killing,          \* the client a kill_client has closed but not cleared
    \* the process
    fate,             \* up, or the signal that ended it
    \* history
    owner,            \* the client a shell was forked for
    authenticated,    \* the client whose secret each worker accepted last
    flows             \* <<from, to>>: data was read from one and written to other

slabs   == <<client_slab, client_ptr_slab, timer_slab>>
loop    == <<evlist, time_evlist, in_timer_loop>>
pool    == <<tasks, job>>
locals  == <<pc, client, client_fd, moving, killing>>
history == <<owner, authenticated, flows>>
memory  == <<slabs, loop, pool, locals, fate, history>>
vars    == <<kernel, outside, shell, memory>>

Pool == INSTANCE TaskQueue
          WITH queue <- tasks, running <- job, Tasks <- AllFds, NoTask <- 0,
               Capacity <- Cardinality(AllFds)

Init ==
    /\ KernelInit
    /\ client_slab = [fd \in Fds |-> ZeroClient]
    /\ client_ptr_slab = [fd \in AllFds |-> NULL]
    /\ timer_slab = [fd \in Fds |-> 0]
    /\ evlist = {}
    /\ time_evlist = {}
    /\ in_timer_loop = FALSE
    /\ Pool!Init
    /\ pc = [w \in Workers |-> "idle"]
    /\ client = [w \in Workers |-> ZeroClient]
    /\ client_fd = [w \in Workers |-> 0]
    /\ moving = [w \in Workers |-> Idle]
    /\ killing = [t \in Workers \cup {Main} |-> NULL]
    /\ fate = "up"
    /\ owner = [s \in Shells |-> None]
    /\ authenticated = [w \in Workers |-> None]
    /\ flows = {}

Goto(w, label) == pc' = [pc EXCEPT ![w] = label]

Die(signal) ==
    /\ fate' = signal
    /\ UNCHANGED <<kernel, outside, shell, slabs, loop, pool, locals, history>>

------------------------------------------------------------------------------
(* kill_client, in two parts: the descriptors are closed, then the slabs      *)
(* cleared through a pointer that was read before.                            *)

\* Mutant of Ends: the terminal is left out.
EndsSockOnly(c) == {c.sock_fd}

\* The descriptors under which a client is known.
Ends(c) == {c.sock_fd, c.pty_fd}

SetPtrs(F, i) == [fd \in AllFds |-> IF fd \in F THEN i ELSE client_ptr_slab[fd]]

\* Both DELs come first; when the second one fails the first one has happened.
CloseClient(t, fd) ==
    LET slot == IF fd \in AllFds THEN client_ptr_slab[fd] ELSE NULL
        sock == client_slab[slot].sock_fd
        pty  == client_slab[slot].pty_fd
    IN  CASE slot = NULL \/ ~ Registered(sock) ->
               UNCHANGED <<kernel, shell, killing>>
          [] slot # NULL /\ Registered(sock) /\ ~ Registered(pty) ->
               /\ reg' = [reg EXCEPT ![sock] = "none"]
               /\ UNCHANGED <<fdtab, running_timers, expired, shell, killing>>
          [] OTHER ->
               /\ CloseAll({sock, pty})
               /\ killing' = [killing EXCEPT ![t] = slot]

ClearClient(t) ==
    LET slot == killing[t]
        sock == client_slab[slot].sock_fd
    IN  /\ client_ptr_slab' = SetPtrs(Ends(client_slab[slot]), NULL)
        /\ client_slab' = IF sock \in Fds
                          THEN [client_slab EXCEPT ![sock].sock_fd = -1]
                          ELSE client_slab
        /\ killing' = [killing EXCEPT ![t] = NULL]

------------------------------------------------------------------------------
(* epoll_wait_loop *)

LoopFree == ~ in_timer_loop /\ killing[Main] = NULL

\* Mutant of EpollWait: without EPOLLONESHOT, and level-triggered.
EpollWaitLevel ==
    /\ LoopFree
    /\ evlist = {}
    /\ Ready # {}
    /\ evlist' = {[fd |-> fd, hup |-> HungUp(fd)] : fd \in Ready}
    /\ UNCHANGED <<kernel, outside, shell, slabs, time_evlist, in_timer_loop, pool,
                   locals, fate, history>>

\* EPOLLONESHOT: a descriptor that is reported says nothing until it is
\* modified.
EpollWait ==
    /\ LoopFree
    /\ evlist = {}
    /\ Ready # {}
    /\ evlist' = {[fd |-> fd, hup |-> HungUp(fd)] : fd \in Ready}
    /\ reg' = [fd \in AllFds |-> IF fd \in Ready THEN "spent" ELSE reg[fd]]
    /\ UNCHANGED <<fdtab, running_timers, expired, outside, shell, slabs,
                   time_evlist, in_timer_loop, pool, locals, fate, history>>

HangUp(e) ==
    /\ LoopFree
    /\ e.hup
    /\ evlist' = evlist \ {e}
    /\ CloseClient(Main, e.fd)
    /\ UNCHANGED <<outside, slabs, time_evlist, in_timer_loop, pool, pc, client,
                   client_fd, moving, fate, history>>

ClearHungUp ==
    /\ killing[Main] # NULL
    /\ ClearClient(Main)
    /\ UNCHANGED <<kernel, outside, shell, timer_slab, loop, pool, pc, client,
                   client_fd, moving, fate, history>>

\* Mutant of AddTask: the event is dropped while another task is queued.
AddTaskIfIdle(e) ==
    /\ LoopFree
    /\ ~ e.hup
    /\ e.fd # timer_epfd
    /\ evlist' = evlist \ {e}
    /\ IF tasks = <<>> THEN Pool!Add(e.fd) ELSE UNCHANGED pool
    /\ UNCHANGED <<kernel, outside, shell, slabs, time_evlist, in_timer_loop,
                   locals, fate, history>>

AddTask(e) ==
    /\ LoopFree
    /\ ~ e.hup
    /\ e.fd # timer_epfd
    /\ evlist' = evlist \ {e}
    /\ Pool!Add(e.fd)
    /\ UNCHANGED <<kernel, outside, shell, slabs, time_evlist, in_timer_loop,
                   locals, fate, history>>

\* handle_timer_epoll_loop starts by collecting the expired timers.
TimerEvent(e) ==
    /\ LoopFree
    /\ e.fd = timer_epfd
    /\ expired # {}
    /\ evlist' = evlist \ {e}
    /\ in_timer_loop' = TRUE
    /\ time_evlist' = expired
    /\ expired' = {}
    /\ UNCHANGED <<fdtab, reg, running_timers, outside, shell, slabs, pool,
                   locals, fate, history>>

\* Mutant of TimerClient: the first event of the batch instead of the current.
TimerClientFirst(t) ==
    timer_slab[CHOOSE u \in time_evlist : \A v \in time_evlist : u <= v]

\* The descriptor of the client timer t was set for.
TimerClient(t) == timer_slab[t]

\* Mutant of StillNew: looked up under the timer's own descriptor.
StillNewByTimer(t) ==
    LET slot == client_ptr_slab[t]
    IN  slot # NULL /\ client_slab[slot].state = "new"

\* That client has not completed the protocol.
StillNew(t) ==
    LET slot == client_ptr_slab[TimerClient(t)]
    IN  slot # NULL /\ client_slab[slot].state = "new"

\* One expired timer.  When either DEL fails the function returns: the timers
\* not looked at yet are neither handled nor closed.
HandleTimer(t) ==
    LET fd == TimerClient(t)
    IN  /\ t \in time_evlist
        /\ CASE StillNew(t) /\ ~ Registered(fd) ->
                  time_evlist' = {} /\ UNCHANGED <<kernel, shell>>
             [] (StillNew(t) => Registered(fd)) /\ ~ IsTimer(t) ->
                  /\ time_evlist' = {}
                  /\ CloseAll(IF StillNew(t) THEN {fd} ELSE {})
             [] OTHER ->
                  /\ time_evlist' = time_evlist \ {t}
                  /\ CloseAll(IF StillNew(t) THEN {fd, t} ELSE {t})
        /\ UNCHANGED <<outside, slabs, evlist, in_timer_loop, pool, locals, fate,
                       history>>

\* The timers are done with; timer_epfd is armed again.
TimersDone ==
    /\ in_timer_loop
    /\ time_evlist = {}
    /\ in_timer_loop' = FALSE
    /\ reg' = Rearmed(reg, timer_epfd)
    /\ UNCHANGED <<fdtab, running_timers, expired, outside, shell, slabs, evlist,
                   time_evlist, pool, locals, fate, history>>

LoopSteps ==
    \/ EpollWait \/ ClearHungUp \/ TimersDone
    \/ \E e \in evlist : HangUp(e) \/ AddTask(e) \/ TimerEvent(e)
    \/ \E t \in time_evlist : HandleTimer(t)

------------------------------------------------------------------------------
(* process_task *)

TakeTask(w) ==
    /\ pc[w] = "idle"
    /\ Pool!Take(w)
    /\ Goto(w, "load")
    /\ UNCHANGED <<kernel, outside, shell, slabs, loop, client, client_fd, moving,
                   killing, fate, history>>

\* Mutant of Case: no default.
CaseNoDefault(state) == state

\* Where the switch goes for each state; any other value does nothing.
Case(state) == IF state \in States THEN state ELSE "store"

\* The index of the slab element process_task copies, NULL when there is none.
Slot(fd) == IF client_ptr_slab[fd] = NULL THEN NULL
            ELSE client_slab[client_ptr_slab[fd]].sock_fd

Load(w) ==
    /\ pc[w] = "load"
    /\ Slot(job[w]) \in Fds
    /\ client' = [client EXCEPT ![w] = client_slab[Slot(job[w])]]
    /\ Goto(w, Case(client_slab[Slot(job[w])].state))
    /\ UNCHANGED <<kernel, outside, shell, slabs, loop, pool, client_fd, moving,
                   killing, fate, history>>

\* No client is known under this descriptor: state is read uninitialized, and
\* client is what the thread's stack still holds, the copy it made last.  An
\* element whose sock_fd is -1 is read outside the slab, to the same effect.
LoadGarbage(w) ==
    /\ pc[w] = "load"
    /\ job[w] # listening_sock
    /\ Slot(job[w]) \notin Fds
    /\ \E state \in States \cup {"other"} : Goto(w, Case(state))
    /\ UNCHANGED <<kernel, outside, shell, slabs, loop, pool, client, client_fd,
                   moving, killing, fate, history>>

\* accept_new_client: the new client is in the slab before it is in epfd.
Accept(w) ==
    /\ pc[w] = "load"
    /\ job[w] = listening_sock
    /\ backlog # <<>>
    /\ backlog' = Tail(backlog)
    /\ \E fd \in Fds :
        /\ IsLowestFree(fd)
        /\ fdtab' = [fdtab EXCEPT ![fd] = Sock(Head(backlog))]
        /\ client_slab' = [client_slab EXCEPT ![fd] =
                             [sock_fd |-> fd, pty_fd |-> -1, state |-> "new"]]
        /\ client_ptr_slab' = SetPtrs({fd}, fd)
        /\ reg' = [reg EXCEPT ![fd] = "armed"]
        /\ client_fd' = [client_fd EXCEPT ![w] = fd]
    /\ Goto(w, "greet")
    /\ UNCHANGED <<running_timers, expired, peer, inbox, lines, shell, timer_slab,
                   loop, pool, client, moving, killing, fate, history>>

\* setup_timer, <rembash>, and the listening socket is armed again.
Greet(w) ==
    /\ pc[w] = "greet"
    /\ \E fd \in Fds, result \in WriteResults(client_fd[w]) :
        /\ IsLowestFree(fd)
        /\ result # "SIGPIPE"
        /\ fdtab' = [fdtab EXCEPT ![fd] = Timer(IF IsSock(client_fd[w])
                                               THEN fdtab[client_fd[w]].of
                                               ELSE None)]
        /\ timer_slab' = [timer_slab EXCEPT ![fd] = client_fd[w]]
        /\ running_timers' = WithNew(fd)
        /\ peer' = PeerAfter(client_fd[w], result)
    /\ reg' = Rearmed(reg, listening_sock)
    /\ client_fd' = [client_fd EXCEPT ![w] = 0]
    /\ Goto(w, "idle")
    /\ Pool!Finish(w)
    /\ UNCHANGED <<expired, backlog, inbox, lines, shell, client_slab,
                   client_ptr_slab, loop, client, moving, killing, fate, history>>

IsSecret(fd) == IsSock(fd) /\ inbox[fdtab[fd].of] = <<"secret">>

\* check_protocol_secret: the one read must return the secret, whole and alone.
\* What is sent in answer to anything else is <error>.
CheckSecret(w) ==
    LET fd     == client[w].sock_fd
        result == ReadResult(fd)
    IN  /\ pc[w] = "new"
        /\ Drain(fd)
        /\ CASE IsSecret(fd) ->
                  /\ Goto(w, "handle")
                  /\ authenticated' = [authenticated EXCEPT ![w] = fdtab[fd].of]
                  /\ UNCHANGED peer
             [] ~ IsSecret(fd) /\ result \in {"data", "eof"} ->
                  /\ Goto(w, "reject")
                  /\ \E r \in WriteResults(fd) :
                       r # "SIGPIPE" /\ peer' = PeerAfter(fd, r)
                  /\ UNCHANGED authenticated
             [] OTHER ->
                  /\ Goto(w, "reject")
                  /\ peer' = PeerAfter(fd, result)
                  /\ UNCHANGED authenticated
        /\ UNCHANGED <<kernel, backlog, lines, slabs, loop, pool, client,
                       client_fd, moving, killing, fate, owner, flows>>

Reject(w) ==
    /\ pc[w] = "reject"
    /\ CloseAll({client[w].sock_fd} \cap Fds)
    /\ Goto(w, "store")
    /\ UNCHANGED <<outside, slabs, loop, pool, client, client_fd, moving, killing,
                   fate, history>>

\* handle_client: a pseudo terminal, a shell behind it, and an event for it.
\* So far only the local copy knows the terminal.
HandleClient(w) ==
    /\ pc[w] = "handle"
    /\ \E fd \in Fds, s \in Shells :
        /\ IsLowestFree(fd)
        /\ shell[s] = "none" /\ \A r \in 1 .. s - 1 : shell[r] # "none"
        /\ fdtab' = [fdtab EXCEPT ![fd] = Pty(s)]
        /\ reg' = [reg EXCEPT ![fd] = "armed"]
        /\ shell' = [shell EXCEPT ![s] = "running"]
        /\ owner' = [owner EXCEPT ![s] = authenticated[w]]
        /\ client' = [client EXCEPT ![w].pty_fd = fd]
    /\ Goto(w, "ok")
    /\ UNCHANGED <<running_timers, expired, outside, slabs, loop, pool, client_fd,
                   moving, killing, fate, authenticated, flows>>

\* Mutant of AfterOk: the state is not advanced.
AfterOkStillNew(c) == c

AfterOk(c) == [c EXCEPT !.state = "established"]

\* <ok>, and the descriptor is armed again before the slab knows the new state.
SendOk(w) ==
    LET fd == client[w].sock_fd
    IN  /\ pc[w] = "ok"
        /\ \E r \in WriteResults(fd) : r # "SIGPIPE" /\ peer' = PeerAfter(fd, r)
        /\ client' = [client EXCEPT ![w] = AfterOk(@)]
        /\ reg' = Rearmed(reg, job[w])
        /\ Goto(w, "store")
        /\ UNCHANGED <<fdtab, running_timers, expired, backlog, inbox, lines, shell,
                       slabs, loop, pool, client_fd, moving, killing, fate,
                       history>>

\* Mutant of OtherEnd: the two branches exchanged.
OtherEndSwapped(c, fd) == IF fd = c.pty_fd THEN c.pty_fd ELSE c.sock_fd

OtherEnd(c, fd) == IF fd = c.pty_fd THEN c.sock_fd ELSE c.pty_fd

\* transfer_data up to its write.  It goes by the pointer, not by the copy.  A
\* read that finds nothing leads to a write of -1 bytes, which fails.
ReadData(w) ==
    LET fd   == job[w]
        slot == client_ptr_slab[fd]
        result == ReadResult(fd)
        Done(state) ==
            /\ client_slab' = [client_slab EXCEPT ![slot].state = state]
            /\ reg' = Rearmed(reg, fd)
            /\ Goto(w, "store")
            /\ UNCHANGED moving
    IN  /\ pc[w] = "established"
        /\ slot # NULL
        /\ CASE result = "data" ->
                  /\ moving' = [moving EXCEPT ![w] =
                       [what  |-> fdtab[fd],
                        to_fd |-> OtherEnd(client_slab[slot], fd),
                        slot  |-> slot]]
                  /\ Goto(w, "write")
                  /\ UNCHANGED <<client_slab, reg>>
             [] result = "eof"   -> Done("terminated")
             [] result = "again" -> Done("unwritten")
             [] OTHER            -> Done(client_slab[slot].state)
        /\ Drain(fd)
        /\ peer' = PeerAfter(fd, result)
        /\ UNCHANGED <<fdtab, running_timers, expired, backlog, lines,
                       client_ptr_slab, timer_slab, loop, pool, client, client_fd,
                       killing, fate, history>>

\* ... and from its write on.  A failed write is tried once more, with the
\* contents of a buffer that was never filled.
WriteData(w) ==
    LET to_fd == moving[w].to_fd
    IN  /\ pc[w] = "write"
        /\ \E result \in WriteResults(to_fd) :
             /\ result # "SIGPIPE"
             /\ result = "error" => ~ IsSock(to_fd)
             /\ client_slab' = [client_slab EXCEPT ![moving[w].slot].state =
                    IF result = "written" THEN "established" ELSE "unwritten"]
             /\ flows' = IF result = "written"
                         THEN flows \cup {<<moving[w].what, fdtab[to_fd]>>}
                         ELSE flows
             /\ peer' = PeerAfter(to_fd, result)
        /\ reg' = Rearmed(reg, job[w])
        /\ moving' = [moving EXCEPT ![w] = Idle]
        /\ Goto(w, "store")
        /\ UNCHANGED <<fdtab, running_timers, expired, backlog, inbox, lines, shell,
                       client_ptr_slab, timer_slab, loop, pool, client, client_fd,
                       killing, fate, owner, authenticated>>

\* The buffer is empty, so this writes nothing and succeeds where a write can.
SendUnwritten(w) ==
    LET fd == client[w].sock_fd
    IN  /\ pc[w] = "unwritten"
        /\ \E result \in WriteResults(fd) \ {"SIGPIPE", "full"} :
             /\ client' = IF result = "written"
                          THEN [client EXCEPT ![w].state = "established"]
                          ELSE client
             /\ peer' = IF result = "error" THEN PeerAfter(fd, result) ELSE peer
        /\ reg' = Rearmed(reg, job[w])
        /\ Goto(w, "store")
        /\ UNCHANGED <<fdtab, running_timers, expired, backlog, inbox, lines, shell,
                       slabs, loop, pool, client_fd, moving, killing, fate,
                       history>>

\* kill_client
Terminate(w) ==
    /\ pc[w] = "terminated"
    /\ killing[w] = NULL
    /\ CloseClient(w, client[w].sock_fd)
    /\ Goto(w, IF killing'[w] = NULL THEN "store" ELSE "terminated")
    /\ UNCHANGED <<outside, slabs, loop, pool, client, client_fd, moving, fate,
                   history>>

ClearTerminated(w) ==
    /\ killing[w] # NULL
    /\ ClearClient(w)
    /\ Goto(w, "store")
    /\ UNCHANGED <<kernel, outside, shell, timer_slab, loop, pool, client,
                   client_fd, moving, fate, history>>

\* The copy is written back, over whatever the slab says by now.
Store(w) ==
    LET sock == client[w].sock_fd
    IN  /\ pc[w] = "store"
        /\ IF sock \in Fds
             THEN /\ client_slab' = [client_slab EXCEPT ![sock] = client[w]]
                  /\ client_ptr_slab' = SetPtrs(Ends(client[w]), sock)
             ELSE UNCHANGED <<client_slab, client_ptr_slab>>
        /\ Goto(w, "idle")
        /\ Pool!Finish(w)
        /\ UNCHANGED <<kernel, outside, shell, timer_slab, loop, client, client_fd,
                       moving, killing, fate, history>>

\* The descriptors a worker is about to write to.
Writing(w) ==
    CASE pc[w] = "greet" -> {client_fd[w]}
      [] pc[w] = "new"   -> {fd \in {client[w].sock_fd} :
                                ReadResult(fd) \in {"data", "eof"} /\ ~ IsSecret(fd)}
      [] pc[w] \in {"ok", "unwritten"} -> {client[w].sock_fd}
      [] pc[w] = "write" -> {moving[w].to_fd}
      [] OTHER           -> {}

\* Writing to a connection whose error was reported before.  transfer_data
\* writes twice, so one failed write is enough.
DieOfSigpipe(w) ==
    /\ \E fd \in Writing(w) :
        \/ WriteResults(fd) = {"SIGPIPE"}
        \/ pc[w] = "write" /\ IsSock(fd) /\ WriteResults(fd) = {"error"}
    /\ Die("SIGPIPE")

\* transfer_data follows the pointer without looking at it.
DieOfSigsegv(w) ==
    /\ pc[w] = "established"
    /\ client_ptr_slab[job[w]] = NULL
    /\ Die("SIGSEGV")

WorkerSteps(w) ==
    \/ TakeTask(w) \/ Load(w) \/ LoadGarbage(w) \/ Accept(w) \/ Greet(w)
    \/ CheckSecret(w) \/ Reject(w) \/ HandleClient(w) \/ SendOk(w)
    \/ ReadData(w) \/ WriteData(w) \/ SendUnwritten(w)
    \/ Terminate(w) \/ ClearTerminated(w) \/ Store(w)
    \/ DieOfSigpipe(w) \/ DieOfSigsegv(w)

------------------------------------------------------------------------------

\* Nothing that has arrived is left to do, but for timers.
Quiet ==
    /\ \A w \in Workers : pc[w] = "idle"
    /\ LoopFree /\ tasks = <<>> /\ evlist = {} /\ Ready \subseteq {timer_epfd}

\* Three seconds are long enough for the server to have handled everything that
\* came before, or not.
TimerExpires ==
    /\ \/ "late_timeout" \in Happens
       \/ "timeout" \in Happens /\ Quiet
    /\ Expire
    /\ UNCHANGED memory

Next ==
    /\ fate = "up"
    /\ \/ LoopSteps
       \/ \E w \in Workers : WorkerSteps(w)
       \/ Environment /\ UNCHANGED memory
       \/ TimerExpires

Spec == Init /\ [][Next]_vars

\* Every thread that can run is scheduled, and three seconds pass.  Clients and
\* shells owe nothing.
Fairness ==
    /\ WF_vars(fate = "up" /\ LoopSteps)
    /\ \A w \in Workers : WF_vars(fate = "up" /\ WorkerSteps(w))
    /\ WF_vars(fate = "up" /\ TimerExpires)

FairSpec == Spec /\ Fairness

------------------------------------------------------------------------------
(* Properties *)

WorkerPC == States \cup {"idle", "load", "greet", "reject", "handle", "ok",
                         "write", "store"}

\* A client_struct names no descriptor (-1), that of zeroed memory, or one opened
\* for a client: never the listening socket or timer_epfd.
Named == {-1, 0} \cup Fds

Locals == [sock_fd : Named, pty_fd : Named, state : States]

\* The type invariant: slab pointers point into the slab, a switch on a state
\* nobody set goes nowhere, no call leaves its table, a worker has a task exactly
\* while it runs process_task, and only kill_client leaves a client half closed.
TypeOK ==
    /\ KernelTypeOK
    /\ client_slab \in [Fds -> Locals]
    /\ client_ptr_slab \in [AllFds -> Fds \cup {NULL}]
    /\ timer_slab \in [Fds -> Fds \cup {0}]
    /\ evlist \subseteq [fd : AllFds, hup : BOOLEAN]
    /\ time_evlist \subseteq Fds
    /\ in_timer_loop \in BOOLEAN
    /\ tasks \in Seq(AllFds)
    /\ job \in [Workers -> AllFds \cup {0}]
    /\ pc \in [Workers -> WorkerPC]
    /\ client \in [Workers -> Locals]
    /\ client_fd \in [Workers -> Fds \cup {0}]
    /\ moving \in [Workers -> [what : Objects, to_fd : Named, slot : Fds \cup {NULL}]]
    /\ killing \in [Workers \cup {Main} -> Fds \cup {NULL}]
    /\ fate \in {"up", "SIGPIPE", "SIGSEGV"}
    /\ owner \in [Shells -> Clients \cup {None}]
    /\ authenticated \in [Workers -> Clients \cup {None}]
    /\ flows \subseteq Objects \X Objects
    /\ \A w \in Workers :
        /\ pc[w] = "idle" <=> job[w] = 0
        /\ killing[w] # NULL => pc[w] = "terminated"

\* Where the event of a one-shot registration may be: still to happen,
\* reported, queued, or with a worker that has not armed it again.
Armed(fd)    == {r \in {reg[fd]} : r = "armed"}
Reported(fd) == {e \in evlist : e.fd = fd}
Queued(fd)   == {i \in 1 .. Len(tasks) : tasks[i] = fd}
Held(fd)     == {w \in Workers : job[w] = fd /\ pc[w] # "store"}

Events(fd) == Cardinality(Armed(fd)) + Cardinality(Reported(fd))
              + Cardinality(Queued(fd)) + Cardinality(Held(fd))

\* The listening socket has exactly one event, whatever clients, shells and
\* timers do: two workers never accept at once (the second would find nothing
\* and index client_slab by -1), and the socket is never forgotten.
OneAcceptor == Events(listening_sock) = 1

\* So does timer_epfd: the event loop never sleeps on with expired timers that
\* can no longer raise an event.
TimersHeard == Events(timer_epfd) + Cardinality({l \in {in_timer_loop} : l}) = 1

\* While no descriptor is closed, no descriptor has two events: two workers
\* never read, or switch on the state of, the same one before it is armed again.
OneEventEach == \A fd \in Fds : Events(fd) <= 1

\* Sessions and slabs agree once every task is finished: the socket of a client
\* past the protocol leads to its element and to the terminal of the shell
\* started for this very client, and the terminal leads back.
SessionsLinked ==
    (\A w \in Workers : pc[w] = "idle") =>
    \A fd \in Fds :
        LET c == client_slab[fd]
        IN  IsSock(fd) /\ client_ptr_slab[fd] # NULL /\ c.state # "new" =>
            /\ client_ptr_slab[fd] = fd
            /\ c.sock_fd = fd
            /\ IsPty(c.pty_fd)
            /\ client_ptr_slab[c.pty_fd] = fd
            /\ owner[fdtab[c.pty_fd].of] = fdtab[fd].of

\* What is read from one side of a session is written to its other side only:
\* never to another client's socket or shell, however descriptors are reused
\* and slab entries outlive them.
Isolation ==
    \A flow \in flows :
        \E s \in Shells : flow \in {<<Pty(s), Sock(owner[s])>>,
                                   <<Sock(owner[s]), Pty(s)>>}

\* "if the secret is incorrect, close the connection": a connection closed that
\* way is not one whose secret was accepted before.
RejectsOnlyWrongSecret ==
    [][\A w \in Workers : Reject(w) =>
        \A s \in Shells : client[w].sock_fd \in Fds =>
            fdtab[client[w].sock_fd] # Sock(owner[s])]_vars

\* The server survives its clients.
StaysUp == fate = "up"

\* "The timer will count 3 seconds before disconnecting an unresponsive client":
\* the connection an expired timer closes is the one it was set for.
TimerHitsItsClient ==
    [][\A t \in time_evlist, fd \in Fds :
        HandleTimer(t) /\ IsSock(fd) /\ fdtab'[fd] = Closed =>
            fdtab[fd] = Sock(fdtab[t].of)]_vars

\* A connection waiting in the backlog is accepted.
ConnectionsAccepted ==
    \A c \in Clients : (\E i \in 1 .. Len(backlog) : backlog[i] = c) ~> Accepted(c)

\* What a connected client sends is read, however events, tasks and one-shot
\* registrations interleave.
InputRead ==
    \A c \in Clients : inbox[c] # <<>> ~> inbox[c] = <<>> \/ ~ Accepted(c)

\* A client that connects and stays silent is disconnected.
SilentClientDropped ==
    \A c \in Clients :
        Accepted(c) /\ lines[c] = 0 ~> ~ Accepted(c) \/ lines[c] > 0

==============================================================================
