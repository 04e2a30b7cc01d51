------------------------- MODULE ServerSessions_proofs -------------------------
(***************************************************************************)
(* Proofs about the sessions of Server, for any number of clients: one     *)
(* worker, and clients and shells that stay.  With two workers, or when    *)
(* somebody leaves or is timed out, slab entries and events outlive what   *)
(* they are about, and TLC finds OneEventEach and SessionsLinked violated. *)
(***************************************************************************)
EXTENDS Server_proofs

OneWorker == \A v, w \in Workers : v = w

\* Nobody leaves and no timer expires; secrets may be wrong, sockets full.
Calm == Happens \cap {"close", "reset", "exit", "timeout", "late_timeout"} = {}

\* So nothing hangs up, and nothing is terminated.
Undisturbed ==
    /\ fate = "up"
    /\ \A c \in Clients : peer[c] \in {"idle", "open"}
    /\ \A s \in Shells : shell[s] # "exited"
    /\ \A e \in evlist : ~ e.hup
    /\ expired = {} /\ time_evlist = {}
    /\ \A t \in Workers \cup {Main} : killing[t] = NULL
    /\ \A fd \in Fds : client_slab[fd].state # "terminated"
    /\ \A w \in Workers : client[w].state # "terminated" /\ pc[w] # "terminated"

\* The terminal p belongs to a shell started for the client of the socket fd.
ShellOf(fd, p) == IsPty(p) /\ owner[fdtab[p].of] = fdtab[fd].of

\* The slab element of a socket whose client is in the protocol, and past it.
Fresh(fd)  == client_slab[fd].state = "new" /\ client_slab[fd].pty_fd = -1
Linked(fd) == /\ client_slab[fd].state # "new"
              /\ ShellOf(fd, client_slab[fd].pty_fd)
              /\ client_ptr_slab[client_slab[fd].pty_fd] = fd

SocketsKnown ==
    \A fd \in Fds : IsSock(fd) =>
        /\ client_ptr_slab[fd] = fd
        /\ client_slab[fd].sock_fd = fd
        /\ Fresh(fd) \/ Linked(fd)

\* A terminal is in the element of its socket, or in a copy about to be stored.
TerminalsKnown ==
    \A p \in Fds : IsPty(p) =>
        /\ shell[fdtab[p].of] # "none"
        /\ \/ /\ IsSock(client_ptr_slab[p])
              /\ client_slab[client_ptr_slab[p]].pty_fd = p
           \/ \E w \in Workers : pc[w] \in {"ok", "store"} /\ client[w].pty_fd = p

\* What a worker's copy says while process_task runs, by where it is.
CopyOf(w, fd) == IsSock(fd) /\ client[w] = client_slab[fd]

Copies ==
    \A w \in Workers :
        LET sock == client[w].sock_fd
            pty  == client[w].pty_fd
        IN  /\ pc[w] \in {"new", "reject", "handle"} =>
                 job[w] = sock /\ CopyOf(w, sock) /\ Fresh(sock)
            /\ pc[w] = "handle" => authenticated[w] = fdtab[sock].of
            /\ pc[w] = "ok" =>
                 /\ job[w] = sock /\ IsSock(sock) /\ Fresh(sock)
                 /\ ShellOf(sock, pty)
            /\ pc[w] \in {"established", "unwritten", "write"} =>
                 job[w] \in {sock, pty} /\ CopyOf(w, sock) /\ Linked(sock)
            /\ pc[w] = "write" =>
                 moving[w] = [what  |-> fdtab[job[w]],
                              to_fd |-> OtherEnd(client[w], job[w]),
                              slot  |-> sock]
            /\ pc[w] = "store" =>
                 \/ /\ sock \in Fds /\ fdtab[sock] = Closed
                    /\ client[w].state = "new" /\ pty = -1
                 \/ /\ IsSock(sock) /\ client[w].state # "new"
                    /\ ShellOf(sock, pty)
                    /\ Fresh(sock) \/ client_slab[sock].pty_fd = pty

\* A client has one connection, and no shell before it has shown its secret.
Strangers ==
    /\ \A f, g \in Fds : IsSock(f) /\ fdtab[f] = fdtab[g] => f = g
    /\ \A i, j \in 1 .. Len(backlog) : backlog[i] = backlog[j] => i = j
    /\ \A i \in 1 .. Len(backlog) : peer[backlog[i]] # "idle"
    /\ \A c \in Clients : (peer[c] = "idle" \/ \E i \in 1 .. Len(backlog) : backlog[i] = c) =>
        /\ \A fd \in Fds : fdtab[fd] # Sock(c)
        /\ \A s \in Shells : owner[s] # c
    /\ \A fd \in Fds : IsSock(fd) /\ Fresh(fd) =>
        \/ \A s \in Shells : owner[s] # fdtab[fd].of
        \/ \E w \in Workers : pc[w] \in {"ok", "store"} /\ client[w].sock_fd = fd

\* Each socket and each terminal has its one event, and no other descriptor has any.
SessionEvent(fd) == IF IsSock(fd) \/ IsPty(fd) THEN SoleEvent(fd) /\ reg[fd] # "none"
                                               ELSE NoEvent(fd)

EventsOfSessions == \A fd \in Fds : SessionEvent(fd)

\* What has been transferred was between a client and its shell.
FlowsInside ==
    \A flow \in flows : \E s \in Shells :
        /\ shell[s] # "none"
        /\ flow \in {<<Pty(s), Sock(owner[s])>>, <<Sock(owner[s]), Pty(s)>>}

CalmInv == /\ Undisturbed /\ SocketsKnown /\ TerminalsKnown /\ Copies
           /\ Strangers /\ EventsOfSessions /\ FlowsInside

------------------------------------------------------------------------------

\* While nobody leaves, reads find data or nothing, writes succeed or find no
\* room, and no client's end of a connection changes.
LEMMA CallsSucceed ==
  ASSUME TypeOK, Undisturbed
  PROVE  \A fd :
           /\ ~ HungUp(fd)
           /\ \A result : PeerAfter(fd, result) = peer
           /\ "SIGPIPE" \notin WriteResults(fd)
           /\ IsSock(fd) \/ IsPty(fd) => /\ ReadResult(fd) \in {"data", "again"}
                                         /\ WriteResults(fd) \subseteq {"written", "full"}
                                         /\ "written" \in WriteResults(fd)
<1> TAKE fd
<1>1. /\ IsSock(fd) => fdtab[fd].of \in Clients /\ peer[fdtab[fd].of] \in {"idle", "open"}
      /\ IsPty(fd) => fdtab[fd].of \in Shells /\ shell[fdtab[fd].of] # "exited"
      /\ ~ (IsSock(fd) /\ IsPty(fd))
  BY ObjectKinds DEF TypeOK, Undisturbed
<1>2. ~ HungUp(fd)
  BY <1>1 DEF HungUp
<1>3. \A result : PeerAfter(fd, result) = peer
  BY <1>1 DEF PeerAfter
<1>4. /\ "SIGPIPE" \notin WriteResults(fd)
      /\ IsSock(fd) \/ IsPty(fd) => /\ WriteResults(fd) \subseteq {"written", "full"}
                                    /\ "written" \in WriteResults(fd)
  <2>1. CASE IsSock(fd)
    <3>1. WriteResults(fd) = {"written"} \cup (Happens \cap {"full"})
      BY <1>1, <2>1 DEF WriteResults
    <3> QED
      BY <3>1
  <2>2. CASE ~ IsSock(fd)
    <3>1. WriteResults(fd) = IF IsPty(fd) THEN {"written"} ELSE {"error"}
      BY <2>2 DEF WriteResults
    <3> QED
      BY <2>2, <3>1
  <2> QED
    BY <2>1, <2>2
<1>5. IsSock(fd) \/ IsPty(fd) => ReadResult(fd) \in {"data", "again"}
  BY <1>1, <1>2 DEF ReadResult
<1> QED
  BY <1>2, <1>3, <1>4, <1>5

\* An event that nothing moves stays where it is.
LEMMA EventStays ==
  ASSUME NEW fd \in Fds, SessionEvent(fd), reg'[fd] = reg[fd],
         fdtab'[fd].kind = fdtab[fd].kind,
         Reported(fd)' = Reported(fd), Queued(fd)' = Queued(fd), Held(fd)' = Held(fd)
  PROVE  SessionEvent(fd)'
<1>1. Armed(fd)' = Armed(fd)
  BY DEF Armed
<1>2. (SoleEvent(fd)' <=> SoleEvent(fd)) /\ (NoEvent(fd)' <=> NoEvent(fd))
  BY <1>1 DEF SoleEvent, NoEvent
<1> QED
  BY <1>2 DEF SessionEvent, IsSock, IsPty

\* Nothing in the pool or the event loop changes.
Unmoved == /\ UNCHANGED <<evlist, tasks, job>>
           /\ \A w \in Workers : pc'[w] = "store" <=> pc[w] = "store"

\* Then every event is where it was.
LEMMA PlacesUnmoved ==
  ASSUME Unmoved
  PROVE  \A fd \in Fds : /\ Reported(fd)' = Reported(fd)
                         /\ Queued(fd)' = Queued(fd)
                         /\ Held(fd)' = Held(fd)
  BY DEF Unmoved, Reported, Queued, Held

\* A new descriptor is armed.
LEMMA EventOfNew ==
  ASSUME NEW fd \in Fds, NoEvent(fd), Unmoved, reg'[fd] = "armed",
         fdtab'[fd].kind \in {"sock", "pty"}
  PROVE  SessionEvent(fd)'
<1>1. Armed(fd)' = {"armed"}
  BY DEF Armed
<1>2. Reported(fd)' = {} /\ Queued(fd)' = {} /\ Held(fd)' = {}
  BY PlacesUnmoved DEF NoEvent
<1>3. SoleEvent(fd)'
  BY <1>1, <1>2 DEF SoleEvent
<1> QED
  BY <1>3 DEF SessionEvent, IsSock, IsPty

\* The worker with the event has armed the descriptor again.
LEMMA EventRearmed ==
  ASSUME OneWorker, EventsOfSessions, NEW w \in Workers, NEW fd \in Fds,
         job[w] = fd, pc[w] # "store", pc'[w] = "store",
         IsSock(fd) \/ IsPty(fd), fdtab' = fdtab, reg' = Rearmed(reg, fd), TypeOK,
         UNCHANGED <<evlist, tasks, job>>
  PROVE  EventsOfSessions'
<1>1. /\ w \in Held(fd) /\ SoleEvent(fd) /\ reg[fd] # "none"
  BY DEF Held, EventsOfSessions, SessionEvent
<1>2. Reported(fd) = {} /\ Queued(fd) = {}
  BY <1>1 DEF SoleEvent
<1>3. reg' = [reg EXCEPT ![fd] = "armed"] /\ fd \in AllFds
  BY <1>1, DescriptorsDisjoint DEF Rearmed
<1>4. \A v \in Workers : v = w
  BY DEF OneWorker
<1>5. SessionEvent(fd)'
  <2>1. Armed(fd)' = {"armed"}
    BY <1>3 DEF Armed, TypeOK, KernelTypeOK
  <2>2. Reported(fd)' = {} /\ Queued(fd)' = {} /\ Held(fd)' = {}
    BY <1>2, <1>4 DEF Reported, Queued, Held
  <2>3. SoleEvent(fd)' /\ reg'[fd] # "none"
    BY <1>3, <2>1, <2>2 DEF SoleEvent, TypeOK, KernelTypeOK
  <2> QED
    BY <2>3 DEF SessionEvent, IsSock, IsPty
<1>6. ASSUME NEW f \in Fds, f # fd
      PROVE  SessionEvent(f)'
  <2>1. /\ reg'[f] = reg[f]
        /\ Reported(f)' = Reported(f) /\ Queued(f)' = Queued(f) /\ Held(f)' = Held(f)
    BY <1>3, <1>4, <1>6 DEF Reported, Queued, Held
  <2> QED
    BY <2>1, EventStays DEF EventsOfSessions
<1> QED
  BY <1>5, <1>6 DEF EventsOfSessions

\* Nothing of an event changes.
LEMMA EventsUnmoved ==
  ASSUME EventsOfSessions, Unmoved, fdtab' = fdtab, \A fd \in Fds : reg'[fd] = reg[fd]
  PROVE  EventsOfSessions'
  BY PlacesUnmoved, EventStays DEF EventsOfSessions

\* epoll_wait reports what is ready.
LEMMA EpollWaitMovesEvents ==
  ASSUME TypeOK, EventsOfSessions, EpollWait
  PROVE  EventsOfSessions'
<1>1. /\ evlist = {} /\ evlist' = {[fd |-> fd, hup |-> HungUp(fd)] : fd \in Ready}
      /\ reg' = [fd \in AllFds |-> IF fd \in Ready THEN "spent" ELSE reg[fd]]
      /\ UNCHANGED <<fdtab, tasks, job, pc>>
  BY DEF EpollWait, pool, locals
<1>2. ASSUME NEW fd \in Fds
      PROVE  SessionEvent(fd)'
  <2>1. /\ Queued(fd)' = Queued(fd) /\ Held(fd)' = Held(fd) /\ Reported(fd) = {}
        /\ fd \in AllFds
    BY <1>1, DescriptorsDisjoint DEF Queued, Held, Reported
  <2>2. CASE fd \in Ready
    <3>1. Armed(fd) = {"armed"} /\ reg[fd] = "armed" /\ reg'[fd] = "spent"
      BY <1>1, <2>1, <2>2 DEF Ready, Armed
    <3>2. (IsSock(fd) \/ IsPty(fd)) /\ Queued(fd) = {} /\ Held(fd) = {}
      BY <3>1 DEF EventsOfSessions, SessionEvent, SoleEvent, NoEvent
    <3>3. Armed(fd)' = {}
      BY <3>1 DEF Armed
    <3> DEFINE e == [fd |-> fd, hup |-> HungUp(fd)]
    <3>4. Reported(fd)' = {e}
      <4>1. e \in evlist' /\ e.fd = fd
        BY <1>1, <2>2
      <4>2. \A d \in evlist' : d.fd = fd => d = e
        BY <1>1
      <4> QED
        BY <4>1, <4>2 DEF Reported
    <3>5. SoleEvent(fd)'
      BY <2>1, <3>2, <3>3, <3>4 DEF SoleEvent
    <3> QED
      BY <1>1, <3>1, <3>2, <3>5 DEF SessionEvent, IsSock, IsPty
  <2>3. CASE fd \notin Ready
    <3>1. Reported(fd)' = {}
      BY <1>1, <2>3 DEF Reported
    <3>2. reg'[fd] = reg[fd]
      BY <1>1, <2>1, <2>3
    <3> QED
      BY <1>1, <2>1, <3>1, <3>2, EventStays DEF EventsOfSessions
  <2> QED
    BY <2>2, <2>3
<1> QED
  BY <1>2 DEF EventsOfSessions

\* tpool_add_task queues one.
LEMMA AddTaskMovesEvents ==
  ASSUME TypeOK, EventsOfSessions, NEW e \in evlist, AddTask(e)
  PROVE  EventsOfSessions'
<1>1. /\ e.fd \in AllFds /\ tasks' = Append(tasks, e.fd) /\ evlist' = evlist \ {e}
      /\ UNCHANGED <<fdtab, reg, job, pc>>
  BY DEF AddTask, Pool!Add, TypeOK, kernel, locals
<1>2. ASSUME NEW fd \in Fds
      PROVE  SessionEvent(fd)'
  <2>1. Held(fd)' = Held(fd) /\ Armed(fd)' = Armed(fd)
    BY <1>1 DEF Held, Armed
  <2>2. CASE fd = e.fd
    <3>1. e \in Reported(fd)
      BY <2>2 DEF Reported
    <3>2. /\ (IsSock(fd) \/ IsPty(fd)) /\ reg[fd] # "none"
          /\ Reported(fd) = {e} /\ Queued(fd) = {} /\ Armed(fd) = {} /\ Held(fd) = {}
      BY <3>1 DEF EventsOfSessions, SessionEvent, SoleEvent, NoEvent
    <3>3. Reported(fd)' = {} /\ Queued(fd)' = {Len(tasks) + 1}
      BY <1>1, <2>2, <3>2, AppendToTasks DEF Reported
    <3>4. SoleEvent(fd)'
      BY <2>1, <3>2, <3>3 DEF SoleEvent
    <3> QED
      BY <1>1, <3>2, <3>4 DEF SessionEvent, IsSock, IsPty
  <2>3. CASE fd # e.fd
    <3>1. Reported(fd)' = Reported(fd) /\ Queued(fd)' = Queued(fd)
      BY <1>1, <2>3, AppendToTasks DEF Reported
    <3> QED
      BY <1>1, <2>1, <3>1, EventStays DEF EventsOfSessions
  <2> QED
    BY <2>2, <2>3
<1> QED
  BY <1>2 DEF EventsOfSessions

\* A worker takes one.
LEMMA TakeTaskMovesEvents ==
  ASSUME TypeOK, EventsOfSessions, NEW w \in Workers, TakeTask(w)
  PROVE  EventsOfSessions'
<1>1. /\ pc[w] = "idle" /\ tasks # <<>> /\ job[w] = 0
      /\ tasks' = Tail(tasks)
      /\ job' = [job EXCEPT ![w] = Head(tasks)]
      /\ pc' = [pc EXCEPT ![w] = "load"]
      /\ UNCHANGED <<fdtab, reg, evlist>>
  BY DEF TakeTask, Pool!Take, Goto, kernel, loop
<1>2. ASSUME NEW fd \in Fds
      PROVE  SessionEvent(fd)'
  <2>1. Reported(fd)' = Reported(fd) /\ Armed(fd)' = Armed(fd)
    BY <1>1 DEF Reported, Armed
  <2>2. Held(fd)' = IF Head(tasks) = fd THEN Held(fd) \cup {w} ELSE Held(fd)
    BY <1>1, Kinds DEF Held, TypeOK
  <2>3. CASE Head(tasks) = fd
    <3>1. 1 \in Queued(fd)
      BY <1>1, <2>3, TailOfTasks
    <3>2. /\ (IsSock(fd) \/ IsPty(fd)) /\ reg[fd] # "none"
          /\ Queued(fd) = {1} /\ Reported(fd) = {} /\ Armed(fd) = {} /\ Held(fd) = {}
      BY <3>1 DEF EventsOfSessions, SessionEvent, SoleEvent, NoEvent
    <3>3. Queued(fd)' = {}
      BY <1>1, <3>2, TailOfTasks
    <3>4. SoleEvent(fd)'
      BY <2>1, <2>2, <2>3, <3>2, <3>3 DEF SoleEvent
    <3> QED
      BY <1>1, <3>2, <3>4 DEF SessionEvent, IsSock, IsPty
  <2>4. CASE Head(tasks) # fd
    <3>1. ASSUME NEW i \in Queued(fd), Queued(fd) = {i}
          PROVE  Queued(fd)' = {i - 1}
      <4>1. i \in 1 .. Len(tasks) /\ i # 1
        BY <1>1, <2>4, TailOfTasks
      <4>2. Len(tasks) \in Nat
        BY LenProperties DEF TypeOK
      <4>3. Queued(fd)' = {k \in 1 .. Len(tasks) - 1 : k + 1 \in Queued(fd)}
        BY <1>1, TailOfTasks
      <4> QED
        BY <3>1, <4>1, <4>2, <4>3
    <3>2. Queued(fd) = {} => Queued(fd)' = {}
      BY <1>1, TailOfTasks
    <3>3. (SoleEvent(fd) => SoleEvent(fd)') /\ (NoEvent(fd) => NoEvent(fd)')
      BY <2>1, <2>2, <2>4, <3>1, <3>2 DEF SoleEvent, NoEvent
    <3> QED
      BY <1>1, <3>3 DEF EventsOfSessions, SessionEvent, IsSock, IsPty
  <2> QED
    BY <2>3, <2>4
<1> QED
  BY <1>2 DEF EventsOfSessions

------------------------------------------------------------------------------
(* The steps that leave every session as it is *)

\* Nothing that the slabs, the copies and the connections are about changes.
Same == /\ UNCHANGED <<fdtab, client_slab, client_ptr_slab, owner, flows>>
        /\ UNCHANGED <<backlog, peer, client, authenticated, moving, job, pc>>
        /\ \A s \in Shells : shell'[s] = "none" <=> shell[s] = "none"

\* Then no copy says anything else, ...
LEMMA CopiesStay ==
  ASSUME Copies, UNCHANGED <<fdtab, client_slab, client_ptr_slab, owner>>,
         UNCHANGED <<client, authenticated, moving, job, pc>>
  PROVE  Copies'
<1>1. \A f : /\ IsSock(f)' <=> IsSock(f)
             /\ IsPty(f)' <=> IsPty(f)
             /\ Fresh(f)' <=> Fresh(f)
  BY DEF IsSock, IsPty, Fresh
<1>2. \A f, p : ShellOf(f, p)' <=> ShellOf(f, p)
  BY <1>1 DEF ShellOf
<1>3. \A f : Linked(f)' <=> Linked(f)
  BY <1>2 DEF Linked
<1>4. \A f : \A w \in Workers : CopyOf(w, f)' <=> CopyOf(w, f)
  BY <1>1 DEF CopyOf
<1> QED
  BY <1>1, <1>2, <1>3, <1>4 DEF Copies

\* ... nor of anything else.
LEMMA SessionsStay ==
  ASSUME TypeOK, SocketsKnown, TerminalsKnown, Copies, Strangers, FlowsInside, Same
  PROVE  /\ SocketsKnown' /\ TerminalsKnown' /\ Copies' /\ Strangers' /\ FlowsInside'
<1> USE DEF Same
<1>1. SocketsKnown'
  BY DEF SocketsKnown, IsSock, IsPty, Fresh, Linked, ShellOf
<1>2. TerminalsKnown'
  BY ObjectKinds DEF TerminalsKnown, IsSock, IsPty, TypeOK
<1>3. Copies'
  BY CopiesStay
<1>4. Strangers'
  BY DEF Strangers, IsSock, Fresh
<1>5. FlowsInside'
  BY DEF FlowsInside
<1> QED
  BY <1>1, <1>2, <1>3, <1>4, <1>5

\* The event loop.
LEMMA LoopKeepsCalm ==
  ASSUME TypeOK, CalmInv, LoopSteps
  PROVE  CalmInv'
<1> USE DEF CalmInv, kernel, outside, slabs, pool, locals, loop, history
<1>1. CASE EpollWait
  <2>1. Same
    BY <1>1 DEF EpollWait, Same
  <2>2. Undisturbed'
    BY <1>1, CallsSucceed DEF EpollWait, Undisturbed
  <2> QED
    BY <1>1, <2>1, <2>2, SessionsStay, EpollWaitMovesEvents
<1>2. CASE TimersDone
  <2>1. Same
    BY <1>2 DEF TimersDone, Same
  <2>2. Undisturbed'
    BY <1>2 DEF TimersDone, Undisturbed
  <2>3. Unmoved /\ \A fd \in Fds : reg'[fd] = reg[fd]
    BY <1>2, Kinds DEF TimersDone, Unmoved, Rearmed, TypeOK, KernelTypeOK, AllFds
  <2> QED
    BY <2>1, <2>2, <2>3, SessionsStay, EventsUnmoved DEF Same
<1>3. ASSUME NEW e \in evlist, AddTask(e)
      PROVE  CalmInv'
  <2>1. Same
    BY <1>3 DEF AddTask, Pool!Add, Same
  <2>2. Undisturbed'
    BY <1>3 DEF AddTask, Undisturbed
  <2> QED
    BY <1>3, <2>1, <2>2, SessionsStay, AddTaskMovesEvents
<1>4. /\ ~ ClearHungUp
      /\ \A e \in evlist : ~ HangUp(e) /\ ~ TimerEvent(e)
      /\ time_evlist = {}
  BY DEF ClearHungUp, HangUp, TimerEvent, Undisturbed
<1> QED
  BY <1>1, <1>2, <1>3, <1>4 DEF LoopSteps

\* Clients and shells.
LEMMA OutsideKeepsCalm ==
  ASSUME Calm, TypeOK, CalmInv, (Environment /\ UNCHANGED memory) \/ TimerExpires
  PROVE  CalmInv'
<1> USE DEF CalmInv, kernel, outside, slabs, pool, locals, loop, history, memory
<1>1. Environment /\ UNCHANGED memory
  BY DEF TimerExpires, Calm
<1>2. /\ UNCHANGED <<fdtab, reg, client_slab, client_ptr_slab, owner, flows, evlist, tasks>>
      /\ UNCHANGED <<expired, time_evlist, killing, fate>>
      /\ UNCHANGED <<client, authenticated, moving, job, pc>>
  BY <1>1 DEF Environment, Connect, Send, Leave, PrintOutput, ExitShell
<1>e. EventsOfSessions'
  BY <1>2, EventsUnmoved DEF Unmoved
<1>3. ASSUME NEW c \in Clients, Connect(c)
      PROVE  CalmInv'
  <2>1. /\ peer[c] = "idle" /\ peer' = [peer EXCEPT ![c] = "open"]
        /\ backlog' = Append(backlog, c) /\ UNCHANGED shell
    BY <1>3 DEF Connect
  <2>2. /\ Len(backlog') = Len(backlog) + 1 /\ Len(backlog) \in Nat
        /\ backlog'[Len(backlog) + 1] = c
        /\ \A i \in 1 .. Len(backlog) : backlog'[i] = backlog[i] /\ backlog[i] \in Clients
    BY <2>1, AppendProperties, ElementOfSeq, LenProperties DEF TypeOK, KernelTypeOK
  <2>u. Undisturbed'
    BY <1>2, <2>1 DEF Undisturbed, TypeOK, KernelTypeOK
  <2>s. SocketsKnown'
    BY <1>2 DEF SocketsKnown, IsSock, IsPty, Fresh, Linked, ShellOf
  <2>t. TerminalsKnown'
    BY <1>2, <2>1 DEF TerminalsKnown, IsSock, IsPty
  <2>c. Copies'
    BY <1>2, CopiesStay
  <2>x. Strangers'
    <3>1. \A i \in 1 .. Len(backlog) : backlog[i] # c
      BY <2>1 DEF Strangers
    <3>2. \A i, j \in 1 .. Len(backlog') : backlog'[i] = backlog'[j] => i = j
      BY <2>2, <3>1 DEF Strangers
    <3>3. \A i \in 1 .. Len(backlog') : backlog'[i] \in Clients /\ peer'[backlog'[i]] # "idle"
      BY <2>1, <2>2, <3>1 DEF Strangers, TypeOK, KernelTypeOK
    <3>4. ASSUME NEW d \in Clients,
                 peer'[d] = "idle" \/ \E i \in 1 .. Len(backlog') : backlog'[i] = d
          PROVE  peer[d] = "idle" \/ \E i \in 1 .. Len(backlog) : backlog[i] = d
      BY <2>1, <2>2, <3>4 DEF TypeOK, KernelTypeOK
    <3> QED
      BY <1>2, <3>2, <3>3, <3>4 DEF Strangers, IsSock, Fresh
  <2>f. FlowsInside'
    BY <1>2, <2>1 DEF FlowsInside
  <2> QED
    BY <1>e, <2>u, <2>s, <2>t, <2>c, <2>x, <2>f
<1>4. ASSUME NEW c \in Clients, NEW m, Send(c, m)
      PROVE  CalmInv'
  <2>1. UNCHANGED <<backlog, peer, shell>>
    BY <1>4 DEF Send
  <2>2. Same /\ Undisturbed'
    BY <1>2, <2>1 DEF Same, Undisturbed
  <2> QED
    BY <1>e, <2>2, SessionsStay
<1>5. ASSUME NEW s \in Shells, PrintOutput(s)
      PROVE  CalmInv'
  <2>1. UNCHANGED <<backlog, peer>> /\ shell[s] = "running"
        /\ shell' = [shell EXCEPT ![s] = "printed"]
    BY <1>5 DEF PrintOutput
  <2>2. \A r \in Shells : /\ shell'[r] = "none" <=> shell[r] = "none"
                          /\ shell'[r] # "exited"
    BY <2>1 DEF Undisturbed, TypeOK, KernelTypeOK
  <2>3. Same /\ Undisturbed'
    BY <1>2, <2>1, <2>2 DEF Same, Undisturbed
  <2> QED
    BY <1>e, <2>3, SessionsStay
<1>6. /\ \A c \in Clients : ~ Leave(c, "close", "closed") /\ ~ Leave(c, "reset", "reset")
      /\ \A s \in Shells : ~ ExitShell(s)
  BY DEF Leave, ExitShell, Calm
<1> QED
  BY <1>1, <1>3, <1>4, <1>5, <1>6 DEF Environment

------------------------------------------------------------------------------
(* The steps of the worker *)

\* The descriptor of a task leads to a socket whose element is the one to copy:
\* its own, or that of the connection its shell was started for.
LEMMA TaskLeadsToSession ==
  ASSUME TypeOK, EventInv, OneWorker, CalmInv, NEW w \in Workers,
         pc[w] = "load", job[w] # listening_sock
  PROVE  LET sock == client_ptr_slab[job[w]] IN
         /\ job[w] \in Fds /\ IsSock(sock) /\ sock \in Fds /\ client_slab[sock].sock_fd = sock
         /\ Slot(job[w]) = sock
         /\ \/ job[w] = sock /\ Fresh(sock)
            \/ job[w] \in {sock, client_slab[sock].pty_fd} /\ Linked(sock)
<1> USE DEF CalmInv
<1> DEFINE fd == job[w]
<1>1. fd \in Fds
  BY DEF TypeOK, AllFds, EventInv, StandingApart
<1>2. IsSock(fd) \/ IsPty(fd)
  <2>1. w \in Held(fd)
    BY DEF Held
  <2> QED
    BY <1>1, <2>1 DEF EventsOfSessions, SessionEvent, NoEvent
<1>3. CASE IsSock(fd)
  BY <1>1, <1>3, Kinds DEF SocketsKnown, Slot, NULL
<1>4. CASE IsPty(fd)
  <2>1. \A v \in Workers : pc[v] = "load"
    BY DEF OneWorker
  <2>2. /\ IsSock(client_ptr_slab[fd]) /\ client_ptr_slab[fd] \in Fds
        /\ client_slab[client_ptr_slab[fd]].pty_fd = fd
    BY <1>1, <1>4, <2>1, Kinds DEF TerminalsKnown
  <2>3. fd # -1
    BY <1>1, DescriptorsDisjoint
  <2> QED
    BY <1>1, <2>2, <2>3, Kinds DEF SocketsKnown, Fresh, Slot, NULL
<1> QED
  BY <1>2, <1>3, <1>4

\* A task is taken, and its client_struct copied.
LEMMA TakeTaskKeepsCalm ==
  ASSUME TypeOK, EventInv, OneWorker, CalmInv, NEW w \in Workers, TakeTask(w)
  PROVE  CalmInv'
<1> USE DEF CalmInv, kernel, outside, slabs, loop, history
<1>1. /\ pc[w] = "idle" /\ pc' = [pc EXCEPT ![w] = "load"] /\ pc'[w] = "load"
      /\ UNCHANGED <<fdtab, reg, client_slab, client_ptr_slab, owner, flows, evlist, expired>>
      /\ UNCHANGED <<time_evlist, killing, fate, client, authenticated, moving, shell>>
      /\ UNCHANGED <<backlog, peer>>
  BY DEF TakeTask, Goto, TypeOK
<1>2. \A v \in Workers : v = w
  BY DEF OneWorker
<1>u. Undisturbed'
  BY <1>1, <1>2 DEF Undisturbed
<1>s. SocketsKnown'
  BY <1>1 DEF SocketsKnown, IsSock, IsPty, Fresh, Linked, ShellOf
<1>t. TerminalsKnown'
  BY <1>1, <1>2 DEF TerminalsKnown, IsSock, IsPty
<1>c. Copies'
  BY <1>1, <1>2 DEF Copies
<1>x. Strangers'
  BY <1>1, <1>2 DEF Strangers, IsSock, Fresh
<1>e. EventsOfSessions'
  BY TakeTaskMovesEvents
<1>f. FlowsInside'
  BY <1>1 DEF FlowsInside
<1> QED
  BY <1>u, <1>s, <1>t, <1>c, <1>x, <1>e, <1>f

\* The copy is that of the session the descriptor leads to.
LEMMA LoadKeepsCalm ==
  ASSUME TypeOK, EventInv, OneWorker, CalmInv, NEW w \in Workers, Load(w)
  PROVE  CalmInv'
<1> USE DEF CalmInv, kernel, outside, slabs, loop, pool, history
<1>1. job[w] # listening_sock
  BY Kinds DEF Load, Slot, EventInv, StandingApart, Standing, NULL
<1>2. PICK sock \in Fds :
      /\ job[w] \in Fds /\ IsSock(sock) /\ client_slab[sock].sock_fd = sock
      /\ Slot(job[w]) = sock
      /\ \/ job[w] = sock /\ Fresh(sock)
         \/ job[w] \in {sock, client_slab[sock].pty_fd} /\ Linked(sock)
  BY <1>1, TaskLeadsToSession DEF Load
<1>3. client_slab[sock].state \in {"new", "established", "unwritten"}
  BY <1>2 DEF TypeOK, Locals, States, Undisturbed
<1>4. /\ pc[w] = "load" /\ pc'[w] = client_slab[sock].state /\ client'[w] = client_slab[sock]
      /\ UNCHANGED <<fdtab, reg, client_slab, client_ptr_slab, owner, flows, evlist, expired>>
      /\ UNCHANGED <<time_evlist, killing, fate, authenticated, moving, shell>>
      /\ UNCHANGED <<backlog, peer, tasks, job>>
  BY <1>2, <1>3 DEF Load, Goto, Case, States, TypeOK
<1>5. \A v \in Workers : v = w
  BY DEF OneWorker
<1>u. Undisturbed'
  BY <1>3, <1>4, <1>5 DEF Undisturbed
<1>s. SocketsKnown'
  BY <1>4 DEF SocketsKnown, IsSock, IsPty, Fresh, Linked, ShellOf
<1>t. TerminalsKnown'
  BY <1>4, <1>5 DEF TerminalsKnown, IsSock, IsPty
<1>c. Copies'
  <2>1. /\ client'[w].sock_fd = sock
        /\ client'[w].pty_fd = client_slab[sock].pty_fd
        /\ CopyOf(w, sock)'
    BY <1>2, <1>4 DEF CopyOf, IsSock
  <2>2. pc'[w] = "new" => job'[w] = sock /\ Fresh(sock)'
    BY <1>2, <1>4 DEF Fresh, Linked
  <2>3. pc'[w] # "new" => job'[w] \in {sock, client_slab[sock].pty_fd} /\ Linked(sock)'
    BY <1>2, <1>4 DEF Fresh, Linked, ShellOf, IsPty
  <2>4. pc'[w] \in {"new", "established", "unwritten"}
    BY <1>3, <1>4
  <2> QED
    BY <1>5, <2>1, <2>2, <2>3, <2>4 DEF Copies
<1>x. Strangers'
  BY <1>4, <1>5 DEF Strangers, IsSock, Fresh
<1>e. EventsOfSessions'
  BY <1>3, <1>4, <1>5, EventsUnmoved DEF Unmoved
<1>f. FlowsInside'
  BY <1>4 DEF FlowsInside
<1> QED
  BY <1>u, <1>s, <1>t, <1>c, <1>x, <1>e, <1>f

\* accept_new_client: the connection comes from the backlog, so nobody knows it yet.
LEMMA AcceptKeepsCalm ==
  ASSUME TypeOK, EventInv, OneWorker, CalmInv, NEW w \in Workers, Accept(w)
  PROVE  CalmInv'
<1> USE DEF CalmInv, loop, pool, history
<1> DEFINE c == Head(backlog)
<1>1. PICK fd \in Fds :
        /\ fdtab[fd] = Closed
        /\ fdtab' = [fdtab EXCEPT ![fd] = Sock(c)]
        /\ client_slab' = [client_slab EXCEPT ![fd] =
                             [sock_fd |-> fd, pty_fd |-> -1, state |-> "new"]]
        /\ client_ptr_slab' = SetPtrs({fd}, fd)
        /\ reg' = [reg EXCEPT ![fd] = "armed"]
  BY DEF Accept, IsLowestFree
<1>2. /\ pc[w] = "load" /\ pc' = [pc EXCEPT ![w] = "greet"] /\ pc'[w] = "greet"
      /\ UNCHANGED <<owner, flows, evlist, expired, time_evlist, killing, fate>>
      /\ UNCHANGED <<authenticated, moving, shell, peer, tasks, job, client>>
  BY DEF Accept, Goto, TypeOK
<1>3. /\ c \in Clients /\ Len(backlog) \in Nat /\ Len(backlog) > 0
      /\ backlog[1] = c /\ Len(backlog') = Len(backlog) - 1
      /\ \A i \in 1 .. Len(backlog) - 1 : backlog'[i] = backlog[i + 1]
  <2>1. backlog \in Seq(Clients) /\ backlog # <<>> /\ backlog' = Tail(backlog)
    BY DEF Accept, TypeOK, KernelTypeOK
  <2> QED
    BY <2>1, HeadTailProperties, EmptySeq, LenProperties
<1>4. \A v \in Workers : v = w
  BY DEF OneWorker
<1>5. /\ fdtab'[fd] = Sock(c) /\ client_ptr_slab'[fd] = fd /\ reg'[fd] = "armed"
      /\ client_slab'[fd] = [sock_fd |-> fd, pty_fd |-> -1, state |-> "new"]
      /\ \A f \in Fds : f # fd => /\ fdtab'[f] = fdtab[f] /\ reg'[f] = reg[f]
                                  /\ client_slab'[f] = client_slab[f]
                                  /\ client_ptr_slab'[f] = client_ptr_slab[f]
      /\ fd \in AllFds
  BY <1>1, DescriptorsDisjoint DEF TypeOK, KernelTypeOK, SetPtrs
<1>6. \A f \in Fds : /\ fdtab'[f].kind = "sock" <=> fdtab[f].kind = "sock" \/ f = fd
                     /\ fdtab'[f].kind = "pty" <=> fdtab[f].kind = "pty"
                     /\ fdtab'[f].kind = "pty" \/ fdtab[f].kind = "sock" => f # fd
  BY <1>1, <1>5 DEF Sock, Closed
<1>7. /\ \A f \in Fds : fdtab[f] # Sock(c)
      /\ \A s \in Shells : owner[s] # c
  BY <1>3 DEF Strangers
<1>u. Undisturbed'
  BY <1>2, <1>4, <1>5 DEF Undisturbed
<1>s. SocketsKnown'
  <2>1. Fresh(fd)' /\ client_ptr_slab'[fd] = fd /\ client_slab'[fd].sock_fd = fd
    BY <1>5 DEF Fresh
  <2>2. ASSUME NEW f \in Fds, f # fd, IsSock(f)
        PROVE  /\ client_ptr_slab'[f] = f /\ client_slab'[f].sock_fd = f
               /\ Fresh(f)' \/ Linked(f)'
    <3>1. client_ptr_slab[f] = f /\ client_slab[f].sock_fd = f /\ (Fresh(f) \/ Linked(f))
      BY <2>2 DEF SocketsKnown
    <3>2. Linked(f) => client_slab[f].pty_fd \in Fds /\ client_slab[f].pty_fd # fd
      BY <1>1, Kinds DEF Linked, ShellOf
    <3> QED
      BY <1>2, <1>5, <1>6, <2>2, <3>1, <3>2 DEF Fresh, Linked, ShellOf, IsPty
  <2> QED
    BY <1>6, <2>1, <2>2 DEF SocketsKnown, IsSock
<1>t. TerminalsKnown'
  <2>1. ASSUME NEW p \in Fds, IsPty(p)'
        PROVE  /\ shell'[fdtab'[p].of] # "none"
               /\ IsSock(client_ptr_slab[p])'
               /\ client_slab'[client_ptr_slab'[p]].pty_fd = p
    <3>1. IsPty(p) /\ p # fd
      BY <1>6, <2>1 DEF IsPty
    <3>2. /\ shell[fdtab[p].of] # "none" /\ IsSock(client_ptr_slab[p])
          /\ client_slab[client_ptr_slab[p]].pty_fd = p
      BY <1>2, <1>4, <3>1 DEF TerminalsKnown
    <3>3. client_ptr_slab[p] \in Fds /\ client_ptr_slab[p] # fd
      BY <1>1, <3>2, Kinds
    <3> QED
      BY <1>2, <1>5, <1>6, <3>1, <3>2, <3>3 DEF IsSock
  <2> QED
    BY <2>1 DEF TerminalsKnown
<1>c. Copies'
  BY <1>2, <1>4 DEF Copies
<1>x. Strangers'
  <2>1. \A f, g \in Fds : IsSock(f)' /\ fdtab'[f] = fdtab'[g] => f = g
    BY <1>5, <1>6, <1>7 DEF Strangers, IsSock
  <2>2. \A i, j \in 1 .. Len(backlog') : backlog'[i] = backlog'[j] => i = j
    BY <1>3 DEF Strangers
  <2>3. \A i \in 1 .. Len(backlog') : peer'[backlog'[i]] # "idle" /\ backlog'[i] # c
    BY <1>2, <1>3 DEF Strangers
  <2>4. ASSUME NEW d \in Clients,
               peer'[d] = "idle" \/ \E i \in 1 .. Len(backlog') : backlog'[i] = d
        PROVE  /\ \A f \in Fds : fdtab'[f] # Sock(d)
               /\ \A s \in Shells : owner'[s] # d
    <3>1. peer[d] = "idle" \/ \E i \in 1 .. Len(backlog) : backlog[i] = d
      BY <1>2, <1>3, <2>4
    <3>2. d # c
      BY <1>2, <1>3, <2>3, <2>4 DEF Strangers
    <3>3. Sock(c) # Sock(d)
      BY <3>2 DEF Sock
    <3> QED
      BY <1>2, <1>5, <3>1, <3>3 DEF Strangers
  <2>5. ASSUME NEW f \in Fds, IsSock(f)', Fresh(f)'
        PROVE  \A s \in Shells : owner'[s] # fdtab'[f].of
    <3>1. CASE f = fd
      BY <1>2, <1>5, <1>7, <3>1 DEF Sock
    <3>2. CASE f # fd
      BY <1>2, <1>4, <1>5, <1>6, <2>5, <3>2 DEF Strangers, IsSock, Fresh
    <3> QED
      BY <3>1, <3>2
  <2> QED
    BY <2>1, <2>2, <2>3, <2>4, <2>5 DEF Strangers
<1>e. EventsOfSessions'
  <2>1. Unmoved
    BY <1>2, <1>4 DEF Unmoved
  <2>2. NoEvent(fd)
    BY <1>1, Kinds DEF EventsOfSessions, SessionEvent
  <2>3. SessionEvent(fd)'
    BY <1>5, <2>1, <2>2, EventOfNew DEF Sock
  <2>4. \A f \in Fds \ {fd} : SessionEvent(f)'
    BY <1>5, <2>1, PlacesUnmoved, EventStays DEF EventsOfSessions
  <2> QED
    BY <2>3, <2>4 DEF EventsOfSessions
<1>f. FlowsInside'
  BY <1>2 DEF FlowsInside
<1> QED
  BY <1>u, <1>s, <1>t, <1>c, <1>x, <1>e, <1>f

\* setup_timer takes a free descriptor, which no session is about.
LEMMA GreetKeepsCalm ==
  ASSUME TypeOK, EventInv, OneWorker, CalmInv, NEW w \in Workers, Greet(w)
  PROVE  CalmInv'
<1> USE DEF CalmInv, loop, history
<1>1. PICK fd \in Fds, c \in Clients \cup {None},
           result \in WriteResults(client_fd[w]) :
        /\ fdtab[fd] = Closed
        /\ fdtab' = [fdtab EXCEPT ![fd] = Timer(c)]
        /\ peer' = PeerAfter(client_fd[w], result)
  <2>1. IsSock(client_fd[w]) => fdtab[client_fd[w]].of \in Clients
    BY ObjectKinds DEF TypeOK
  <2> QED
    BY <2>1 DEF Greet, IsLowestFree
<1>2. /\ pc[w] = "greet" /\ pc' = [pc EXCEPT ![w] = "idle"] /\ pc'[w] = "idle"
      /\ job[w] = listening_sock /\ job' = [job EXCEPT ![w] = 0]
      /\ reg' = Rearmed(reg, listening_sock) /\ peer' = peer
      /\ UNCHANGED <<client_slab, client_ptr_slab, owner, flows, evlist, expired>>
      /\ UNCHANGED <<time_evlist, killing, fate, authenticated, moving, shell>>
      /\ UNCHANGED <<backlog, tasks, client>>
  BY <1>1, CallsSucceed DEF Greet, Goto, Pool!Finish, TypeOK, EventInv, StandingApart
<1>3. \A v \in Workers : v = w
  BY DEF OneWorker
<1>4. \A f \in Fds : /\ fdtab'[f].kind = "sock" <=> fdtab[f].kind = "sock"
                     /\ fdtab'[f].kind = "pty" <=> fdtab[f].kind = "pty"
                     /\ fdtab'[f].kind \in {"sock", "pty"} => fdtab'[f] = fdtab[f]
                     /\ f # fd => fdtab'[f] = fdtab[f]
                     /\ reg'[f] = reg[f]
  BY <1>1, <1>2, Kinds DEF Timer, Closed, TypeOK, KernelTypeOK, AllFds, Rearmed
<1>u. Undisturbed'
  BY <1>2, <1>3 DEF Undisturbed
<1>s. SocketsKnown'
  BY <1>2, <1>4 DEF SocketsKnown, IsSock, IsPty, Fresh, Linked, ShellOf
<1>t. TerminalsKnown'
  BY <1>2, <1>3, <1>4 DEF TerminalsKnown, IsSock, IsPty
<1>c. Copies'
  BY <1>2, <1>3 DEF Copies
<1>x. Strangers'
  <2>1. \A d : fdtab'[fd] # Sock(d) /\ fdtab'[fd].kind # "sock"
    BY <1>1 DEF Timer, Sock, TypeOK, KernelTypeOK
  <2>2. \A f, g \in Fds : IsSock(f)' /\ fdtab'[f] = fdtab'[g] => f = g
    BY <1>4, <2>1 DEF Strangers, IsSock
  <2>3. \A d \in Clients : (\A f \in Fds : fdtab[f] # Sock(d))
                            => \A f \in Fds : fdtab'[f] # Sock(d)
    BY <1>4, <2>1
  <2> QED
    BY <1>2, <1>3, <1>4, <2>2, <2>3 DEF Strangers, IsSock, Fresh
<1>e. EventsOfSessions'
  <2>1. ASSUME NEW f \in Fds, f # fd
        PROVE  SessionEvent(f)'
    <3>1. /\ Reported(f)' = Reported(f) /\ Queued(f)' = Queued(f) /\ Held(f)' = Held(f)
      BY <1>2, <1>3, Kinds DEF Reported, Queued, Held, TypeOK
    <3> QED
      BY <1>4, <2>1, <3>1, EventStays DEF EventsOfSessions
  <2>2. SessionEvent(fd)'
    <3>1. NoEvent(fd)
      BY <1>1, Kinds DEF EventsOfSessions, SessionEvent
    <3>2. /\ Reported(fd)' = {} /\ Queued(fd)' = {} /\ Held(fd)' = {} /\ Armed(fd)' = {}
      BY <1>2, <1>3, <1>4, <3>1, Kinds DEF NoEvent, Reported, Queued, Held, Armed, TypeOK
    <3> QED
      BY <1>1, <1>4, <3>2, Kinds DEF SessionEvent, NoEvent, IsSock, IsPty
  <2> QED
    BY <2>1, <2>2 DEF EventsOfSessions
<1>f. FlowsInside'
  BY <1>2 DEF FlowsInside
<1> QED
  BY <1>u, <1>s, <1>t, <1>c, <1>x, <1>e, <1>f

\* A worker that goes on with what it has, between calls that change no descriptor,
\* no registration and no slab element.
LEMMA WorkerGoesOn ==
  ASSUME TypeOK, OneWorker, CalmInv, NEW w \in Workers,
         UNCHANGED <<fdtab, reg, client_slab, client_ptr_slab, owner, flows, evlist>>,
         UNCHANGED <<expired, time_evlist, killing, fate, backlog, peer, tasks, job, client>>,
         \A s \in Shells : /\ shell'[s] = "none" <=> shell[s] = "none"
                           /\ shell'[s] = "exited" <=> shell[s] = "exited",
         pc[w] \notin {"ok", "store"}, pc'[w] \notin {"store", "terminated"}, Copies'
  PROVE  CalmInv'
<1> USE DEF CalmInv
<1>1. \A v \in Workers : v = w
  BY DEF OneWorker
<1>u. Undisturbed'
  BY <1>1 DEF Undisturbed
<1>s. SocketsKnown'
  BY DEF SocketsKnown, IsSock, IsPty, Fresh, Linked, ShellOf
<1>t. TerminalsKnown'
  <2>1. ASSUME NEW p \in Fds, IsPty(p)
        PROVE  /\ shell'[fdtab[p].of] # "none" /\ IsSock(client_ptr_slab[p])
               /\ client_slab[client_ptr_slab[p]].pty_fd = p
    <3>1. fdtab[p].of \in Shells
      BY <2>1, ObjectKinds DEF TypeOK
    <3> QED
      BY <1>1, <2>1, <3>1 DEF TerminalsKnown
  <2> QED
    BY <2>1 DEF TerminalsKnown, IsSock, IsPty
<1>x. Strangers'
  BY <1>1 DEF Strangers, IsSock, Fresh
<1>e. EventsOfSessions'
  BY <1>1, EventsUnmoved DEF Unmoved
<1>f. FlowsInside'
  BY DEF FlowsInside
<1> QED
  BY <1>u, <1>s, <1>t, <1>x, <1>e, <1>f

\* What read takes out leaves every shell as much alive as it was.
LEMMA DrainKeepsShells ==
  ASSUME TypeOK, NEW fd, Drain(fd)
  PROVE  \A s \in Shells : /\ shell'[s] = "none" <=> shell[s] = "none"
                           /\ shell'[s] = "exited" <=> shell[s] = "exited"
  BY ObjectKinds DEF Drain, TypeOK, KernelTypeOK

\* check_protocol_secret.
LEMMA CheckSecretKeepsCalm ==
  ASSUME TypeOK, OneWorker, CalmInv, NEW w \in Workers, CheckSecret(w)
  PROVE  CalmInv'
<1> USE DEF CalmInv, kernel, slabs, loop, pool
<1> DEFINE fd == client[w].sock_fd
<1>1. /\ pc[w] = "new" /\ Drain(fd)
      /\ UNCHANGED <<fdtab, reg, client_slab, client_ptr_slab, owner, flows, evlist>>
      /\ UNCHANGED <<expired, time_evlist, killing, fate, backlog, tasks, job, client, moving>>
      /\ \/ pc'[w] = "reject" /\ UNCHANGED authenticated
         \/ pc'[w] = "handle" /\ authenticated'[w] = fdtab[fd].of
      /\ peer' = peer
  BY CallsSucceed DEF CheckSecret, Goto, TypeOK
<1>2. \A v \in Workers : v = w
  BY DEF OneWorker
<1>3. job[w] = fd /\ CopyOf(w, fd) /\ Fresh(fd)
  BY <1>1 DEF Copies
<1>4. CopyOf(w, fd)' /\ Fresh(fd)'
  BY <1>1, <1>3 DEF CopyOf, IsSock, Fresh
<1>5. Copies'
  BY <1>1, <1>2, <1>3, <1>4 DEF Copies
<1> QED
  BY <1>1, <1>5, WorkerGoesOn, DrainKeepsShells

\* The connection of a client without the secret is closed: no shell was started
\* for it, so no slab element but its own is about it.
LEMMA RejectKeepsCalm ==
  ASSUME TypeOK, OneWorker, CalmInv, NEW w \in Workers, Reject(w)
  PROVE  CalmInv'
<1> USE DEF CalmInv, outside, slabs, loop, pool, history
<1>1. PICK sock \in Fds :
        /\ sock = client[w].sock_fd /\ sock = job[w] /\ IsSock(sock)
        /\ client[w] = client_slab[sock] /\ Fresh(sock)
  <2>1. pc[w] = "reject"
    BY DEF Reject
  <2> QED
    BY <2>1, Kinds DEF Copies, CopyOf
<1>2. /\ pc[w] = "reject" /\ pc' = [pc EXCEPT ![w] = "store"] /\ pc'[w] = "store"
      /\ CloseAll({sock})
      /\ UNCHANGED <<client_slab, client_ptr_slab, owner, flows, evlist, time_evlist>>
      /\ UNCHANGED <<killing, fate, backlog, peer, tasks, job, client, moving>>
      /\ UNCHANGED authenticated
  <2>1. {client[w].sock_fd} \cap Fds = {sock}
    BY <1>1
  <2> QED
    BY <2>1 DEF Reject, Goto, TypeOK
<1>3. \A v \in Workers : v = w
  BY DEF OneWorker
<1>4. /\ fdtab'[sock] = Closed /\ reg'[sock] = "none"
      /\ \A f \in Fds : f # sock => fdtab'[f] = fdtab[f] /\ reg'[f] = reg[f]
      /\ UNCHANGED shell /\ expired' = {}
  <2>1. \A f \in {sock} \cap Fds : \A s \in Shells : fdtab[f] # Pty(s)
    BY <1>1 DEF IsSock, Pty
  <2>2. shell \in [Shells -> {"none", "running", "printed", "exited"}]
    BY DEF TypeOK, KernelTypeOK
  <2>3. shell' = [s \in Shells |-> shell[s]]
    BY <1>2, <2>1 DEF CloseAll
  <2> QED
    BY <1>2, <2>2, <2>3, DescriptorsDisjoint DEF CloseAll, Undisturbed
<1>5. \A f \in Fds : /\ fdtab'[f].kind = "sock" <=> fdtab[f].kind = "sock" /\ f # sock
                     /\ fdtab'[f].kind = "pty" <=> fdtab[f].kind = "pty"
                     /\ fdtab[f].kind = "pty" => f # sock
  BY <1>1, <1>4 DEF Closed, IsSock
<1>u. Undisturbed'
  BY <1>2, <1>3, <1>4 DEF Undisturbed
<1>s. SocketsKnown'
  BY <1>2, <1>4, <1>5 DEF SocketsKnown, IsSock, IsPty, Fresh, Linked, ShellOf
<1>t. TerminalsKnown'
  <2>1. ASSUME NEW p \in Fds, IsPty(p)'
        PROVE  /\ shell'[fdtab'[p].of] # "none"
               /\ IsSock(client_ptr_slab[p])'
               /\ client_slab'[client_ptr_slab'[p]].pty_fd = p
    <3>1. IsPty(p) /\ p # sock
      BY <1>5, <2>1 DEF IsPty
    <3>2. /\ shell[fdtab[p].of] # "none" /\ IsSock(client_ptr_slab[p])
          /\ client_slab[client_ptr_slab[p]].pty_fd = p
      BY <1>2, <1>3, <3>1 DEF TerminalsKnown
    <3>3. client_ptr_slab[p] \in Fds /\ client_ptr_slab[p] # sock
      BY <1>1, <3>2, Kinds, DescriptorsDisjoint DEF Fresh
    <3> QED
      BY <1>2, <1>4, <1>5, <3>1, <3>2, <3>3 DEF IsSock
  <2> QED
    BY <2>1 DEF TerminalsKnown
<1>c. Copies'
  <2>1. client'[w].state = "new" /\ client'[w].pty_fd = -1 /\ client'[w].sock_fd = sock
    BY <1>1, <1>2 DEF Fresh
  <2> QED
    BY <1>2, <1>3, <1>4, <2>1 DEF Copies
<1>x. Strangers'
  <2>1. \A d : fdtab'[sock] # Sock(d)
    BY <1>4 DEF Closed, Sock
  <2>2. \A f, g \in Fds : IsSock(f)' /\ fdtab'[f] = fdtab'[g] => f = g
    BY <1>4, <1>5 DEF Strangers, IsSock, Closed
  <2>3. \A d \in Clients : (\A f \in Fds : fdtab[f] # Sock(d))
                            => \A f \in Fds : fdtab'[f] # Sock(d)
    BY <1>4, <2>1
  <2>4. \A f \in Fds : IsSock(f)' /\ Fresh(f)' => \A s \in Shells : owner'[s] # fdtab'[f].of
    BY <1>2, <1>3, <1>4, <1>5 DEF Strangers, IsSock, Fresh
  <2> QED
    BY <1>2, <2>2, <2>3, <2>4 DEF Strangers
<1>e. EventsOfSessions'
  <2>1. SessionEvent(sock)'
    <3>1. w \in Held(sock)
      BY <1>1, <1>2 DEF Held
    <3>2. Reported(sock) = {} /\ Queued(sock) = {}
      BY <1>1, <3>1 DEF EventsOfSessions, SessionEvent, SoleEvent
    <3>3. Reported(sock)' = {} /\ Queued(sock)' = {} /\ Held(sock)' = {} /\ Armed(sock)' = {}
      BY <1>2, <1>3, <1>4, <3>2 DEF Reported, Queued, Held, Armed
    <3> QED
      BY <1>4, <3>3 DEF SessionEvent, NoEvent, IsSock, IsPty, Closed
  <2>2. ASSUME NEW f \in Fds, f # sock
        PROVE  SessionEvent(f)'
    <3>1. Reported(f)' = Reported(f) /\ Queued(f)' = Queued(f) /\ Held(f)' = Held(f)
      BY <1>1, <1>2, <1>3, <2>2 DEF Reported, Queued, Held
    <3> QED
      BY <1>4, <2>2, <3>1, EventStays DEF EventsOfSessions
  <2> QED
    BY <2>1, <2>2 DEF EventsOfSessions
<1>f. FlowsInside'
  BY <1>2, <1>4 DEF FlowsInside
<1> QED
  BY <1>u, <1>s, <1>t, <1>c, <1>x, <1>e, <1>f

\* handle_client: the shell is new, so no terminal but the new one is about it.
LEMMA HandleClientKeepsCalm ==
  ASSUME TypeOK, OneWorker, CalmInv, NEW w \in Workers, HandleClient(w)
  PROVE  CalmInv'
<1> USE DEF CalmInv, outside, slabs, loop, pool
<1>1. PICK fd \in Fds, s \in Shells :
        /\ fdtab[fd] = Closed
        /\ shell[s] = "none"
        /\ fdtab' = [fdtab EXCEPT ![fd] = Pty(s)]
        /\ reg' = [reg EXCEPT ![fd] = "armed"]
        /\ shell' = [shell EXCEPT ![s] = "running"]
        /\ owner' = [owner EXCEPT ![s] = authenticated[w]]
        /\ client' = [client EXCEPT ![w].pty_fd = fd]
  BY DEF HandleClient, IsLowestFree
<1>2. /\ pc[w] = "handle" /\ pc' = [pc EXCEPT ![w] = "ok"] /\ pc'[w] = "ok"
      /\ UNCHANGED <<client_slab, client_ptr_slab, flows, evlist, expired, time_evlist>>
      /\ UNCHANGED <<killing, fate, backlog, peer, tasks, job, moving>>
      /\ UNCHANGED authenticated
  BY DEF HandleClient, Goto, TypeOK
<1>3. \A v \in Workers : v = w
  BY DEF OneWorker
<1>4. PICK sock \in Fds :
        /\ sock = client[w].sock_fd /\ sock = job[w] /\ IsSock(sock)
        /\ client[w] = client_slab[sock] /\ Fresh(sock)
        /\ authenticated[w] = fdtab[sock].of
  BY <1>2, Kinds DEF Copies, CopyOf
<1>5. /\ fdtab'[fd] = Pty(s) /\ reg'[fd] = "armed"
      /\ \A f \in Fds : f # fd => fdtab'[f] = fdtab[f] /\ reg'[f] = reg[f]
      /\ fd \in AllFds
  BY <1>1, DescriptorsDisjoint DEF TypeOK, KernelTypeOK
<1>6. /\ shell'[s] = "running" /\ owner'[s] = fdtab[sock].of
      /\ \A r \in Shells : r # s => shell'[r] = shell[r] /\ owner'[r] = owner[r]
  BY <1>1, <1>4 DEF TypeOK, KernelTypeOK
<1>7. client'[w].sock_fd = sock /\ client'[w].pty_fd = fd /\ client'[w].state = "new"
  <2>1. client[w] \in Locals /\ client' = [client EXCEPT ![w] = [@ EXCEPT !.pty_fd = fd]]
    BY <1>1 DEF TypeOK
  <2>2. client'[w] = [client[w] EXCEPT !.pty_fd = fd]
    BY <2>1 DEF TypeOK
  <2>3. client[w].state = "new" /\ client[w].sock_fd = sock
    BY <1>4 DEF Fresh
  <2>4. ASSUME NEW c \in Locals
        PROVE  LET d == [c EXCEPT !.pty_fd = fd]
               IN  d.sock_fd = c.sock_fd /\ d.pty_fd = fd /\ d.state = c.state
    BY DEF Locals
  <2> QED
    BY <2>1, <2>2, <2>3, <2>4
<1>8. \A f \in Fds : /\ fdtab'[f].kind = "sock" <=> fdtab[f].kind = "sock"
                     /\ fdtab'[f].kind = "pty" <=> fdtab[f].kind = "pty" \/ f = fd
                     /\ fdtab[f].kind \in {"sock", "pty"} => f # fd
  BY <1>1, <1>5 DEF Pty, Closed
<1>9. \A p : IsPty(p) => p \in Fds /\ p # fd /\ fdtab[p].of \in Shells /\ fdtab[p].of # s
  BY <1>1, <1>8, ObjectKinds DEF TerminalsKnown, TypeOK, IsPty
<1>u. Undisturbed'
  BY <1>2, <1>3, <1>6, <1>7 DEF Undisturbed
<1>s. SocketsKnown'
  <2>1. ASSUME NEW f \in Fds, IsSock(f), Linked(f)
        PROVE  Linked(f)'
    <3>1. ShellOf(f, client_slab[f].pty_fd) /\ f # fd
      BY <1>8, <2>1 DEF Linked, IsSock
    <3>2. ShellOf(f, client_slab[f].pty_fd)'
      BY <1>2, <1>5, <1>6, <1>8, <1>9, <3>1 DEF ShellOf, IsPty
    <3> QED
      BY <1>2, <2>1, <3>2 DEF Linked
  <2> QED
    BY <1>2, <1>8, <2>1 DEF SocketsKnown, IsSock, Fresh
<1>t. TerminalsKnown'
  <2>1. ASSUME NEW p \in Fds, IsPty(p)
        PROVE  /\ shell'[fdtab'[p].of] # "none"
               /\ IsSock(client_ptr_slab[p])'
               /\ client_slab'[client_ptr_slab'[p]].pty_fd = p
    <3>1. /\ shell[fdtab[p].of] # "none" /\ IsSock(client_ptr_slab[p])
          /\ client_slab[client_ptr_slab[p]].pty_fd = p
      BY <1>2, <1>3, <2>1 DEF TerminalsKnown
    <3> QED
      BY <1>2, <1>5, <1>6, <1>8, <1>9, <2>1, <3>1 DEF IsSock
  <2>2. shell'[fdtab'[fd].of] # "none"
    BY <1>5, <1>6 DEF Pty
  <2> QED
    BY <1>2, <1>7, <1>8, <2>1, <2>2 DEF TerminalsKnown, IsPty
<1>c. Copies'
  <2>1. IsSock(sock)' /\ Fresh(sock)'
    BY <1>2, <1>4, <1>8 DEF IsSock, Fresh
  <2>2. ShellOf(sock, fd)'
    BY <1>4, <1>5, <1>6, <1>8 DEF ShellOf, IsSock, IsPty, Pty
  <2> QED
    BY <1>2, <1>3, <1>4, <1>7, <2>1, <2>2 DEF Copies
<1>x. Strangers'
  <2>1. \A f \in Fds : IsSock(f)' => IsSock(f) /\ fdtab'[f] = fdtab[f]
    BY <1>5, <1>8 DEF IsSock
  <2>2. \A f, g \in Fds : IsSock(f)' /\ fdtab'[f] = fdtab'[g] => f = g
    <3>1. \A f, g \in Fds : IsSock(f)' /\ fdtab'[f] = fdtab'[g] => IsSock(g)'
      BY DEF IsSock
    <3> QED
      BY <2>1, <3>1 DEF Strangers
  <2>3. ASSUME NEW d \in Clients,
               \A f \in Fds : fdtab[f] # Sock(d), \A r \in Shells : owner[r] # d
        PROVE  (\A f \in Fds : fdtab'[f] # Sock(d)) /\ \A r \in Shells : owner'[r] # d
    <3>1. fdtab[sock] = Sock(fdtab[sock].of)
      BY <1>4, ObjectKinds DEF TypeOK
    <3>2. Pty(s) # Sock(d)
      BY DEF Pty, Sock
    <3> QED
      BY <1>5, <1>6, <2>3, <3>1, <3>2
  <2>4. ASSUME NEW f \in Fds, IsSock(f)', Fresh(f)'
        PROVE  \/ \A r \in Shells : owner'[r] # fdtab'[f].of
               \/ \E v \in Workers : pc'[v] \in {"ok", "store"} /\ client'[v].sock_fd = f
    <3>1. CASE f = sock
      BY <1>2, <1>7, <3>1
    <3>2. CASE f # sock
      <4>1. IsSock(f) /\ Fresh(f) /\ fdtab'[f] = fdtab[f]
        BY <1>2, <2>1, <2>4 DEF Fresh
      <4>2. \A r \in Shells : owner[r] # fdtab[f].of
        BY <1>2, <1>3, <4>1 DEF Strangers
      <4>3. fdtab[f] # fdtab[sock] /\ fdtab[f].of # fdtab[sock].of
        BY <1>4, <3>2, <4>1, ObjectKinds DEF Strangers, TypeOK
      <4> QED
        BY <1>6, <4>1, <4>2, <4>3
    <3> QED
      BY <3>1, <3>2
  <2> QED
    BY <1>2, <2>2, <2>3, <2>4 DEF Strangers
<1>e. EventsOfSessions'
  <2>1. Unmoved
    BY <1>2, <1>3 DEF Unmoved
  <2>2. NoEvent(fd)
    BY <1>1, Kinds DEF EventsOfSessions, SessionEvent
  <2>3. SessionEvent(fd)'
    BY <1>5, <2>1, <2>2, EventOfNew DEF Pty
  <2>4. \A f \in Fds \ {fd} : SessionEvent(f)'
    BY <1>5, <2>1, PlacesUnmoved, EventStays DEF EventsOfSessions
  <2> QED
    BY <2>3, <2>4 DEF EventsOfSessions
<1>f. FlowsInside'
  <2>1. \A r \in Shells : shell[r] # "none" => shell'[r] # "none" /\ owner'[r] = owner[r]
    BY <1>1, <1>6
  <2> QED
    BY <1>2, <2>1 DEF FlowsInside
<1> QED
  BY <1>u, <1>s, <1>t, <1>c, <1>x, <1>e, <1>f

\* What the copy of a worker in a session leads to.
LEMMA CopyOfSession ==
  ASSUME TypeOK, CalmInv, NEW w \in Workers,
         pc[w] \in {"ok", "established", "unwritten", "write"}
  PROVE  /\ client[w].sock_fd \in Fds /\ IsSock(client[w].sock_fd)
         /\ client[w].pty_fd \in Fds /\ ShellOf(client[w].sock_fd, client[w].pty_fd)
         /\ job[w] \in {client[w].sock_fd, client[w].pty_fd}
         /\ pc[w] = "ok" => Fresh(client[w].sock_fd)
         /\ pc[w] # "ok" => /\ client[w] = client_slab[client[w].sock_fd]
                            /\ Linked(client[w].sock_fd)
                            /\ client_ptr_slab[job[w]] = client[w].sock_fd
<1>1. CASE pc[w] = "ok"
  BY <1>1, Kinds DEF CalmInv, Copies, ShellOf
<1>2. CASE pc[w] # "ok"
  <2>1. /\ IsSock(client[w].sock_fd) /\ client[w] = client_slab[client[w].sock_fd]
        /\ Linked(client[w].sock_fd) /\ job[w] \in {client[w].sock_fd, client[w].pty_fd}
    BY <1>2 DEF CalmInv, Copies, CopyOf
  <2>2. /\ ShellOf(client[w].sock_fd, client[w].pty_fd)
        /\ client_ptr_slab[client[w].pty_fd] = client[w].sock_fd
    BY <2>1 DEF Linked
  <2>3. client_ptr_slab[client[w].sock_fd] = client[w].sock_fd
    BY <2>1, Kinds DEF CalmInv, SocketsKnown
  <2> QED
    BY <1>2, <2>1, <2>2, <2>3, Kinds DEF ShellOf
<1> QED
  BY <1>1, <1>2

\* A worker arms the descriptor again and is left with a copy to store.
LEMMA SessionGoesOn ==
  ASSUME TypeOK, OneWorker, CalmInv, NEW w \in Workers,
         pc[w] \in {"ok", "established", "unwritten", "write"}, pc'[w] = "store",
         UNCHANGED <<fdtab, client_ptr_slab, owner, evlist, expired, time_evlist>>,
         UNCHANGED <<killing, fate, backlog, peer, tasks, job>>,
         \A s \in Shells : /\ shell'[s] = "none" <=> shell[s] = "none"
                           /\ shell'[s] = "exited" <=> shell[s] = "exited",
         reg' = Rearmed(reg, job[w]),
         NEW sock, sock = client[w].sock_fd,
         client'[w].sock_fd = sock, client'[w].pty_fd = client[w].pty_fd,
         client'[w].state \in {"established", "unwritten"},
         \/ client_slab' = client_slab
         \/ /\ pc[w] # "ok"
            /\ \E state \in {"established", "unwritten"} :
                 client_slab' = [client_slab EXCEPT ![sock].state = state],
         FlowsInside'
  PROVE  CalmInv'
<1> USE DEF CalmInv
<1>1. \A v \in Workers : v = w
  BY DEF OneWorker
<1>2. PICK pty \in Fds :
        /\ pty = client[w].pty_fd /\ sock \in Fds
        /\ IsSock(sock) /\ ShellOf(sock, pty) /\ job[w] \in {sock, pty}
        /\ pc[w] = "ok" => Fresh(sock)
        /\ pc[w] # "ok" => Linked(sock) /\ client_slab[sock].pty_fd = pty
  BY CopyOfSession
<1>3. \A f \in Fds : /\ client_slab'[f].sock_fd = client_slab[f].sock_fd
                     /\ client_slab'[f].pty_fd = client_slab[f].pty_fd
                     /\ client_slab'[f].state = "new" <=> client_slab[f].state = "new"
                     /\ client_slab'[f].state # "terminated"
  <2>1. CASE client_slab' = client_slab
    BY <2>1 DEF Undisturbed
  <2>2. ASSUME NEW state \in {"established", "unwritten"}, pc[w] # "ok",
               client_slab' = [client_slab EXCEPT ![sock].state = state]
        PROVE  \A f \in Fds : /\ client_slab'[f].sock_fd = client_slab[f].sock_fd
                              /\ client_slab'[f].pty_fd = client_slab[f].pty_fd
                              /\ client_slab'[f].state = "new" <=> client_slab[f].state = "new"
                              /\ client_slab'[f].state # "terminated"
    <3>1. client_slab[sock].state # "new"
      BY <1>2, <2>2 DEF Linked
    <3> QED
      BY <2>2, <3>1 DEF TypeOK, Locals, Undisturbed
  <2> QED
    BY <1>2, <2>1, <2>2
<1>u. Undisturbed'
  BY <1>1, <1>3 DEF Undisturbed
<1>s. SocketsKnown'
  <2>1. \A f \in Fds : IsSock(f) => (Fresh(f) => Fresh(f)') /\ (Linked(f) => Linked(f)')
    BY <1>3 DEF Fresh, Linked, ShellOf, IsPty
  <2> QED
    BY <1>3, <2>1 DEF SocketsKnown, IsSock
<1>t. TerminalsKnown'
  <2>1. ASSUME NEW p \in Fds, IsPty(p)
        PROVE  /\ shell'[fdtab[p].of] # "none"
               /\ \/ /\ IsSock(client_ptr_slab[p])
                     /\ client_slab'[client_ptr_slab[p]].pty_fd = p
                  \/ pc'[w] = "store" /\ client'[w].pty_fd = p
    <3>1. fdtab[p].of \in Shells
      BY <2>1, ObjectKinds DEF TypeOK
    <3>2. IsSock(client_ptr_slab[p]) => client_ptr_slab[p] \in Fds
      BY Kinds
    <3> QED
      BY <1>1, <1>3, <2>1, <3>1, <3>2 DEF TerminalsKnown
  <2> QED
    BY <2>1 DEF TerminalsKnown, IsSock, IsPty
<1>c. Copies'
  <2>1. IsSock(sock)' /\ ShellOf(sock, pty)'
    BY <1>2 DEF IsSock, ShellOf, IsPty
  <2>2. Fresh(sock)' \/ client_slab'[sock].pty_fd = pty
    BY <1>2, <1>3 DEF Fresh
  <2> QED
    BY <1>1, <1>2, <2>1, <2>2 DEF Copies
<1>x. Strangers'
  <2>1. ASSUME NEW f \in Fds, IsSock(f), Fresh(f)
        PROVE  \/ \A s \in Shells : owner[s] # fdtab[f].of
               \/ pc'[w] = "store" /\ client'[w].sock_fd = f
    BY <1>1, <2>1 DEF Strangers
  <2>2. \A f \in Fds : Fresh(f)' <=> Fresh(f)
    BY <1>3 DEF Fresh
  <2> QED
    BY <2>1, <2>2 DEF Strangers, IsSock
<1>e. EventsOfSessions'
  <2>1. job[w] \in Fds /\ (IsSock(job[w]) \/ IsPty(job[w]))
    BY <1>2 DEF ShellOf
  <2> QED
    BY <2>1, EventRearmed
<1> QED
  BY <1>u, <1>s, <1>t, <1>c, <1>x, <1>e

\* <ok>, and the empty buffer: only the copy learns the new state.
LEMMA CopyLearnsState ==
  ASSUME TypeOK, OneWorker, CalmInv, NEW w \in Workers, SendOk(w) \/ SendUnwritten(w)
  PROVE  CalmInv'
<1> USE DEF kernel, slabs, loop, pool, history
<1>1. Undisturbed /\ FlowsInside /\ Copies
  BY DEF CalmInv
<1>2. /\ pc[w] \in {"ok", "unwritten"} /\ pc'[w] = "store"
      /\ UNCHANGED <<fdtab, client_slab, client_ptr_slab, owner, evlist, expired, time_evlist>>
      /\ UNCHANGED <<killing, fate, backlog, peer, tasks, job, shell, flows>>
      /\ reg' = Rearmed(reg, job[w])
  BY <1>1, CallsSucceed DEF SendOk, SendUnwritten, Goto, TypeOK
<1>3. /\ client'[w].sock_fd = client[w].sock_fd /\ client'[w].pty_fd = client[w].pty_fd
      /\ client'[w].state \in {"established", "unwritten"}
  <2>1. CASE SendOk(w)
    BY <2>1 DEF SendOk, AfterOk, TypeOK, Locals
  <2>2. CASE SendUnwritten(w)
    <3>1. IsSock(client[w].sock_fd)
      BY <2>2, <1>1 DEF SendUnwritten, Copies, CopyOf
    <3>2. client' = [client EXCEPT ![w].state = "established"]
      BY <1>1, <2>2, <3>1, CallsSucceed DEF SendUnwritten
    <3> QED
      BY <3>2 DEF TypeOK, Locals
  <2> QED
    BY <2>1, <2>2
<1>4. FlowsInside'
  BY <1>1, <1>2 DEF FlowsInside
<1> QED
  BY <1>2, <1>3, <1>4, SessionGoesOn

\* transfer_data up to its write.
LEMMA ReadDataKeepsCalm ==
  ASSUME TypeOK, OneWorker, CalmInv, NEW w \in Workers, ReadData(w)
  PROVE  CalmInv'
<1> USE DEF loop, pool, history
<1>1. Undisturbed /\ FlowsInside /\ Copies
  BY DEF CalmInv
<1>2. PICK sock \in Fds, pty \in Fds :
        /\ sock = client[w].sock_fd /\ pty = client[w].pty_fd
        /\ IsSock(sock) /\ ShellOf(sock, pty) /\ job[w] \in {sock, pty}
        /\ client[w] = client_slab[sock] /\ Linked(sock) /\ client_ptr_slab[job[w]] = sock
  <2>1. pc[w] = "established"
    BY DEF ReadData
  <2> QED
    BY <2>1, CopyOfSession
<1>0. IsSock(sock) /\ client[w] = client_slab[sock] /\ Linked(sock)
  BY <1>2
<1>3. ReadResult(job[w]) \in {"data", "again"}
  BY <1>1, <1>2, CallsSucceed DEF ShellOf
<1>4. /\ pc[w] = "established" /\ Drain(job[w]) /\ peer' = peer
      /\ UNCHANGED <<fdtab, client_ptr_slab, owner, evlist, expired, time_evlist>>
      /\ UNCHANGED <<killing, fate, backlog, tasks, job, client, flows, authenticated>>
  BY <1>1, CallsSucceed DEF ReadData
<1>5. \A s \in Shells : /\ shell'[s] = "none" <=> shell[s] = "none"
                        /\ shell'[s] = "exited" <=> shell[s] = "exited"
  BY <1>4, DrainKeepsShells
<1>6. CASE ReadResult(job[w]) = "data"
  <2>1. /\ pc'[w] = "write" /\ UNCHANGED <<client_slab, reg>>
        /\ moving'[w] = [what  |-> fdtab[job[w]],
                         to_fd |-> OtherEnd(client[w], job[w]),
                         slot  |-> sock]
    <3>1. /\ pc' = [pc EXCEPT ![w] = "write"] /\ UNCHANGED <<client_slab, reg>>
          /\ moving' = [moving EXCEPT ![w] =
                          [what  |-> fdtab[job[w]],
                           to_fd |-> OtherEnd(client_slab[sock], job[w]),
                           slot  |-> sock]]
      BY <1>2, <1>6 DEF ReadData, Goto
    <3> QED
      BY <1>2, <3>1 DEF TypeOK
  <2>2. CopyOf(w, sock)' /\ Linked(sock)'
    <3>1. CopyOf(w, sock)'
      BY <1>0, <1>4, <2>1 DEF CopyOf, IsSock
    <3>2. Linked(sock)'
      BY <1>0, <1>4, <2>1 DEF Linked, ShellOf, IsPty
    <3> QED
      BY <3>1, <3>2
  <2>3. moving'[w] = [what  |-> fdtab'[job'[w]],
                      to_fd |-> OtherEnd(client'[w], job'[w]),
                      slot  |-> sock]
    BY <1>4, <2>1
  <2>4. Copies'
    <3>1. \A v \in Workers : v = w
      BY DEF OneWorker
    <3> QED
      BY <1>2, <1>4, <2>1, <2>2, <2>3, <3>1 DEF Copies, OtherEnd
  <2> QED
    BY <1>4, <1>5, <2>1, <2>4, WorkerGoesOn
<1>7. CASE ReadResult(job[w]) = "again"
  <2>1. /\ pc'[w] = "store" /\ reg' = Rearmed(reg, job[w])
        /\ client_slab' = [client_slab EXCEPT ![sock].state = "unwritten"]
    BY <1>2, <1>7 DEF ReadData, Goto, TypeOK
  <2>2. client[w].state \in {"established", "unwritten"}
    BY <1>0, <1>1 DEF Linked, TypeOK, Locals, States, Undisturbed
  <2>3. FlowsInside'
    BY <1>1, <1>4, <1>5 DEF FlowsInside
  <2>4. pc[w] # "ok" /\ client' = client /\ sock = client[w].sock_fd
    BY <1>2, <1>4
  <2> QED
    BY <1>4, <1>5, <2>1, <2>2, <2>3, <2>4, SessionGoesOn
<1> QED
  BY <1>3, <1>6, <1>7

\* ... and from its write on: what was read from one side goes to the other.
LEMMA WriteDataKeepsCalm ==
  ASSUME TypeOK, OneWorker, CalmInv, NEW w \in Workers, WriteData(w)
  PROVE  CalmInv'
<1> USE DEF loop, pool
<1>1. Undisturbed /\ FlowsInside /\ Copies /\ TerminalsKnown
  BY DEF CalmInv
<1>2. PICK sock \in Fds, pty \in Fds :
        /\ sock = client[w].sock_fd /\ pty = client[w].pty_fd
        /\ IsSock(sock) /\ ShellOf(sock, pty) /\ job[w] \in {sock, pty}
        /\ client[w] = client_slab[sock] /\ Linked(sock)
  <2>1. pc[w] = "write"
    BY DEF WriteData
  <2> QED
    BY <2>1, CopyOfSession
<1>3. /\ moving[w].what = fdtab[job[w]] /\ moving[w].slot = sock
      /\ moving[w].to_fd = OtherEnd(client[w], job[w])
  <2>1. pc[w] = "write"
    BY DEF WriteData
  <2>2. moving[w] = [what  |-> fdtab[job[w]],
                     to_fd |-> OtherEnd(client[w], job[w]),
                     slot  |-> sock]
    BY <1>1, <1>2, <2>1 DEF Copies
  <2> QED
    BY <2>2
<1>4. /\ pc[w] = "write" /\ pc'[w] = "store" /\ reg' = Rearmed(reg, job[w])
      /\ UNCHANGED <<fdtab, client_ptr_slab, owner, evlist, expired, time_evlist>>
      /\ UNCHANGED <<killing, fate, backlog, peer, tasks, job, client, shell>>
      /\ \E state \in {"established", "unwritten"} :
           client_slab' = [client_slab EXCEPT ![sock].state = state]
      /\ flows' \subseteq flows \cup {<<fdtab[job[w]], fdtab[moving[w].to_fd]>>}
  <2>1. PICK result \in WriteResults(moving[w].to_fd) :
          /\ client_slab' = [client_slab EXCEPT ![sock].state =
                               IF result = "written" THEN "established" ELSE "unwritten"]
          /\ flows' \subseteq flows \cup {<<fdtab[job[w]], fdtab[moving[w].to_fd]>>}
          /\ peer' = PeerAfter(moving[w].to_fd, result)
    BY <1>3 DEF WriteData
  <2>2. \E state \in {"established", "unwritten"} :
           client_slab' = [client_slab EXCEPT ![sock].state = state]
    BY <2>1
  <2>3. peer' = peer
    BY <1>1, <2>1, CallsSucceed
  <2> QED
    BY <2>1, <2>2, <2>3 DEF WriteData, Goto, TypeOK
<1>5. client[w].state \in {"established", "unwritten"}
  <2>1. client[w] = client_slab[sock] /\ Linked(sock)
    BY <1>2
  <2> QED
    BY <1>1, <2>1 DEF Linked, TypeOK, Locals, States, Undisturbed
<1>6. FlowsInside'
  <2>1. PICK s \in Shells : /\ fdtab[pty] = Pty(s) /\ fdtab[sock] = Sock(owner[s])
                            /\ shell[s] # "none"
    <3>1. IsSock(sock) /\ IsPty(pty) /\ owner[fdtab[pty].of] = fdtab[sock].of
      BY <1>2 DEF ShellOf
    <3>2. fdtab[pty] = Pty(fdtab[pty].of) /\ fdtab[sock] = Sock(fdtab[sock].of)
      BY <3>1, ObjectKinds DEF TypeOK
    <3>3. fdtab[pty].of \in Shells /\ shell[fdtab[pty].of] # "none"
      BY <1>1, <3>1, ObjectKinds DEF TypeOK, TerminalsKnown
    <3> QED
      BY <3>1, <3>2, <3>3
  <2>2. sock # pty
    BY <1>2, ObjectKinds DEF TypeOK, ShellOf
  <2>3. <<fdtab[job[w]], fdtab[moving[w].to_fd]>> \in
          {<<Pty(s), Sock(owner[s])>>, <<Sock(owner[s]), Pty(s)>>}
    BY <1>2, <1>3, <2>1, <2>2 DEF OtherEnd
  <2> QED
    BY <1>1, <1>4, <2>1, <2>3 DEF FlowsInside
<1>7. pc[w] # "ok" /\ client' = client /\ shell' = shell /\ sock = client[w].sock_fd
  BY <1>2, <1>4
<1> QED
  BY <1>4, <1>5, <1>6, <1>7, SessionGoesOn

\* The copy is written back.  Nobody else has changed the element since it was
\* copied but the worker itself, and it knows of the terminal, if there is one.
LEMMA StoreKeepsCalm ==
  ASSUME TypeOK, OneWorker, CalmInv, NEW w \in Workers, Store(w)
  PROVE  CalmInv'
<1> USE DEF CalmInv, kernel, outside, loop, history
<1> DEFINE pty == client[w].pty_fd
<1>1. pc[w] = "store"
  BY DEF Store
<1>2. PICK sock \in Fds :
        /\ sock = client[w].sock_fd
        /\ \/ fdtab[sock] = Closed /\ client[w].state = "new" /\ pty = -1
           \/ /\ IsSock(sock) /\ client[w].state # "new" /\ ShellOf(sock, pty)
              /\ Fresh(sock) \/ client_slab[sock].pty_fd = pty
  BY <1>1, Kinds DEF Copies
<1>3. /\ pc' = [pc EXCEPT ![w] = "idle"] /\ pc'[w] = "idle" /\ job' = [job EXCEPT ![w] = 0]
      /\ UNCHANGED <<fdtab, reg, owner, flows, evlist, expired, time_evlist, killing, fate>>
      /\ UNCHANGED <<authenticated, moving, shell, backlog, peer, tasks, client>>
  BY DEF Store, Goto, Pool!Finish, TypeOK
<1>4. \A v \in Workers : v = w
  BY DEF OneWorker
<1>5. /\ client_slab'[sock] = client[w]
      /\ client_ptr_slab'[sock] = sock
      /\ pty \in Fds => client_ptr_slab'[pty] = sock
      /\ \A f \in Fds : /\ f # sock => client_slab'[f] = client_slab[f]
                        /\ f \notin {sock, pty} => client_ptr_slab'[f] = client_ptr_slab[f]
  <2>1. /\ client_slab' = [client_slab EXCEPT ![sock] = client[w]]
        /\ client_ptr_slab' = SetPtrs({sock, pty}, sock)
    BY <1>2 DEF Store, Ends
  <2>2. \A f \in Fds : client_ptr_slab'[f] = IF f \in {sock, pty} THEN sock
                                            ELSE client_ptr_slab[f]
    BY <2>1, DescriptorsDisjoint DEF SetPtrs
  <2>3. /\ client_slab'[sock] = client[w]
        /\ \A f \in Fds : f # sock => client_slab'[f] = client_slab[f]
    BY <2>1 DEF TypeOK
  <2> QED
    BY <2>2, <2>3
<1>6. \A f \in Fds : fdtab[f] = Closed => ~ IsSock(f) /\ ~ IsPty(f)
  BY Kinds
<1>u. Undisturbed'
  BY <1>1, <1>3, <1>4, <1>5 DEF Undisturbed
<1>s. SocketsKnown'
  <2>1. IsSock(sock) => Linked(sock)' /\ client_slab'[sock].sock_fd = sock
    <3>1. SUFFICES ASSUME IsSock(sock)
                   PROVE  Linked(sock)' /\ client_slab'[sock].sock_fd = sock
      OBVIOUS
    <3>2. client[w].state # "new" /\ ShellOf(sock, pty) /\ pty \in Fds
      BY <1>2, <1>6, <3>1, Kinds DEF ShellOf
    <3>3. ShellOf(sock, client_slab[sock].pty_fd)'
      BY <1>3, <1>5, <3>2 DEF ShellOf, IsPty
    <3> QED
      BY <1>2, <1>5, <3>2, <3>3 DEF Linked
  <2>2. ASSUME NEW f \in Fds, f # sock, IsSock(f)
        PROVE  /\ client_ptr_slab'[f] = f /\ client_slab'[f].sock_fd = f
               /\ Fresh(f)' \/ Linked(f)'
    <3>1. client_ptr_slab[f] = f /\ client_slab[f].sock_fd = f /\ (Fresh(f) \/ Linked(f))
      BY <2>2 DEF SocketsKnown
    <3>2. f # pty
      BY <1>2, <2>2, DescriptorsDisjoint, ObjectKinds DEF TypeOK, ShellOf
    <3>3. ASSUME Linked(f)
          PROVE  client_slab[f].pty_fd \in Fds /\ client_slab[f].pty_fd \notin {sock, pty}
      <4>1. /\ IsPty(client_slab[f].pty_fd)
            /\ owner[fdtab[client_slab[f].pty_fd].of] = fdtab[f].of
        BY <3>3 DEF Linked, ShellOf
      <4>2. client_slab[f].pty_fd # sock
        BY <1>2, <1>6, <4>1, ObjectKinds DEF TypeOK
      <4>3. client_slab[f].pty_fd # pty
        <5>1. fdtab[f].of # fdtab[sock].of \/ ~ IsSock(sock)
          BY <2>2, ObjectKinds DEF TypeOK, Strangers
        <5> QED
          BY <1>2, <4>1, <5>1, Kinds, DescriptorsDisjoint DEF ShellOf
      <4> QED
        BY <4>1, <4>2, <4>3, Kinds
    <3>4. Fresh(f) => Fresh(f)'
      BY <1>5, <2>2 DEF Fresh
    <3>5. Linked(f) => Linked(f)'
      BY <1>3, <1>5, <2>2, <3>3 DEF Linked, ShellOf, IsPty
    <3> QED
      BY <1>5, <2>2, <3>1, <3>2, <3>4, <3>5
  <2> QED
    <3>1. \A f : IsSock(f)' <=> IsSock(f)
      BY <1>3 DEF IsSock
    <3> QED
      BY <1>5, <2>1, <2>2, <3>1 DEF SocketsKnown
<1>t. TerminalsKnown'
  <2>1. ASSUME NEW p \in Fds, IsPty(p)
        PROVE  /\ IsSock(client_ptr_slab'[p])
               /\ client_slab'[client_ptr_slab'[p]].pty_fd = p
    <3>1. p # sock
      BY <1>2, <1>6, <2>1, ObjectKinds DEF TypeOK
    <3>2. CASE p = pty
      <4>1. IsSock(sock)
        BY <1>2, <3>2, DescriptorsDisjoint
      <4>2. client_ptr_slab'[p] = sock /\ client_slab'[sock].pty_fd = p
        BY <1>5, <3>2
      <4> QED
        BY <4>1, <4>2
    <3>3. CASE p # pty
      <4>1. IsSock(client_ptr_slab[p]) /\ client_slab[client_ptr_slab[p]].pty_fd = p
        BY <1>4, <2>1, <3>3 DEF TerminalsKnown
      <4>2. client_ptr_slab[p] \in Fds /\ client_ptr_slab'[p] = client_ptr_slab[p]
        BY <1>5, <3>1, <3>3, <4>1, Kinds
      <4>3. client_ptr_slab[p] # sock
        BY <1>2, <1>6, <3>3, <4>1, DescriptorsDisjoint DEF Fresh
      <4> QED
        BY <1>5, <4>1, <4>2, <4>3
    <3> QED
      BY <3>2, <3>3
  <2> QED
    BY <1>3, <2>1 DEF TerminalsKnown, IsSock, IsPty
<1>c. Copies'
  BY <1>3, <1>4 DEF Copies
<1>x. Strangers'
  <2>1. ASSUME NEW f \in Fds, IsSock(f), Fresh(f)'
        PROVE  \A s \in Shells : owner[s] # fdtab[f].of
    <3>1. f # sock
      BY <1>2, <1>5, <1>6, <2>1 DEF Fresh
    <3> QED
      BY <1>2, <1>4, <1>5, <2>1, <3>1 DEF Strangers, Fresh
  <2> QED
    BY <1>3, <2>1 DEF Strangers, IsSock
<1>e. EventsOfSessions'
  <2>1. ASSUME NEW f \in Fds
        PROVE  Reported(f)' = Reported(f) /\ Queued(f)' = Queued(f) /\ Held(f)' = Held(f)
    BY <1>1, <1>3, <1>4, Kinds DEF Reported, Queued, Held, TypeOK
  <2> QED
    BY <1>3, <2>1, EventStays DEF EventsOfSessions
<1>f. FlowsInside'
  BY <1>3 DEF FlowsInside
<1> QED
  BY <1>u, <1>s, <1>t, <1>c, <1>x, <1>e, <1>f

------------------------------------------------------------------------------

\* No pointer is followed that leads nowhere, nothing is terminated, and no write
\* raises a signal.
LEMMA NothingGoesWrong ==
  ASSUME TypeOK, EventInv, OneWorker, CalmInv, NEW w \in Workers
  PROVE  /\ ~ LoadGarbage(w) /\ ~ Terminate(w) /\ ~ ClearTerminated(w)
         /\ ~ DieOfSigpipe(w) /\ ~ DieOfSigsegv(w)
<1>1. ~ LoadGarbage(w)
  BY TaskLeadsToSession DEF LoadGarbage
<1>2. ~ Terminate(w) /\ ~ ClearTerminated(w)
  BY DEF Terminate, ClearTerminated, CalmInv, Undisturbed
<1>3. ~ DieOfSigsegv(w)
  <2>1. pc[w] = "established" => /\ client_ptr_slab[job[w]] = client[w].sock_fd
                                 /\ client[w].sock_fd \in Fds
    BY CopyOfSession
  <2> QED
    BY <2>1, Kinds DEF DieOfSigsegv, NULL
<1>4. ~ DieOfSigpipe(w)
  <2>1. \A fd : WriteResults(fd) # {"SIGPIPE"}
    BY CallsSucceed DEF CalmInv
  <2>2. \A fd : IsSock(fd) => WriteResults(fd) # {"error"}
    BY CallsSucceed DEF CalmInv
  <2> QED
    BY <2>1, <2>2 DEF DieOfSigpipe
<1> QED
  BY <1>1, <1>2, <1>3, <1>4

\* It all starts with nothing: no session, no event but those of the server itself.
LEMMA CalmAtFirst ==
  ASSUME Init
  PROVE  CalmInv
<1> USE DEF Init, KernelInit, Pool!Init
<1>1. \A fd \in Fds : fdtab[fd] = Closed /\ ~ IsSock(fd) /\ ~ IsPty(fd)
  BY DEF Closed, IsSock, IsPty
<1>2. \A w \in Workers : pc[w] = "idle" /\ job[w] = 0
  OBVIOUS
<1>3. backlog = <<>> /\ Len(backlog) = 0
  OBVIOUS
<1>u. Undisturbed
  BY <1>2 DEF Undisturbed, ZeroClient
<1>s. SocketsKnown
  BY <1>1 DEF SocketsKnown
<1>t. TerminalsKnown
  BY <1>1 DEF TerminalsKnown
<1>c. Copies
  BY <1>2 DEF Copies
<1>x. Strangers
  <2>1. \A s \in Shells : owner[s] = None
    OBVIOUS
  <2>2. \A c \in Clients : c # None /\ Closed # Sock(c)
    BY KernelAssumption DEF Closed, Sock
  <2> QED
    BY <1>1, <1>3, <2>1, <2>2 DEF Strangers
<1>e. EventsOfSessions
  <2>1. ASSUME NEW fd \in Fds
        PROVE  NoEvent(fd)
    <3>1. reg[fd] = "none"
      BY DescriptorsDisjoint
    <3>2. Armed(fd) = {} /\ Reported(fd) = {} /\ Held(fd) = {}
      BY <1>2, <3>1, Kinds DEF Armed, Reported, Held
    <3>3. tasks = <<>> /\ Len(tasks) = 0
      OBVIOUS
    <3>4. Queued(fd) = {}
      BY <3>3 DEF Queued
    <3> QED
      BY <3>2, <3>4 DEF NoEvent
  <2> QED
    BY <1>1, <2>1 DEF EventsOfSessions, SessionEvent
<1>f. FlowsInside
  BY DEF FlowsInside
<1> QED
  BY <1>u, <1>s, <1>t, <1>c, <1>x, <1>e, <1>f DEF CalmInv

\* Theorem: with one worker and clients and shells that stay, every session is
\* linked, every event is in one place and every copy says what the slab says.
THEOREM CalmKept ==
  ASSUME OneWorker, Calm
  PROVE  Spec => []CalmInv
<1>1. Init => CalmInv
  BY CalmAtFirst
<1>2. TypeOK /\ EventInv /\ CalmInv /\ [Next]_vars => CalmInv'
  <2> SUFFICES ASSUME TypeOK, EventInv, CalmInv, [Next]_vars
               PROVE  CalmInv'
    OBVIOUS
  <2>1. CASE LoopSteps
    BY <2>1, LoopKeepsCalm
  <2>2. CASE (Environment /\ UNCHANGED memory) \/ TimerExpires
    BY <2>2, OutsideKeepsCalm
  <2>3. ASSUME NEW w \in Workers, WorkerSteps(w)
        PROVE  CalmInv'
    <3>1. CASE TakeTask(w) \/ Load(w)
      BY <3>1, TakeTaskKeepsCalm, LoadKeepsCalm
    <3>2. CASE Accept(w) \/ Greet(w)
      BY <3>2, AcceptKeepsCalm, GreetKeepsCalm
    <3>3. CASE CheckSecret(w) \/ Reject(w) \/ HandleClient(w)
      BY <3>3, CheckSecretKeepsCalm, RejectKeepsCalm, HandleClientKeepsCalm
    <3>4. CASE SendOk(w) \/ SendUnwritten(w)
      BY <3>4, CopyLearnsState
    <3>5. CASE ReadData(w) \/ WriteData(w) \/ Store(w)
      BY <3>5, ReadDataKeepsCalm, WriteDataKeepsCalm, StoreKeepsCalm
    <3> QED
      BY <2>3, <3>1, <3>2, <3>3, <3>4, <3>5, NothingGoesWrong DEF WorkerSteps
  <2>4. CASE UNCHANGED vars
    <3>1. Same /\ Undisturbed'
      BY <2>4 DEF vars, kernel, outside, memory, slabs, loop, pool, locals, history,
                  Same, CalmInv, Undisturbed
    <3>2. Unmoved /\ reg' = reg /\ fdtab' = fdtab
      BY <2>4 DEF vars, kernel, memory, loop, pool, locals, Unmoved
    <3> QED
      BY <3>1, <3>2, SessionsStay, EventsUnmoved DEF CalmInv
  <2> QED
    BY <2>1, <2>2, <2>3, <2>4 DEF Next
<1> QED
  BY <1>1, <1>2, Typing, EventsKept, PTL DEF Spec

\* Theorem: no descriptor has two events, so nothing is read or switched on twice.
THEOREM EachEventOnce ==
  ASSUME OneWorker, Calm
  PROVE  Spec => []OneEventEach
<1>1. CalmInv => OneEventEach
  BY SoleEventCounts DEF CalmInv, EventsOfSessions, SessionEvent, OneEventEach
<1> QED
  BY <1>1, CalmKept, PTL

\* Theorem: whenever the worker is idle, the socket of a client past the protocol
\* and the terminal of the shell started for this client lead to each other.
THEOREM SessionsStayLinked ==
  ASSUME OneWorker, Calm
  PROVE  Spec => []SessionsLinked
<1>1. TypeOK /\ CalmInv => SessionsLinked
  BY DEF CalmInv, SocketsKnown, Fresh, Linked, ShellOf, SessionsLinked
<1> QED
  BY <1>1, CalmKept, Typing, PTL

\* Theorem: what one side of a session says reaches its other side only.
THEOREM SessionsIsolated ==
  ASSUME OneWorker, Calm
  PROVE  Spec => []Isolation
<1>1. CalmInv => Isolation
  BY DEF CalmInv, FlowsInside, Isolation
<1> QED
  BY <1>1, CalmKept, PTL

\* Theorem: no signal ends the server.
THEOREM ServerStaysUp ==
  ASSUME OneWorker, Calm
  PROVE  Spec => []StaysUp
<1>1. CalmInv => StaysUp
  BY DEF CalmInv, Undisturbed, StaysUp
<1> QED
  BY <1>1, CalmKept, PTL

\* Theorem: the connection that is closed for its wrong secret has no shell, for
\* any number of clients and sessions, with descriptors reused or not.
THEOREM OnlyWrongSecretsRejected ==
  ASSUME OneWorker, Calm
  PROVE  Spec => RejectsOnlyWrongSecret
<1>1. TypeOK /\ CalmInv /\ [Next]_vars =>
        [\A w \in Workers : Reject(w) =>
           \A s \in Shells : client[w].sock_fd \in Fds =>
             fdtab[client[w].sock_fd] # Sock(owner[s])]_vars
  <2> SUFFICES ASSUME TypeOK, CalmInv, NEW w \in Workers, Reject(w), NEW s \in Shells
               PROVE  fdtab[client[w].sock_fd] # Sock(owner[s])
    OBVIOUS
  <2> DEFINE sock == client[w].sock_fd
  <2>1. pc[w] = "reject" /\ IsSock(sock) /\ Fresh(sock) /\ sock \in Fds
    BY Kinds DEF Reject, CalmInv, Copies, CopyOf
  <2>2. \A v \in Workers : v = w
    BY DEF OneWorker
  <2>3. owner[s] # fdtab[sock].of
    BY <2>1, <2>2 DEF CalmInv, Strangers
  <2> QED
    BY <2>3 DEF Sock
<1> QED
  BY <1>1, CalmKept, Typing, PTL DEF Spec, RejectsOnlyWrongSecret

==============================================================================
