------------------------- MODULE SilentClients_proofs -------------------------
(***************************************************************************)
(* Proof that timers disconnect the clients they were set for, for any     *)
(* number of workers and of clients, as long as all clients are silent.    *)
(***************************************************************************)
EXTENDS Server_proofs

\* Clients connect, and that is all they do: the only tasks are those of the
\* listening socket.
Silent == Happens \cap {"secret", "wrong_secret", "close", "reset", "exit"} = {}

NothingSaid ==
    /\ \A c \in Clients : /\ peer[c] \in {"idle", "open"}
                          /\ inbox[c] = <<>> /\ lines[c] = 0
    /\ \A s \in Shells : shell[s] = "none"
    /\ \A fd \in Fds : ~ IsPty(fd)
    /\ \A e \in evlist : e.fd \notin Fds /\ ~ e.hup
    /\ \A i \in 1 .. Len(tasks) : tasks[i] = listening_sock
    /\ \A w \in Workers :
        /\ job[w] \in {0, listening_sock}
        /\ pc[w] \in {"idle", "load", "greet"}
    /\ \A t \in Workers \cup {Main} : killing[t] = NULL

\* A socket is registered and in its slab element, which stays as it was made.
InTheSlab ==
    \A fd \in Fds : IsSock(fd) =>
        /\ reg[fd] # "none"
        /\ client_ptr_slab[fd] = fd
        /\ client_slab[fd].state = "new"

\* A timer is open as long as the connection it was set for, the only one that
\* timer_slab names under it; a connection has one timer, or setup_timer is
\* still to come.
Paired ==
    /\ \A t \in Fds : IsTimer(t) =>
        /\ IsSock(timer_slab[t])
        /\ fdtab[timer_slab[t]] = Sock(fdtab[t].of)
    /\ \A t, u \in Fds : IsTimer(t) /\ IsTimer(u) /\ timer_slab[t] = timer_slab[u] => t = u
    /\ \A w \in Workers : pc[w] = "greet" =>
        /\ IsSock(client_fd[w])
        /\ \A t \in Fds : IsTimer(t) => timer_slab[t] # client_fd[w]

\* What is running, or has expired, is an open timer.
OnTime ==
    /\ \A t \in expired \cup time_evlist : IsTimer(t)
    /\ \A pair \in running_timers : IsTimer(pair[1]) /\ IsTimer(pair[2])

SilentInv == NothingSaid /\ InTheSlab /\ Paired /\ OnTime

------------------------------------------------------------------------------

\* A silent client never makes its descriptor ready.
LEMMA NobodyReady ==
  ASSUME TypeOK, SilentInv
  PROVE  /\ Ready \cap Fds = {}
         /\ \A fd \in AllFds : ~ HungUp(fd)
<1>1. ASSUME NEW fd \in AllFds
      PROVE  ~ HungUp(fd) /\ (fd \in Fds => ~ HasInput(fd))
  <2>1. IsSock(fd) => fdtab[fd].of \in Clients
    BY ObjectKinds DEF TypeOK
  <2>2. ~ IsPty(fd)
    BY Kinds DEF SilentInv, NothingSaid
  <2>3. ~ HungUp(fd)
    BY <2>1, <2>2 DEF HungUp, SilentInv, NothingSaid
  <2>4. fd \in Fds => ~ HasInput(fd)
    BY <2>1, <2>2, Kinds DEF HasInput, SilentInv, NothingSaid
  <2> QED
    BY <2>3, <2>4
<1> QED
  BY <1>1 DEF Ready

\* An expired timer is closed with the connection it was set for, and no other.
LEMMA TimerClosesPair ==
  ASSUME TypeOK, SilentInv, NEW t \in time_evlist, HandleTimer(t)
  PROVE  /\ CloseAll({TimerClient(t), t})
         /\ time_evlist' = time_evlist \ {t}
         /\ IsTimer(t) /\ t \in Fds
         /\ IsSock(TimerClient(t)) /\ fdtab[TimerClient(t)] = Sock(fdtab[t].of)
<1>1. IsTimer(t) /\ t \in Fds
  BY Kinds DEF SilentInv, OnTime
<1>2. IsSock(TimerClient(t)) /\ fdtab[TimerClient(t)] = Sock(fdtab[t].of)
  BY <1>1 DEF SilentInv, Paired, TimerClient
<1>3. StillNew(t) /\ Registered(TimerClient(t))
  BY <1>2, Kinds DEF SilentInv, InTheSlab, StillNew, Registered, NULL
<1> QED
  BY <1>1, <1>2, <1>3 DEF HandleTimer

\* Two workers are never both in accept_new_client.
LEMMA OneGreets ==
  ASSUME EventInv, NEW v \in Workers, NEW w \in Workers,
         job[v] = listening_sock, job[w] = listening_sock
  PROVE  v = w
<1>1. v \in Held(listening_sock) /\ w \in Held(listening_sock)
  BY DEF Held, EventInv, StandingApart
<1> QED
  BY <1>1 DEF EventInv, SoleEvent

\* The event loop.
LEMMA LoopKeepsSilent ==
  ASSUME TypeOK, SilentInv, LoopSteps
  PROVE  SilentInv'
<1> USE DEF SilentInv, kernel, outside, slabs, pool, locals, loop
<1>1. CASE EpollWait
  <2>1. \A e \in evlist' : e.fd \notin Fds /\ ~ e.hup
    BY <1>1, NobodyReady DEF EpollWait, Ready
  <2>2. \A fd \in Fds : reg'[fd] = reg[fd]
    BY <1>1, NobodyReady DEF EpollWait, AllFds
  <2>3. UNCHANGED <<fdtab, running_timers, expired, outside, shell, slabs, time_evlist, pool,
                   locals>>
    BY <1>1 DEF EpollWait
  <2>n. NothingSaid'
    BY <2>1, <2>3 DEF NothingSaid, IsPty
  <2>s. InTheSlab'
    BY <2>2, <2>3 DEF InTheSlab, IsSock
  <2>p. Paired'
    BY <2>3 DEF Paired, IsSock, IsTimer
  <2>o. OnTime'
    BY <2>3 DEF OnTime, IsTimer
  <2> QED
    BY <2>n, <2>s, <2>p, <2>o
<1>2. CASE TimersDone
  <2>1. \A fd \in Fds : reg'[fd] = reg[fd]
    BY <1>2, Kinds DEF TimersDone, Rearmed, TypeOK, KernelTypeOK, AllFds
  <2>2. UNCHANGED <<fdtab, running_timers, expired, outside, shell, slabs, evlist, time_evlist,
                   pool, locals>>
    BY <1>2 DEF TimersDone
  <2>n. NothingSaid'
    BY <2>2 DEF NothingSaid, IsPty
  <2>s. InTheSlab'
    BY <2>1, <2>2 DEF InTheSlab, IsSock
  <2>p. Paired'
    BY <2>2 DEF Paired, IsSock, IsTimer
  <2>o. OnTime'
    BY <2>2 DEF OnTime, IsTimer
  <2> QED
    BY <2>n, <2>s, <2>p, <2>o
<1>3. ASSUME NEW e \in evlist, AddTask(e)
      PROVE  SilentInv'
  <2>1. e.fd = listening_sock
    BY <1>3 DEF AddTask, NothingSaid, TypeOK, AllFds
  <2>2. \A i \in 1 .. Len(tasks') : tasks'[i] = listening_sock
    <3>1. tasks \in Seq(AllFds) /\ tasks' = Append(tasks, listening_sock)
      BY <1>3, <2>1 DEF AddTask, Pool!Add, TypeOK
    <3> QED
      BY <3>1 DEF NothingSaid, AllFds
  <2>3. /\ UNCHANGED <<kernel, outside, shell, slabs, time_evlist, locals, job>>
        /\ evlist' \subseteq evlist
    BY <1>3 DEF AddTask, Pool!Add
  <2>n. NothingSaid'
    BY <2>2, <2>3 DEF NothingSaid, IsPty
  <2>s. InTheSlab'
    BY <2>3 DEF InTheSlab, IsSock
  <2>p. Paired'
    BY <2>3 DEF Paired, IsSock, IsTimer
  <2>o. OnTime'
    BY <2>3 DEF OnTime, IsTimer
  <2> QED
    BY <2>n, <2>s, <2>p, <2>o
<1>4. ASSUME NEW e \in evlist, TimerEvent(e)
      PROVE  SilentInv'
  <2>1. /\ UNCHANGED <<fdtab, reg, running_timers, outside, shell, slabs, pool, locals>>
        /\ evlist' \subseteq evlist /\ time_evlist' = expired /\ expired' = {}
    BY <1>4 DEF TimerEvent
  <2>n. NothingSaid'
    BY <2>1 DEF NothingSaid, IsPty
  <2>s. InTheSlab'
    BY <2>1 DEF InTheSlab, IsSock
  <2>p. Paired'
    BY <2>1 DEF Paired, IsSock, IsTimer
  <2>o. OnTime'
    BY <2>1 DEF OnTime, IsTimer
  <2> QED
    BY <2>n, <2>s, <2>p, <2>o
<1>5. ASSUME NEW t \in time_evlist, HandleTimer(t)
      PROVE  SilentInv'
  <2> DEFINE fd == TimerClient(t)
  <2>1. /\ CloseAll({fd, t}) /\ time_evlist' = time_evlist \ {t}
        /\ IsTimer(t) /\ t \in Fds /\ IsSock(fd) /\ fd \in Fds /\ fd # t
    BY <1>5, TimerClosesPair, Kinds
  <2>2. UNCHANGED <<outside, slabs, evlist, pool, locals>>
    BY <1>5 DEF HandleTimer
  <2>3. /\ \A f \in Fds : fdtab'[f] = IF f \in {fd, t} THEN Closed ELSE fdtab[f]
        /\ \A f \in Fds : f \notin {fd, t} => reg'[f] = reg[f]
        /\ expired' = expired \ {fd, t}
        /\ running_timers' = Without({fd, t})
    BY <2>1 DEF CloseAll, AllFds
  <2>4. \A f \in Fds :
          /\ fdtab'[f].kind = "sock" <=> fdtab[f].kind = "sock" /\ f # fd
          /\ fdtab'[f].kind = "timer" <=> fdtab[f].kind = "timer" /\ f # t
          /\ fdtab'[f].kind = "pty" => fdtab[f].kind = "pty"
    BY <2>1, <2>3 DEF IsSock, IsTimer, Closed
  <2>5. \A s \in Shells : shell'[s] = shell[s]
    BY <2>1 DEF CloseAll, NothingSaid, IsPty, Pty
  <2>n. NothingSaid'
    BY <2>2, <2>4, <2>5 DEF NothingSaid, IsPty
  <2>s. InTheSlab'
    BY <2>1, <2>2, <2>3 DEF InTheSlab, IsSock, Closed
  <2>p. Paired'
    <3>1. ASSUME NEW u \in Fds, IsTimer(u)'
          PROVE  /\ IsSock(timer_slab[u])'
                 /\ fdtab'[timer_slab'[u]] = Sock(fdtab'[u].of)
      <4>1. IsTimer(u) /\ u # t /\ IsSock(timer_slab[u]) /\ timer_slab[u] \in Fds
        BY <3>1, <2>4, Kinds DEF Paired, IsTimer
      <4>2. timer_slab[u] # fd /\ timer_slab[u] # t /\ u # fd
        BY <2>1, <4>1, Kinds DEF Paired, TimerClient
      <4>3. fdtab'[timer_slab[u]] = fdtab[timer_slab[u]] /\ fdtab'[u] = fdtab[u]
        BY <2>3, <4>1, <4>2
      <4> QED
        BY <2>2, <4>1, <4>2, <4>3 DEF Paired, IsSock
    <3>2. \A u, v \in Fds :
             IsTimer(u)' /\ IsTimer(v)' /\ timer_slab'[u] = timer_slab'[v] => u = v
      BY <2>2, <2>4 DEF Paired, IsTimer
    <3>3. ASSUME NEW w \in Workers, pc'[w] = "greet"
          PROVE  /\ IsSock(client_fd[w])'
                 /\ \A u \in Fds : IsTimer(u)' => timer_slab'[u] # client_fd'[w]
      <4>1. IsSock(client_fd[w]) /\ client_fd[w] \in Fds /\ client_fd[w] # fd
        BY <2>1, <2>2, <3>3, Kinds DEF Paired, TimerClient
      <4> QED
        BY <2>2, <2>4, <3>3, <4>1 DEF Paired, IsSock, IsTimer
    <3> QED
      BY <3>1, <3>2, <3>3 DEF Paired
  <2>o. OnTime'
    <3>1. \A u \in expired' \cup time_evlist' : u \in Fds /\ u # t /\ IsTimer(u)
      BY <2>1, <2>3, Kinds DEF OnTime
    <3>2. ASSUME NEW pair \in running_timers'
          PROVE  /\ pair[1] \in Fds /\ pair[1] # t /\ IsTimer(pair[1])
                 /\ pair[2] \in Fds /\ pair[2] # t /\ IsTimer(pair[2])
      BY <2>3 DEF OnTime, Without
    <3> QED
      BY <2>4, <3>1, <3>2 DEF OnTime, IsTimer
  <2> QED
    BY <2>n, <2>s, <2>p, <2>o
<1>6. ~ ClearHungUp /\ \A e \in evlist : ~ HangUp(e)
  BY DEF ClearHungUp, HangUp, NothingSaid
<1> QED
  BY <1>1, <1>2, <1>3, <1>4, <1>5, <1>6 DEF LoopSteps

\* accept_new_client: the lowest free descriptor is no socket's, so no timer
\* names it.
LEMMA AcceptKeepsSilent ==
  ASSUME TypeOK, EventInv, SilentInv, NEW w \in Workers, Accept(w)
  PROVE  SilentInv'
<1> USE DEF SilentInv
<1>1. PICK fd \in Fds :
        /\ fdtab[fd] = Closed
        /\ fdtab' = [fdtab EXCEPT ![fd] = Sock(Head(backlog))]
        /\ client_slab' = [client_slab EXCEPT ![fd] =
                             [sock_fd |-> fd, pty_fd |-> -1, state |-> "new"]]
        /\ client_ptr_slab' = SetPtrs({fd}, fd)
        /\ reg' = [reg EXCEPT ![fd] = "armed"]
        /\ client_fd' = [client_fd EXCEPT ![w] = fd]
  BY DEF Accept, IsLowestFree
<1>2. /\ pc' = [pc EXCEPT ![w] = "greet"] /\ job[w] = listening_sock
      /\ UNCHANGED <<running_timers, expired, peer, inbox, lines, shell, timer_slab,
                     evlist, time_evlist, tasks, job, killing>>
  BY DEF Accept, Goto, loop, pool
<1>3. \A f \in Fds :
        /\ fdtab'[f].kind = "sock" <=> fdtab[f].kind = "sock" \/ f = fd
        /\ fdtab'[f].kind = "timer" <=> fdtab[f].kind = "timer"
        /\ fdtab'[f].kind = "pty" <=> fdtab[f].kind = "pty"
        /\ f # fd => fdtab'[f] = fdtab[f] /\ reg'[f] = reg[f]
                     /\ client_slab'[f] = client_slab[f]
                     /\ client_ptr_slab'[f] = client_ptr_slab[f]
  BY <1>1 DEF Sock, Closed, TypeOK, KernelTypeOK, AllFds, SetPtrs
<1>4. /\ reg'[fd] = "armed" /\ client_ptr_slab'[fd] = fd /\ client_slab'[fd].state = "new"
      /\ client_fd'[w] = fd /\ pc'[w] = "greet"
      /\ \A v \in Workers \ {w} : pc'[v] = pc[v] /\ client_fd'[v] = client_fd[v]
  BY <1>1, <1>2 DEF TypeOK, KernelTypeOK, AllFds, SetPtrs
<1>5. \A v \in Workers \ {w} : pc[v] # "greet"
  BY <1>2, OneGreets DEF EventInv, StandingApart
<1>n. NothingSaid'
  BY <1>2, <1>3, <1>4 DEF NothingSaid, IsPty
<1>s. InTheSlab'
  BY <1>3, <1>4 DEF InTheSlab, IsSock
<1>p. Paired'
  <2>1. \A t \in Fds : IsTimer(t) => timer_slab[t] # fd /\ timer_slab[t] \in Fds
    BY <1>1, Kinds DEF Paired
  <2>2. ASSUME NEW t \in Fds, IsTimer(t)'
        PROVE  /\ IsSock(timer_slab[t])'
               /\ fdtab'[timer_slab'[t]] = Sock(fdtab'[t].of)
    <3>1. IsTimer(t) /\ t # fd
      BY <1>1, <1>3, <2>2, Kinds DEF IsTimer
    <3> QED
      BY <1>2, <1>3, <2>1, <3>1 DEF Paired, IsSock
  <2>3. \A t, u \in Fds :
           IsTimer(t)' /\ IsTimer(u)' /\ timer_slab'[t] = timer_slab'[u] => t = u
    BY <1>2, <1>3 DEF Paired, IsTimer
  <2>4. ASSUME NEW v \in Workers, pc'[v] = "greet"
        PROVE  /\ IsSock(client_fd[v])'
               /\ \A t \in Fds : IsTimer(t)' => timer_slab'[t] # client_fd'[v]
    <3>1. v = w
      BY <1>4, <1>5, <2>4
    <3> QED
      BY <1>2, <1>3, <1>4, <2>1, <3>1 DEF IsSock, IsTimer
  <2> QED
    BY <2>2, <2>3, <2>4 DEF Paired
<1>o. OnTime'
  BY <1>2, <1>3 DEF OnTime, IsTimer
<1> QED
  BY <1>n, <1>s, <1>p, <1>o

\* setup_timer: the connection gets the one timer it was waiting for.
LEMMA GreetKeepsSilent ==
  ASSUME TypeOK, EventInv, SilentInv, NEW w \in Workers, Greet(w)
  PROVE  SilentInv'
<1> USE DEF SilentInv
<1> DEFINE sock == client_fd[w]
<1>0. /\ pc[w] = "greet" /\ IsSock(sock) /\ sock \in Fds
      /\ \A t \in Fds : IsTimer(t) => timer_slab[t] # sock
  BY Kinds DEF Greet, Paired
<1>1. PICK fd \in Fds, result \in WriteResults(sock) :
        /\ fdtab[fd] = Closed
        /\ fdtab' = [fdtab EXCEPT ![fd] = Timer(fdtab[sock].of)]
        /\ timer_slab' = [timer_slab EXCEPT ![fd] = sock]
        /\ running_timers' = WithNew(fd)
        /\ peer' = PeerAfter(sock, result)
  BY <1>0 DEF Greet, IsLowestFree
<1>2. /\ pc' = [pc EXCEPT ![w] = "idle"] /\ job' = [job EXCEPT ![w] = 0]
      /\ client_fd' = [client_fd EXCEPT ![w] = 0]
      /\ reg' = Rearmed(reg, listening_sock)
      /\ UNCHANGED <<expired, inbox, lines, shell, client_slab, client_ptr_slab, evlist,
                     time_evlist, tasks, killing>>
  BY DEF Greet, Goto, Pool!Finish, loop
<1>3. \A f \in Fds :
        /\ fdtab'[f].kind = "sock" <=> fdtab[f].kind = "sock"
        /\ fdtab'[f].kind = "timer" <=> fdtab[f].kind = "timer" \/ f = fd
        /\ fdtab'[f].kind = "pty" <=> fdtab[f].kind = "pty"
        /\ f # fd => fdtab'[f] = fdtab[f] /\ timer_slab'[f] = timer_slab[f]
        /\ reg'[f] = reg[f]
  BY <1>1, <1>2, Kinds DEF Timer, Closed, TypeOK, KernelTypeOK, AllFds, Rearmed
<1>4. /\ fdtab'[fd].of = fdtab[sock].of /\ timer_slab'[fd] = sock /\ sock # fd
      /\ fdtab'[sock] = fdtab[sock] /\ fdtab[sock] = Sock(fdtab[sock].of)
  <2>1. sock # fd
    BY <1>0, <1>1, Kinds
  <2>2. fdtab[sock] = Sock(fdtab[sock].of)
    BY <1>0, ObjectKinds DEF TypeOK
  <2> QED
    BY <1>0, <1>1, <1>3, <2>1, <2>2 DEF TypeOK, KernelTypeOK, Timer
<1>5. \A v \in Workers : pc'[v] # "greet"
  <2>1. \A v \in Workers \ {w} : pc[v] # "greet"
    BY <1>0, OneGreets DEF EventInv, StandingApart
  <2> QED
    BY <1>2, <2>1 DEF TypeOK
<1>n. NothingSaid'
  <2>1. UNCHANGED peer
    <3>1. fdtab[sock].of \in Clients
      BY <1>0, ObjectKinds DEF TypeOK
    <3> QED
      BY <1>1, <3>1 DEF PeerAfter, NothingSaid
  <2>2. \A v \in Workers : /\ job'[v] \in {0, listening_sock}
                           /\ pc'[v] \in {"idle", "load", "greet"}
    BY <1>2 DEF NothingSaid, TypeOK
  <2> QED
    BY <1>2, <1>3, <2>1, <2>2 DEF NothingSaid, IsPty
<1>s. InTheSlab'
  BY <1>2, <1>3 DEF InTheSlab, IsSock
<1>p. Paired'
  <2>2. ASSUME NEW t \in Fds, IsTimer(t)'
        PROVE  /\ IsSock(timer_slab[t])'
               /\ fdtab'[timer_slab'[t]] = Sock(fdtab'[t].of)
    <3>1. CASE t = fd
      BY <1>0, <1>3, <1>4, <3>1 DEF IsSock
    <3>2. CASE t # fd
      <4>1. /\ IsTimer(t) /\ IsSock(timer_slab[t]) /\ timer_slab[t] \in Fds
            /\ timer_slab[t] # fd
        BY <1>1, <1>3, <2>2, <3>2, Kinds DEF Paired, IsTimer
      <4> QED
        BY <1>3, <3>2, <4>1 DEF Paired, IsSock
    <3> QED
      BY <3>1, <3>2
  <2>3. ASSUME NEW t \in Fds, NEW u \in Fds, IsTimer(t)', IsTimer(u)',
               timer_slab'[t] = timer_slab'[u]
        PROVE  t = u
    BY <1>0, <1>3, <1>4, <2>3 DEF Paired, IsTimer
  <2> QED
    BY <1>5, <2>2, <2>3 DEF Paired
<1>o. OnTime'
  <2>1. \A t \in Fds : IsTimer(t) \/ t = fd => IsTimer(t)'
    BY <1>3 DEF IsTimer
  <2>2. \A t \in expired' \cup time_evlist' : t \in Fds /\ IsTimer(t)
    BY <1>2, Kinds DEF OnTime
  <2>3. ASSUME NEW pair \in running_timers'
        PROVE  /\ pair[1] \in Fds /\ (IsTimer(pair[1]) \/ pair[1] = fd)
               /\ pair[2] \in Fds /\ (IsTimer(pair[2]) \/ pair[2] = fd)
    <3>1. CASE pair \in running_timers
      BY <3>1, Kinds DEF OnTime
    <3>2. CASE pair \notin running_timers
      <4>1. PICK u \in {v \in Fds : Runs(v)} \cup {fd} : pair = <<u, fd>>
        BY <1>1, <3>2 DEF WithNew
      <4>2. Runs(u) => IsTimer(u)
        BY DEF Runs, OnTime
      <4> QED
        BY <4>1, <4>2
    <3> QED
      BY <3>1, <3>2
  <2> QED
    BY <2>1, <2>2, <2>3 DEF OnTime
<1> QED
  BY <1>n, <1>s, <1>p, <1>o

\* The other steps of a worker.
LEMMA WorkerKeepsSilent ==
  ASSUME TypeOK, EventInv, SilentInv, NEW w \in Workers, WorkerSteps(w)
  PROVE  SilentInv'
<1> USE DEF SilentInv, kernel, outside, slabs, loop, pool, locals
<1>1. CASE TakeTask(w)
  <2>1. /\ tasks # <<>> /\ tasks \in Seq(AllFds) /\ tasks' = Tail(tasks)
        /\ job' = [job EXCEPT ![w] = Head(tasks)] /\ pc' = [pc EXCEPT ![w] = "load"]
        /\ UNCHANGED <<kernel, outside, shell, slabs, loop, client, client_fd, killing>>
    BY <1>1 DEF TakeTask, Pool!Take, Goto, TypeOK
  <2>2. /\ Head(tasks) = listening_sock
        /\ \A i \in 1 .. Len(tasks') : tasks'[i] = listening_sock
    <3>1. /\ Len(tasks') = Len(tasks) - 1 /\ Len(tasks) \in Nat /\ Len(tasks) > 0
          /\ \A i \in 1 .. Len(tasks) - 1 : tasks'[i] = tasks[i + 1]
          /\ Head(tasks) = tasks[1]
      BY <2>1, HeadTailProperties, EmptySeq, LenProperties
    <3> QED
      BY <3>1 DEF NothingSaid
  <2>3. \A v \in Workers : /\ job'[v] \in {0, listening_sock}
                           /\ pc'[v] \in {"idle", "load", "greet"}
                           /\ pc'[v] = "greet" => pc[v] = "greet"
    BY <2>1, <2>2 DEF NothingSaid, TypeOK
  <2>n. NothingSaid'
    BY <2>1, <2>2, <2>3 DEF NothingSaid, IsPty
  <2>s. InTheSlab'
    BY <2>1 DEF InTheSlab, IsSock
  <2>p. Paired'
    BY <2>1, <2>3 DEF Paired, IsSock, IsTimer
  <2>o. OnTime'
    BY <2>1 DEF OnTime, IsTimer
  <2> QED
    BY <2>n, <2>s, <2>p, <2>o
<1>2. ~ Load(w) /\ ~ LoadGarbage(w)
  <2>1. pc[w] = "load" => job[w] = listening_sock
    BY DEF NothingSaid, TypeOK
  <2>2. client_ptr_slab[listening_sock] = NULL
    BY DEF EventInv, StandingApart, Standing
  <2> QED
    BY <2>1, <2>2, Kinds DEF Load, LoadGarbage, Slot, NULL
<1>3. CASE DieOfSigpipe(w) \/ DieOfSigsegv(w)
  <2>1. UNCHANGED <<kernel, outside, shell, slabs, loop, pool, locals>>
    BY <1>3 DEF DieOfSigpipe, DieOfSigsegv, Die
  <2>n. NothingSaid'
    BY <2>1 DEF NothingSaid, IsPty
  <2>s. InTheSlab'
    BY <2>1 DEF InTheSlab, IsSock
  <2>p. Paired'
    BY <2>1 DEF Paired, IsSock, IsTimer
  <2>o. OnTime'
    BY <2>1 DEF OnTime, IsTimer
  <2> QED
    BY <2>n, <2>s, <2>p, <2>o
<1>4. pc[w] \in {"idle", "load", "greet"} /\ killing[w] = NULL
  BY DEF NothingSaid
<1> QED
  BY <1>1, <1>2, <1>3, <1>4, AcceptKeepsSilent, GreetKeepsSilent
  DEF WorkerSteps, CheckSecret, Reject, HandleClient, SendOk, ReadData, WriteData,
      SendUnwritten, Terminate, ClearTerminated, Store

\* Clients that connect, and time that passes.
LEMMA OutsideKeepsSilent ==
  ASSUME Silent, TypeOK, SilentInv, (Environment /\ UNCHANGED memory) \/ TimerExpires
  PROVE  SilentInv'
<1> USE DEF SilentInv, kernel, outside
<1>1. /\ UNCHANGED <<slabs, loop, pool, locals>>
      /\ UNCHANGED <<client_slab, client_ptr_slab, timer_slab, evlist, time_evlist>>
      /\ UNCHANGED <<tasks, job, pc, client_fd, killing>>
  BY DEF memory, TimerExpires, slabs, loop, pool, locals
<1>2. CASE Environment
  <2>1. \A c \in Clients : \A m \in {"secret", "wrong_secret", "line"} : ~ Send(c, m)
    BY DEF Send, NothingSaid, Silent
  <2>2. \A c \in Clients : ~ Leave(c, "close", "closed") /\ ~ Leave(c, "reset", "reset")
    BY DEF Leave, Silent
  <2>3. \A s \in Shells : ~ PrintOutput(s) /\ ~ ExitShell(s)
    BY DEF PrintOutput, ExitShell, NothingSaid
  <2>4. PICK c \in Clients : Connect(c)
    BY <1>2, <2>1, <2>2, <2>3 DEF Environment
  <2>5. /\ UNCHANGED <<fdtab, reg, running_timers, expired, inbox, lines, shell>>
        /\ \A d \in Clients : peer'[d] \in {"idle", "open"}
    BY <2>4 DEF Connect, NothingSaid, TypeOK, KernelTypeOK
  <2>n. NothingSaid'
    BY <1>1, <2>5 DEF NothingSaid, IsPty
  <2>s. InTheSlab'
    BY <1>1, <2>5 DEF InTheSlab, IsSock
  <2>p. Paired'
    BY <1>1, <2>5 DEF Paired, IsSock, IsTimer
  <2>o. OnTime'
    BY <1>1, <2>5 DEF OnTime, IsTimer
  <2> QED
    BY <2>n, <2>s, <2>p, <2>o
<1>3. CASE TimerExpires
  <2>1. /\ UNCHANGED <<fdtab, reg, outside, shell>>
        /\ \E t \in Fds : Runs(t) /\ expired' = expired \cup {t}
        /\ running_timers' \subseteq running_timers
    BY <1>3 DEF TimerExpires, Expire, Without
  <2>n. NothingSaid'
    BY <1>1, <2>1 DEF NothingSaid, IsPty
  <2>s. InTheSlab'
    BY <1>1, <2>1 DEF InTheSlab, IsSock
  <2>p. Paired'
    BY <1>1, <2>1 DEF Paired, IsSock, IsTimer
  <2>o. OnTime'
    BY <1>1, <2>1 DEF OnTime, IsTimer, Runs
  <2> QED
    BY <2>n, <2>s, <2>p, <2>o
<1> QED
  BY <1>2, <1>3

\* Theorem: as long as clients connect and stay silent, handle_timer finds under
\* an expired timer the connection setup_timer made it for, still open, and closes
\* it with the timer and nothing else.
THEOREM TimersHitTheirClients ==
  ASSUME Silent
  PROVE  Spec => TimerHitsItsClient
<1>1. Init => SilentInv
  BY Kinds DEF Init, KernelInit, Pool!Init, SilentInv, NothingSaid, InTheSlab, Paired,
     OnTime,
     IsSock, IsTimer, IsPty, Closed
<1>2. TypeOK /\ EventInv /\ SilentInv /\ [Next]_vars => SilentInv'
  <2>1. TypeOK /\ EventInv /\ SilentInv /\ Next => SilentInv'
    BY LoopKeepsSilent, WorkerKeepsSilent, OutsideKeepsSilent DEF Next
  <2>2. SilentInv /\ UNCHANGED vars => SilentInv'
    <3> SUFFICES ASSUME SilentInv, UNCHANGED vars PROVE SilentInv'
      OBVIOUS
    <3> USE DEF SilentInv, vars, memory, kernel, outside, slabs, loop, pool, locals
    <3>n. NothingSaid'
      BY DEF NothingSaid, IsPty
    <3>s. InTheSlab'
      BY DEF InTheSlab, IsSock
    <3>p. Paired'
      BY DEF Paired, IsSock, IsTimer
    <3>o. OnTime'
      BY DEF OnTime, IsTimer
    <3> QED
      BY <3>n, <3>s, <3>p, <3>o
  <2> QED
    BY <2>1, <2>2
<1>3. ASSUME TypeOK, SilentInv
      PROVE  \A t \in time_evlist, fd \in Fds :
                HandleTimer(t) /\ IsSock(fd) /\ fdtab'[fd] = Closed =>
                    fdtab[fd] = Sock(fdtab[t].of)
  <2> SUFFICES ASSUME NEW t \in time_evlist, NEW fd \in Fds,
                      HandleTimer(t), IsSock(fd), fdtab'[fd] = Closed
               PROVE  fdtab[fd] = Sock(fdtab[t].of)
    OBVIOUS
  <2>1. CloseAll({TimerClient(t), t}) /\ IsTimer(t)
        /\ fdtab[TimerClient(t)] = Sock(fdtab[t].of)
    BY <1>3, TimerClosesPair
  <2>2. fd # t /\ fdtab[fd] # Closed
    BY <2>1, Kinds
  <2>3. fd \in {TimerClient(t), t}
    BY <2>1, <2>2 DEF CloseAll
  <2> QED
    BY <2>1, <2>2, <2>3
<1>4. TypeOK /\ SilentInv /\ [Next]_vars =>
        [\A t \in time_evlist, fd \in Fds :
            HandleTimer(t) /\ IsSock(fd) /\ fdtab'[fd] = Closed =>
                fdtab[fd] = Sock(fdtab[t].of)]_vars
  BY <1>3
<1> QED
  BY <1>1, <1>2, <1>4, Typing, EventsKept, PTL DEF Spec, TimerHitsItsClient

==============================================================================
