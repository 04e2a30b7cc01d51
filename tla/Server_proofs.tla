----------------------------- MODULE Server_proofs -----------------------------
(***************************************************************************)
(* Proofs about Server for any number of workers, clients and descriptors, *)
(* and for every event of the environment.                                 *)
(***************************************************************************)
EXTENDS Server, FiniteSetTheorems, SequenceTheorems, TLAPS

------------------------------------------------------------------------------
(* What the calls of Kernel keep well typed. *)

\* The server's own descriptors are none of a client's.
LEMMA DescriptorsDisjoint ==
  /\ Fds \subseteq Int /\ AllFds \subseteq Int /\ Fds \subseteq AllFds
  /\ NULL \notin AllFds /\ -1 \notin AllFds
  /\ listening_sock \in AllFds \ Fds
  /\ timer_epfd \in AllFds \ Fds
  /\ listening_sock # timer_epfd
  BY KernelAssumption DEF Fds, AllFds, listening_sock, timer_epfd, NULL

\* close() of several descriptors, and what the kernel drops with them, keeps the
\* descriptor table, the registrations and the timers in their types.
LEMMA CloseAllType ==
  ASSUME KernelTypeOK, NEW F, CloseAll(F)
  PROVE  /\ fdtab' \in [Fds -> Objects]
         /\ reg' \in [AllFds -> {"none", "armed", "spent"}]
         /\ running_timers' \subseteq Fds \X Fds
         /\ expired' \subseteq Fds
         /\ shell' \in [Shells -> {"none", "running", "printed", "exited"}]
  BY DEF KernelTypeOK, CloseAll, Without, Objects

\* EPOLL_CTL_MOD gives a registration.
LEMMA RearmedType ==
  ASSUME KernelTypeOK, NEW fd
  PROVE  Rearmed(reg, fd) \in [AllFds -> {"none", "armed", "spent"}]
  BY DEF KernelTypeOK, Rearmed

\* A descriptor is a socket or a terminal, never both, and says whose it is.
LEMMA ObjectKinds ==
  ASSUME KernelTypeOK, NEW fd
  PROVE  /\ IsSock(fd) => fd \in Fds /\ fdtab[fd].of \in Clients
                                     /\ fdtab[fd] = Sock(fdtab[fd].of)
         /\ IsPty(fd) => fd \in Fds /\ fdtab[fd].of \in Shells
                                    /\ fdtab[fd] = Pty(fdtab[fd].of)
         /\ ~ (IsSock(fd) /\ IsPty(fd))
  BY SMTT(20) DEF KernelTypeOK, IsSock, IsPty, Objects, Closed, Sock, Pty, Timer

\* A write leaves the peer in one of its states.
LEMMA PeerAfterType ==
  ASSUME KernelTypeOK, NEW fd, NEW result
  PROVE  PeerAfter(fd, result) \in
           [Clients -> {"idle", "open", "closed", "reset", "broken"}]
  BY ObjectKinds DEF KernelTypeOK, PeerAfter

\* read() empties what was typed, or what the shell printed.
LEMMA DrainType ==
  ASSUME KernelTypeOK, NEW fd, Drain(fd)
  PROVE  /\ inbox' \in [Clients -> Seq({"secret", "wrong_secret", "line"})]
         /\ shell' \in [Shells -> {"none", "running", "printed", "exited"}]
  BY ObjectKinds DEF KernelTypeOK, Drain

\* kill_client up to the closes: the descriptors, the timer and the pointer it keeps.
LEMMA CloseClientType ==
  ASSUME TypeOK, NEW t \in Workers \cup {Main}, NEW fd, CloseClient(t, fd)
  PROVE  /\ fdtab' \in [Fds -> Objects]
         /\ reg' \in [AllFds -> {"none", "armed", "spent"}]
         /\ running_timers' \subseteq Fds \X Fds
         /\ expired' \subseteq Fds
         /\ shell' \in [Shells -> {"none", "running", "printed", "exited"}]
         /\ \E slot \in Fds \cup {NULL} : killing' = [killing EXCEPT ![t] = slot]
<1> DEFINE slot == IF fd \in AllFds THEN client_ptr_slab[fd] ELSE NULL
           sock == client_slab[slot].sock_fd
           pty  == client_slab[slot].pty_fd
<1>1. KernelTypeOK /\ slot \in Fds \cup {NULL}
  BY DEF TypeOK
<1>2. CASE slot = NULL \/ ~ Registered(sock)
  <2>1. UNCHANGED <<kernel, shell, killing>>
    BY <1>2 DEF CloseClient
  <2>2. killing' = [killing EXCEPT ![t] = killing[t]] /\ killing[t] \in Fds \cup {NULL}
    BY <2>1 DEF TypeOK
  <2> QED
    BY <1>1, <2>1, <2>2 DEF kernel, KernelTypeOK
<1>3. CASE slot # NULL /\ Registered(sock) /\ ~ Registered(pty)
  <2>1. /\ reg' = [reg EXCEPT ![sock] = "none"]
        /\ UNCHANGED <<fdtab, running_timers, expired, shell, killing>>
    BY <1>3 DEF CloseClient
  <2>2. killing' = [killing EXCEPT ![t] = killing[t]] /\ killing[t] \in Fds \cup {NULL}
    BY <2>1 DEF TypeOK
  <2> QED
    BY <1>1, <2>1, <2>2 DEF KernelTypeOK
<1>4. CASE slot # NULL /\ Registered(sock) /\ Registered(pty)
  <2>1. CloseAll({sock, pty}) /\ killing' = [killing EXCEPT ![t] = slot]
    BY <1>4 DEF CloseClient
  <2> QED
    BY <2>1, <1>1, <1>4, CloseAllType
<1> QED
  BY <1>2, <1>3, <1>4

\* The rest of kill_client: the pointers and the element go back to their defaults.
LEMMA ClearClientType ==
  ASSUME TypeOK, NEW t \in Workers \cup {Main}, ClearClient(t), killing[t] # NULL
  PROVE  /\ client_ptr_slab' \in [AllFds -> Fds \cup {NULL}]
         /\ client_slab' \in [Fds -> Locals]
         /\ killing' = [killing EXCEPT ![t] = NULL]
<1>1. client_ptr_slab' \in [AllFds -> Fds \cup {NULL}]
  BY DEF ClearClient, TypeOK, SetPtrs
<1>2. client_slab' \in [Fds -> Locals]
  <2>1. \A c \in Locals : [c EXCEPT !.sock_fd = -1] \in Locals
    BY DEF Locals, Named
  <2> QED
    BY <2>1 DEF ClearClient, TypeOK
<1> QED
  BY <1>1, <1>2 DEF ClearClient

\* Clients, shells and clocks leave the server's memory alone.
LEMMA EnvironmentType ==
  ASSUME TypeOK, Environment, UNCHANGED memory
  PROVE  TypeOK'
<1>0. /\ UNCHANGED <<client_slab, client_ptr_slab, timer_slab, evlist, time_evlist>>
      /\ UNCHANGED <<in_timer_loop, tasks, job, pc, client, client_fd, moving>>
      /\ UNCHANGED <<killing, fate, owner, authenticated, flows>>
  BY DEF memory, slabs, loop, pool, locals, history
<1>1. ASSUME NEW c \in Clients, Connect(c)
      PROVE  KernelTypeOK'
  BY <1>1 DEF TypeOK, Connect, KernelTypeOK, kernel
<1>2. ASSUME NEW c \in Clients, NEW m \in {"secret", "wrong_secret", "line"}, Send(c, m)
      PROVE  KernelTypeOK'
  <2>1. /\ lines' \in [Clients -> 0 .. MaxLines + 1]
        /\ inbox' \in [Clients -> Seq({"secret", "wrong_secret", "line"})]
    <3>1. /\ lines[c] <= MaxLines
          /\ lines' = [lines EXCEPT ![c] = @ + 1]
          /\ inbox' = [inbox EXCEPT ![c] = Append(@, m)]
      BY <1>2 DEF Send
    <3> QED
      BY <3>1, KernelAssumption, AppendProperties DEF TypeOK, KernelTypeOK
  <2> QED
    BY <1>2, <2>1 DEF TypeOK, Send, KernelTypeOK, kernel
<1>3. ASSUME NEW c \in Clients, Leave(c, "close", "closed") \/ Leave(c, "reset", "reset")
      PROVE  KernelTypeOK'
  BY <1>3 DEF TypeOK, Leave, KernelTypeOK, kernel
<1>4. ASSUME NEW s \in Shells, PrintOutput(s) \/ ExitShell(s)
      PROVE  KernelTypeOK'
  BY <1>4 DEF TypeOK, PrintOutput, ExitShell, KernelTypeOK, kernel, outside
<1>5. KernelTypeOK'
  BY <1>1, <1>2, <1>3, <1>4 DEF Environment
<1> QED
  BY <1>0, <1>5 DEF TypeOK

\* The assignments to a client_struct's members.
LEMMA ClientStructs ==
  \A c \in Locals :
    /\ \A state \in States : [c EXCEPT !.state = state] \in Locals
    /\ \A fd \in Fds : [c EXCEPT !.pty_fd = fd] \in Locals
    /\ [c EXCEPT !.sock_fd = -1] \in Locals
  BY DEF Locals, Named

\* The same for an element of the slab.
LEMMA StateType ==
  ASSUME TypeOK, NEW slot, NEW state \in States
  PROVE  [client_slab EXCEPT ![slot].state = state] \in [Fds -> Locals]
  BY ClientStructs DEF TypeOK

\* Every descriptor of a client is one of three kinds, apart from the server's own.
LEMMA Kinds ==
  /\ \A fd : IsSock(fd) \/ IsTimer(fd) \/ IsPty(fd) => fd \in Fds
  /\ \A fd : ~ (IsSock(fd) /\ IsTimer(fd))
  /\ \A fd \in Fds : fdtab[fd] = Closed => ~ IsSock(fd) /\ ~ IsTimer(fd) /\ ~ IsPty(fd)
  /\ listening_sock \notin Fds /\ timer_epfd \notin Fds /\ 0 \notin Fds
<1>1. \A fd : IsSock(fd) \/ IsTimer(fd) \/ IsPty(fd) => fd \in Fds
  BY DEF IsSock, IsTimer, IsPty
<1>2. /\ \A fd : ~ (IsSock(fd) /\ IsTimer(fd))
      /\ \A fd \in Fds : fdtab[fd] = Closed => ~ IsSock(fd) /\ ~ IsTimer(fd) /\ ~ IsPty(fd)
  BY DEF IsSock, IsTimer, IsPty, Closed
<1>3. listening_sock \notin Fds /\ timer_epfd \notin Fds /\ 0 \notin Fds
  BY DescriptorsDisjoint, KernelAssumption DEF Fds, listening_sock, timer_epfd
<1> QED
  BY <1>1, <1>2, <1>3

------------------------------------------------------------------------------

\* Theorem: every reachable state is well typed.  Slab pointers stay in the
\* slab, and no client_struct ever names the listening socket or timer_epfd,
\* although elements are copied, overwritten and read uninitialized.
THEOREM Typing == Spec => []TypeOK
<1>1. Init => TypeOK
  <2> SUFFICES ASSUME Init PROVE TypeOK
    OBVIOUS
  <2>1. KernelTypeOK
    BY KernelAssumption, DescriptorsDisjoint DEF Init, KernelInit, KernelTypeOK, Objects
  <2>2. /\ client_slab \in [Fds -> Locals]
        /\ client \in [Workers -> Locals]
        /\ moving \in [Workers -> [what : Objects, to_fd : Named, slot : Fds \cup {NULL}]]
    BY DEF Init, ZeroClient, Locals, Named, States, Idle, Objects
  <2>3. /\ client_ptr_slab \in [AllFds -> Fds \cup {NULL}]
        /\ timer_slab \in [Fds -> Fds \cup {0}]
        /\ evlist \subseteq [fd : AllFds, hup : BOOLEAN]
        /\ time_evlist \subseteq Fds
        /\ in_timer_loop \in BOOLEAN
        /\ owner \in [Shells -> Clients \cup {None}]
        /\ authenticated \in [Workers -> Clients \cup {None}]
        /\ flows \subseteq Objects \X Objects
        /\ fate \in {"up", "SIGPIPE", "SIGSEGV"}
    BY DEF Init
  <2>4. /\ tasks \in Seq(AllFds)
        /\ job \in [Workers -> AllFds \cup {0}]
        /\ pc \in [Workers -> WorkerPC]
        /\ client_fd \in [Workers -> Fds \cup {0}]
        /\ killing \in [Workers \cup {Main} -> Fds \cup {NULL}]
        /\ \A w \in Workers :
            /\ pc[w] = "idle" <=> job[w] = 0
            /\ killing[w] # NULL => pc[w] = "terminated"
    BY DEF Init, Pool!Init, WorkerPC
  <2> QED
    BY <2>1, <2>2, <2>3, <2>4 DEF TypeOK
<1>2. TypeOK /\ [Next]_vars => TypeOK'
  <2> SUFFICES ASSUME TypeOK, [Next]_vars PROVE TypeOK'
    OBVIOUS
  <2> USE DescriptorsDisjoint DEF TypeOK, KernelTypeOK, WorkerPC, States, Goto, NULL,
          kernel, outside, slabs, loop, pool, locals, history, memory
  <2>1. ASSUME EpollWait
        PROVE  TypeOK'
    <3>1. Ready \subseteq AllFds /\ \A fd \in Ready : HungUp(fd) \in BOOLEAN
      BY DEF Ready, HungUp
    <3>2. /\ evlist' \subseteq [fd : AllFds, hup : BOOLEAN]
          /\ reg' \in [AllFds -> {"none", "armed", "spent"}]
      BY <2>1, <3>1 DEF EpollWait
    <3> QED
      BY <2>1, <3>2 DEF EpollWait
  <2>2. ASSUME ClearHungUp
        PROVE  TypeOK'
    <3>1. /\ client_ptr_slab' \in [AllFds -> Fds \cup {NULL}]
          /\ client_slab' \in [Fds -> Locals]
          /\ killing' = [killing EXCEPT ![Main] = NULL]
      BY <2>2, ClearClientType DEF ClearHungUp
    <3> QED
      BY <2>2, <3>1, ServerAssumption DEF ClearHungUp
  <2>3. ASSUME TimersDone
        PROVE  TypeOK'
    BY <2>3, RearmedType DEF TimersDone
  <2>4. ASSUME NEW e \in evlist, HangUp(e)
        PROVE  TypeOK'
    <3>1. /\ fdtab' \in [Fds -> Objects]
          /\ reg' \in [AllFds -> {"none", "armed", "spent"}]
          /\ running_timers' \subseteq Fds \X Fds
          /\ expired' \subseteq Fds
          /\ shell' \in [Shells -> {"none", "running", "printed", "exited"}]
          /\ \E slot \in Fds \cup {NULL} : killing' = [killing EXCEPT ![Main] = slot]
      BY <2>4, CloseClientType DEF HangUp
    <3>2. /\ killing' \in [Workers \cup {Main} -> Fds \cup {NULL}]
          /\ \A w \in Workers : killing'[w] = killing[w]
      BY <3>1, ServerAssumption
    <3> QED
      BY <2>4, <3>1, <3>2 DEF HangUp
  <2>5. ASSUME NEW e \in evlist, AddTask(e)
        PROVE  TypeOK'
    <3>1. e.fd \in AllFds /\ tasks' = Append(tasks, e.fd) /\ UNCHANGED job
      BY <2>5 DEF AddTask, Pool!Add
    <3>2. tasks' \in Seq(AllFds)
      BY <3>1, AppendProperties
    <3> QED
      BY <2>5, <3>1, <3>2 DEF AddTask
  <2>6. ASSUME NEW e \in evlist, TimerEvent(e)
        PROVE  TypeOK'
    BY <2>6 DEF TimerEvent
  <2>7. ASSUME NEW t \in time_evlist, HandleTimer(t)
        PROVE  TypeOK'
    BY <2>7, CloseAllType, SMTT(20) DEF HandleTimer
  <2>8. ASSUME NEW w \in Workers, TakeTask(w)
        PROVE  TypeOK'
    <3>1. tasks # <<>> /\ job' = [job EXCEPT ![w] = Head(tasks)] /\ tasks' = Tail(tasks)
      BY <2>8 DEF TakeTask, Pool!Take
    <3>2. Head(tasks) \in AllFds /\ tasks' \in Seq(AllFds)
      BY <3>1, HeadTailProperties
    <3> QED
      BY <2>8, <3>1, <3>2, ServerAssumption DEF TakeTask
  <2>9. ASSUME NEW w \in Workers, Load(w)
        PROVE  TypeOK'
    BY <2>9 DEF Load, Case, Locals
  <2>10. ASSUME NEW w \in Workers, LoadGarbage(w)
        PROVE  TypeOK'
    BY <2>10 DEF LoadGarbage, Case
  <2>11. ASSUME NEW w \in Workers, Accept(w)
        PROVE  TypeOK'
    <3>1. PICK fd \in Fds :
            /\ fdtab' = [fdtab EXCEPT ![fd] = Sock(Head(backlog))]
            /\ client_slab' = [client_slab EXCEPT ![fd] =
                                 [sock_fd |-> fd, pty_fd |-> -1, state |-> "new"]]
            /\ client_ptr_slab' = SetPtrs({fd}, fd)
            /\ reg' = [reg EXCEPT ![fd] = "armed"]
            /\ client_fd' = [client_fd EXCEPT ![w] = fd]
      BY <2>11 DEF Accept
    <3>2. Head(backlog) \in Clients /\ backlog' \in Seq(Clients)
      BY <2>11, HeadTailProperties DEF Accept
    <3>3. /\ Sock(Head(backlog)) \in Objects
          /\ [sock_fd |-> fd, pty_fd |-> -1, state |-> "new"] \in Locals
      BY <3>2 DEF Objects, Locals, Named
    <3>4. client_ptr_slab' \in [AllFds -> Fds \cup {NULL}]
      BY <3>1 DEF SetPtrs
    <3>5. KernelTypeOK'
      BY <2>11, <3>1, <3>2, <3>3 DEF Accept
    <3>6. client_slab' \in [Fds -> Locals] /\ client_fd' \in [Workers -> Fds \cup {0}]
      BY <3>1, <3>3
    <3>7. /\ pc' \in [Workers -> WorkerPC]
          /\ \A v \in Workers :
              /\ pc'[v] = "idle" <=> job'[v] = 0
              /\ killing'[v] # NULL => pc'[v] = "terminated"
      BY <2>11 DEF Accept
    <3> QED
      BY <2>11, <3>4, <3>5, <3>6, <3>7 DEF Accept
  <2>12. ASSUME NEW w \in Workers, Greet(w)
        PROVE  TypeOK'
    <3>1. PICK fd \in Fds, result \in WriteResults(client_fd[w]) :
            /\ fdtab' = [fdtab EXCEPT ![fd] = Timer(IF IsSock(client_fd[w])
                                                   THEN fdtab[client_fd[w]].of
                                                   ELSE None)]
            /\ timer_slab' = [timer_slab EXCEPT ![fd] = client_fd[w]]
            /\ running_timers' = WithNew(fd)
            /\ peer' = PeerAfter(client_fd[w], result)
      BY <2>12 DEF Greet
    <3>2. fdtab' \in [Fds -> Objects]
      <4> DEFINE of == IF IsSock(client_fd[w]) THEN fdtab[client_fd[w]].of ELSE None
      <4>1. of \in Clients \cup {None}
        BY ObjectKinds
      <4>2. Timer(of) \in Objects
        BY <4>1 DEF Objects
      <4>3. fdtab \in [Fds -> Objects]
        OBVIOUS
      <4>4. fdtab' = [fdtab EXCEPT ![fd] = Timer(of)]
        BY <3>1
      <4> HIDE DEF of, TypeOK, KernelTypeOK
      <4> QED
        BY <4>2, <4>3, <4>4
    <3>3. running_timers' \subseteq Fds \X Fds
      BY <3>1 DEF WithNew
    <3>4. /\ peer' \in [Clients -> {"idle", "open", "closed", "reset", "broken"}]
          /\ reg' \in [AllFds -> {"none", "armed", "spent"}]
          /\ timer_slab' \in [Fds -> Fds \cup {0}]
      BY <2>12, <3>1, RearmedType, PeerAfterType DEF Greet
    <3>5. job' = [job EXCEPT ![w] = 0] /\ UNCHANGED tasks
      BY <2>12 DEF Greet, Pool!Finish
    <3>6. KernelTypeOK'
      BY <2>12, <3>2, <3>3, <3>4 DEF Greet
    <3>7. /\ pc' \in [Workers -> WorkerPC]
          /\ \A v \in Workers :
              /\ pc'[v] = "idle" <=> job'[v] = 0
              /\ killing'[v] # NULL => pc'[v] = "terminated"
      BY <2>12, <3>5 DEF Greet
    <3> QED
      BY <2>12, <3>4, <3>5, <3>6, <3>7 DEF Greet
  <2>13. ASSUME NEW w \in Workers, CheckSecret(w)
        PROVE  TypeOK'
    <3> DEFINE fd == client[w].sock_fd
    <3>1. /\ inbox' \in [Clients -> Seq({"secret", "wrong_secret", "line"})]
          /\ shell' \in [Shells -> {"none", "running", "printed", "exited"}]
      BY <2>13, DrainType DEF CheckSecret
    <3>2. CASE IsSecret(fd)
      <4>1. /\ pc' = [pc EXCEPT ![w] = "handle"]
            /\ authenticated' = [authenticated EXCEPT ![w] = fdtab[fd].of]
            /\ UNCHANGED peer
        BY <2>13, <3>2 DEF CheckSecret
      <4>2. fdtab[fd].of \in Clients
        BY <3>2, ObjectKinds DEF IsSecret
      <4> QED
        BY <2>13, <3>1, <4>1, <4>2 DEF CheckSecret
    <3>3. CASE ~ IsSecret(fd)
      <4>1. /\ pc' = [pc EXCEPT ![w] = "reject"]
            /\ \E r : peer' = PeerAfter(fd, r)
            /\ UNCHANGED authenticated
        BY <2>13, <3>3 DEF CheckSecret
      <4>2. peer' \in [Clients -> {"idle", "open", "closed", "reset", "broken"}]
        BY <4>1, PeerAfterType
      <4>3. /\ pc' \in [Workers -> WorkerPC]
            /\ \A v \in Workers :
                /\ pc'[v] = "idle" <=> job'[v] = 0
                /\ killing'[v] # NULL => pc'[v] = "terminated"
        BY <2>13, <4>1 DEF CheckSecret
      <4> QED
        BY <2>13, <3>1, <4>1, <4>2, <4>3 DEF CheckSecret
    <3> QED
      BY <3>2, <3>3
  <2>14. ASSUME NEW w \in Workers, Reject(w)
        PROVE  TypeOK'
    <3>1. KernelTypeOK'
      BY <2>14, CloseAllType DEF Reject
    <3>2. /\ pc' \in [Workers -> WorkerPC]
          /\ \A v \in Workers :
              /\ pc'[v] = "idle" <=> job'[v] = 0
              /\ killing'[v] # NULL => pc'[v] = "terminated"
      BY <2>14 DEF Reject
    <3> QED
      BY <2>14, <3>1, <3>2 DEF Reject
  <2>15. ASSUME NEW w \in Workers, HandleClient(w)
        PROVE  TypeOK'
    <3>1. PICK fd \in Fds, s \in Shells :
            /\ fdtab' = [fdtab EXCEPT ![fd] = Pty(s)]
            /\ reg' = [reg EXCEPT ![fd] = "armed"]
            /\ shell' = [shell EXCEPT ![s] = "running"]
            /\ owner' = [owner EXCEPT ![s] = authenticated[w]]
            /\ client' = [client EXCEPT ![w].pty_fd = fd]
      BY <2>15 DEF HandleClient
    <3>2. Pty(s) \in Objects /\ [client[w] EXCEPT !.pty_fd = fd] \in Locals
      <4>1. Pty(s) \in Objects
        BY DEF Objects
      <4>2. client[w] \in Locals
        OBVIOUS
      <4> QED
        BY <4>1, <4>2, ClientStructs
    <3>3. KernelTypeOK'
      BY <2>15, <3>1, <3>2 DEF HandleClient
    <3>4. client' \in [Workers -> Locals] /\ owner' \in [Shells -> Clients \cup {None}]
      BY <3>1, <3>2
    <3>5. /\ pc' \in [Workers -> WorkerPC]
          /\ \A v \in Workers :
              /\ pc'[v] = "idle" <=> job'[v] = 0
              /\ killing'[v] # NULL => pc'[v] = "terminated"
      BY <2>15 DEF HandleClient
    <3> QED
      BY <2>15, <3>3, <3>4, <3>5 DEF HandleClient
  <2>16. ASSUME NEW w \in Workers, SendOk(w)
        PROVE  TypeOK'
    <3>1. peer' \in [Clients -> {"idle", "open", "closed", "reset", "broken"}]
      BY <2>16, PeerAfterType DEF SendOk
    <3>2. [client[w] EXCEPT !.state = "established"] \in Locals
      BY ClientStructs
    <3> QED
      BY <2>16, <3>1, <3>2, RearmedType DEF SendOk, AfterOk
  <2>17. ASSUME NEW w \in Workers, ReadData(w)
        PROVE  TypeOK'
    <3> DEFINE fd   == job[w]
               slot == client_ptr_slab[fd]
    <3>1. fd \in AllFds /\ slot \in Fds
      BY <2>17 DEF ReadData
    <3>2. /\ inbox' \in [Clients -> Seq({"secret", "wrong_secret", "line"})]
          /\ shell' \in [Shells -> {"none", "running", "printed", "exited"}]
          /\ peer' \in [Clients -> {"idle", "open", "closed", "reset", "broken"}]
      BY <2>17, DrainType, PeerAfterType DEF ReadData
    <3>3. CASE ReadResult(fd) = "data"
      <4>1. /\ moving' = [moving EXCEPT ![w] =
                 [what |-> fdtab[fd], to_fd |-> OtherEnd(client_slab[slot], fd),
                  slot |-> slot]]
            /\ pc' = [pc EXCEPT ![w] = "write"]
            /\ UNCHANGED <<client_slab, reg>>
        BY <2>17, <3>3 DEF ReadData
      <4>2. fdtab[fd] \in Objects
        BY <3>3, ObjectKinds DEF ReadResult
      <4>3. OtherEnd(client_slab[slot], fd) \in Named
        BY <3>1 DEF OtherEnd, Locals
      <4> QED
        BY <2>17, <3>1, <3>2, <4>1, <4>2, <4>3, SMTT(20) DEF ReadData
    <3>4. CASE ReadResult(fd) # "data"
      <4>1. PICK state \in States :
            /\ client_slab' = [client_slab EXCEPT ![slot].state = state]
            /\ reg' = Rearmed(reg, fd)
            /\ pc' = [pc EXCEPT ![w] = "store"]
            /\ UNCHANGED moving
        BY <2>17, <3>1, <3>4 DEF ReadData, Locals
      <4>2. client_slab' \in [Fds -> Locals]
        BY <3>1, <4>1, StateType
      <4>3. KernelTypeOK'
        BY <2>17, <3>2, <4>1, RearmedType DEF ReadData
      <4>4. /\ pc' \in [Workers -> WorkerPC]
            /\ \A v \in Workers :
                /\ pc'[v] = "idle" <=> job'[v] = 0
                /\ killing'[v] # NULL => pc'[v] = "terminated"
        BY <2>17, <4>1 DEF ReadData
      <4> QED
        BY <2>17, <4>1, <4>2, <4>3, <4>4 DEF ReadData
    <3> QED
      BY <3>3, <3>4
  <2>18. ASSUME NEW w \in Workers, WriteData(w)
        PROVE  TypeOK'
    <3> DEFINE to_fd == moving[w].to_fd
    <3>1. PICK result \in WriteResults(to_fd) :
            /\ client_slab' = [client_slab EXCEPT ![moving[w].slot].state =
                   IF result = "written" THEN "established" ELSE "unwritten"]
            /\ flows' = IF result = "written"
                        THEN flows \cup {<<moving[w].what, fdtab[to_fd]>>}
                        ELSE flows
            /\ peer' = PeerAfter(to_fd, result)
      BY <2>18 DEF WriteData
    <3>2. client_slab' \in [Fds -> Locals]
      BY <3>1, StateType
    <3>3. flows' \subseteq Objects \X Objects
      <4>1. result = "written" => fdtab[to_fd] \in Objects
        BY <3>1, ObjectKinds DEF WriteResults
      <4> QED
        BY <3>1, <4>1
    <3>4. peer' \in [Clients -> {"idle", "open", "closed", "reset", "broken"}]
      BY <3>1, PeerAfterType
    <3>5. moving' \in [Workers -> [what : Objects, to_fd : Named, slot : Fds \cup {NULL}]]
      BY <2>18 DEF WriteData, Idle, Objects, Named
    <3> QED
      BY <2>18, <3>2, <3>3, <3>4, <3>5, RearmedType, SMTT(20) DEF WriteData
  <2>19. ASSUME NEW w \in Workers, SendUnwritten(w)
        PROVE  TypeOK'
    <3>1. peer' \in [Clients -> {"idle", "open", "closed", "reset", "broken"}]
      BY <2>19, PeerAfterType DEF SendUnwritten
    <3>2. [client[w] EXCEPT !.state = "established"] \in Locals
      BY ClientStructs
    <3>3. client' \in [Workers -> Locals]
      BY <2>19, <3>2 DEF SendUnwritten
    <3> QED
      BY <2>19, <3>1, <3>3, RearmedType DEF SendUnwritten
  <2>20. ASSUME NEW w \in Workers, Terminate(w)
        PROVE  TypeOK'
    <3>1. /\ fdtab' \in [Fds -> Objects]
          /\ reg' \in [AllFds -> {"none", "armed", "spent"}]
          /\ running_timers' \subseteq Fds \X Fds
          /\ expired' \subseteq Fds
          /\ shell' \in [Shells -> {"none", "running", "printed", "exited"}]
          /\ \E slot \in Fds \cup {NULL} : killing' = [killing EXCEPT ![w] = slot]
      BY <2>20, CloseClientType DEF Terminate
    <3>2. /\ killing' \in [Workers \cup {Main} -> Fds \cup {NULL}]
          /\ \A v \in Workers \ {w} : killing'[v] = killing[v]
      BY <3>1
    <3>3. KernelTypeOK'
      BY <2>20, <3>1 DEF Terminate
    <3>4. pc' = [pc EXCEPT ![w] = IF killing'[w] = NULL THEN "store" ELSE "terminated"]
      BY <2>20 DEF Terminate
    <3>5. /\ pc' \in [Workers -> WorkerPC]
          /\ \A v \in Workers :
              /\ pc'[v] = "idle" <=> job'[v] = 0
              /\ killing'[v] # NULL => pc'[v] = "terminated"
      BY <2>20, <3>2, <3>4 DEF Terminate
    <3> QED
      BY <2>20, <3>2, <3>3, <3>5 DEF Terminate
  <2>21. ASSUME NEW w \in Workers, ClearTerminated(w)
        PROVE  TypeOK'
    <3>1. /\ client_ptr_slab' \in [AllFds -> Fds \cup {NULL}]
          /\ client_slab' \in [Fds -> Locals]
          /\ killing' = [killing EXCEPT ![w] = NULL]
      BY <2>21, ClearClientType DEF ClearTerminated
    <3> QED
      BY <2>21, <3>1 DEF ClearTerminated
  <2>22. ASSUME NEW w \in Workers, Store(w)
        PROVE  TypeOK'
    <3>1. client_slab' \in [Fds -> Locals]
      <4>1. client[w] \in Locals
        OBVIOUS
      <4>2. \/ client_slab' = client_slab
            \/ client_slab' = [client_slab EXCEPT ![client[w].sock_fd] = client[w]]
        BY <2>22 DEF Store
      <4> QED
        BY <4>1, <4>2
    <3>2. client_ptr_slab' \in [AllFds -> Fds \cup {NULL}]
      <4>1. CASE client[w].sock_fd \in Fds
        <5>1. client_ptr_slab' = SetPtrs(Ends(client[w]), client[w].sock_fd)
          BY <2>22, <4>1 DEF Store
        <5> QED
          BY <4>1, <5>1 DEF SetPtrs
      <4>2. CASE client[w].sock_fd \notin Fds
        BY <2>22, <4>2 DEF Store
      <4> QED
        BY <4>1, <4>2
    <3>3. job' = [job EXCEPT ![w] = 0] /\ UNCHANGED tasks
      BY <2>22 DEF Store, Pool!Finish
    <3> QED
      BY <2>22, <3>1, <3>2, <3>3 DEF Store
  <2>23. ASSUME NEW w \in Workers, DieOfSigpipe(w) \/ DieOfSigsegv(w)
        PROVE  TypeOK'
    <3>1. Die("SIGPIPE") \/ Die("SIGSEGV")
      BY <2>23 DEF DieOfSigpipe, DieOfSigsegv
    <3>2. fate' \in {"up", "SIGPIPE", "SIGSEGV"}
      BY <3>1 DEF Die
    <3>3. UNCHANGED <<kernel, outside, shell, slabs, loop, pool, locals, history>>
      BY <3>1 DEF Die
    <3> QED
      BY <3>2, <3>3
  <2>24. ASSUME Environment, UNCHANGED memory
        PROVE  TypeOK'
    BY <2>24, EnvironmentType
  <2>25. ASSUME TimerExpires
        PROVE  TypeOK'
    BY <2>25 DEF TimerExpires, Expire, Without
  <2>26. CASE UNCHANGED vars
    BY <2>26 DEF vars
  <2> QED
    BY <2>1, <2>2, <2>3, <2>4, <2>5, <2>6, <2>7, <2>8, <2>9, <2>10,
       <2>11, <2>12, <2>13, <2>14, <2>15, <2>16, <2>17, <2>18, <2>19,
       <2>20, <2>21, <2>22, <2>23, <2>24, <2>25, <2>26
    DEF Next, LoopSteps, WorkerSteps
<1> QED
  BY <1>1, <1>2, PTL DEF Spec

------------------------------------------------------------------------------
(* The listening socket and timer_epfd, which are open from start to end: where  *)
(* their one event is.                                                           *)

Standing == {listening_sock, timer_epfd}

\* An event of fd is in no place, and in exactly one.
NoEvent(fd) ==
    Armed(fd) = {} /\ Reported(fd) = {} /\ Queued(fd) = {} /\ Held(fd) = {}

SoleEvent(fd) ==
    \/ /\ Armed(fd) = {"armed"}
       /\ Reported(fd) = {} /\ Queued(fd) = {} /\ Held(fd) = {}
    \/ /\ \E e \in Reported(fd) : Reported(fd) = {e}
       /\ Armed(fd) = {} /\ Queued(fd) = {} /\ Held(fd) = {}
    \/ /\ \E i \in Queued(fd) : Queued(fd) = {i}
       /\ Armed(fd) = {} /\ Reported(fd) = {} /\ Held(fd) = {}
    \/ /\ \E w \in Held(fd) : Held(fd) = {w}
       /\ Armed(fd) = {} /\ Reported(fd) = {} /\ Queued(fd) = {}

\* The two descriptors that are open from start to end stay registered, never
\* hang up and belong to no client.  A worker with the event of the listening
\* socket is in accept_new_client or about to be; none has that of timer_epfd.
StandingApart ==
    /\ \A fd \in Standing :
        /\ reg[fd] # "none"
        /\ client_ptr_slab[fd] = NULL
        /\ \A e \in Reported(fd) : ~ e.hup
    /\ \A w \in Workers :
        /\ pc[w] = "greet" => job[w] = listening_sock
        /\ job[w] = listening_sock => pc[w] \in {"load", "greet"}
    /\ Queued(timer_epfd) = {} /\ \A w \in Workers : job[w] # timer_epfd

EventInv ==
    /\ StandingApart
    /\ SoleEvent(listening_sock)
    /\ IF in_timer_loop THEN NoEvent(timer_epfd) ELSE SoleEvent(timer_epfd)

\* Exactly one of the places an event can be at, counted as Events counts it.
LEMMA SoleEventCounts ==
  ASSUME NEW fd
  PROVE  /\ SoleEvent(fd) => Events(fd) = 1
         /\ NoEvent(fd) => Events(fd) = 0
<1>1. NoEvent(fd) => Events(fd) = 0
  BY FS_EmptySet DEF NoEvent, Events
<1>2. Cardinality({}) = 0 /\ \A x : Cardinality({x}) = 1
  BY FS_Singleton, FS_EmptySet
<1>3. SoleEvent(fd) => Events(fd) = 1
  <2>1. CASE /\ Armed(fd) = {"armed"}
             /\ Reported(fd) = {} /\ Queued(fd) = {} /\ Held(fd) = {}
    <3>1. Cardinality(Armed(fd)) = 1
      BY <2>1, <1>2
    <3>2. Cardinality(Reported(fd)) = 0 /\ Cardinality(Queued(fd)) = 0 /\ Cardinality(Held(fd)) = 0
      BY <2>1, <1>2
    <3> QED
      BY <3>1, <3>2 DEF Events
  <2>2. ASSUME NEW e \in Reported(fd), Reported(fd) = {e},
               Armed(fd) = {}, Queued(fd) = {}, Held(fd) = {}
        PROVE  Events(fd) = 1
    <3>1. Cardinality(Reported(fd)) = 1
      BY <2>2, <1>2
    <3>2. Cardinality(Armed(fd)) = 0 /\ Cardinality(Queued(fd)) = 0 /\ Cardinality(Held(fd)) = 0
      BY <2>2, <1>2
    <3> QED
      BY <3>1, <3>2 DEF Events
  <2>3. ASSUME NEW i \in Queued(fd), Queued(fd) = {i},
               Armed(fd) = {}, Reported(fd) = {}, Held(fd) = {}
        PROVE  Events(fd) = 1
    <3>1. Cardinality(Queued(fd)) = 1
      BY <2>3, <1>2
    <3>2. Cardinality(Armed(fd)) = 0 /\ Cardinality(Reported(fd)) = 0 /\ Cardinality(Held(fd)) = 0
      BY <2>3, <1>2
    <3> QED
      BY <3>1, <3>2 DEF Events
  <2>4. ASSUME NEW w \in Held(fd), Held(fd) = {w},
               Armed(fd) = {}, Reported(fd) = {}, Queued(fd) = {}
        PROVE  Events(fd) = 1
    <3>1. Cardinality(Held(fd)) = 1
      BY <2>4, <1>2
    <3>2. Cardinality(Armed(fd)) = 0 /\ Cardinality(Reported(fd)) = 0 /\ Cardinality(Queued(fd)) = 0
      BY <2>4, <1>2
    <3> QED
      BY <3>1, <3>2 DEF Events
  <2> QED
    BY <2>1, <2>2, <2>3, <2>4 DEF SoleEvent
<1> QED
  BY <1>1, <1>3

\* A step that moves no event of a standing descriptor.
Aside ==
    /\ \A fd \in Standing : /\ reg'[fd] = reg[fd]
                            /\ client_ptr_slab'[fd] = client_ptr_slab[fd]
    /\ UNCHANGED <<evlist, tasks, in_timer_loop>>
    /\ \A w \in Workers :
        \/ job'[w] = job[w] /\ pc'[w] = pc[w]
        \/ {job[w], job'[w]} \cap Standing = {} /\ pc'[w] # "greet"

\* A step that touches nothing of the listening socket's and of timer_epfd's
\* events keeps EventInv; a worker may change its own job and position.
LEMMA EventsElsewhere ==
  ASSUME EventInv,
         \A fd \in Standing : /\ reg'[fd] = reg[fd]
                              /\ client_ptr_slab'[fd] = client_ptr_slab[fd]
                              /\ Reported(fd)' = Reported(fd)
                              /\ Queued(fd)' = Queued(fd)
                              /\ Held(fd)' = Held(fd),
         UNCHANGED in_timer_loop,
         \A w \in Workers :
            \/ job'[w] = job[w] /\ pc'[w] = pc[w]
            \/ {job[w], job'[w]} \cap Standing = {} /\ pc'[w] # "greet"
  PROVE  EventInv'
<1>1. \A fd \in Standing : Armed(fd)' = Armed(fd)
  BY DEF Armed
<1>2. listening_sock \in Standing /\ timer_epfd \in Standing
  BY DEF Standing
<1>3. StandingApart'
  BY <1>2 DEF EventInv, StandingApart
<1>4. \A fd \in Standing : (SoleEvent(fd)' <=> SoleEvent(fd)) /\ (NoEvent(fd)' <=> NoEvent(fd))
  BY <1>1 DEF SoleEvent, NoEvent
<1> QED
  BY <1>2, <1>3, <1>4 DEF EventInv

\* In particular a step of a worker that has some other job.
LEMMA AsideKeepsEvents ==
  ASSUME EventInv, Aside
  PROVE  EventInv'
<1>1. ASSUME NEW fd \in Standing
      PROVE  Reported(fd)' = Reported(fd) /\ Queued(fd)' = Queued(fd)
    BY DEF Aside, Reported, Queued
<1>2. ASSUME NEW fd \in Standing
      PROVE  Held(fd)' = Held(fd)
    BY DEF Aside, Held
<1> QED
  BY <1>1, <1>2, EventsElsewhere DEF Aside

\* Closing other descriptors leaves the two registrations as they are, ...
LEMMA CloseAllAside ==
  ASSUME NEW F, CloseAll(F), F \cap Standing = {}
  PROVE  \A fd \in Standing : reg'[fd] = reg[fd]
  BY DEF CloseAll, Standing, AllFds

\* ... so does kill_client: no client_struct names the two descriptors, ...
LEMMA CloseClientAside ==
  ASSUME TypeOK, NEW t, NEW fd, CloseClient(t, fd)
  PROVE  \A f \in Standing : reg'[f] = reg[f]
<1> DEFINE slot == IF fd \in AllFds THEN client_ptr_slab[fd] ELSE NULL
           sock == client_slab[slot].sock_fd
           pty  == client_slab[slot].pty_fd
<1>1. \A f \in Standing : f \notin Fds
  BY DescriptorsDisjoint DEF Standing
<1>2. CASE slot = NULL \/ ~ Registered(sock)
  BY <1>2 DEF CloseClient, kernel
<1>3. CASE slot # NULL /\ Registered(sock) /\ ~ Registered(pty)
  <2>1. reg' = [reg EXCEPT ![sock] = "none"] /\ sock \in Fds
    BY <1>3 DEF CloseClient, Registered
  <2> QED
    BY <2>1, <1>1 DEF TypeOK, KernelTypeOK
<1>4. CASE slot # NULL /\ Registered(sock) /\ Registered(pty)
  <2>1. CloseAll({sock, pty}) /\ sock \in Fds /\ pty \in Fds
    BY <1>4 DEF CloseClient, Registered
  <2> QED
    BY <2>1, <1>1, CloseAllAside
<1> QED
  BY <1>2, <1>3, <1>4

\* ... so does an assignment to the pointers of a client's descriptors, ...
LEMMA SetPtrsAside ==
  ASSUME NEW F, F \subseteq Named, NEW i
  PROVE  \A fd \in Standing : SetPtrs(F, i)[fd] = client_ptr_slab[fd]
  BY DescriptorsDisjoint DEF SetPtrs, Standing, Named, NULL

\* ... which are never the two of the server itself.
LEMMA EndsNamed ==
  /\ \A c \in Locals : Ends(c) \subseteq Named
  /\ \A F : F \subseteq Named => F \cap Standing = {}
  BY DescriptorsDisjoint DEF Locals, Ends, Named, Standing, NULL

\* What dequeue takes from the queue is one event less for its descriptor.
LEMMA TailOfTasks ==
  ASSUME TypeOK, NEW fd, tasks # <<>>, tasks' = Tail(tasks)
  PROVE  /\ Queued(fd)' = {i \in 1 .. Len(tasks) - 1 : i + 1 \in Queued(fd)}
         /\ 1 \in Queued(fd) <=> Head(tasks) = fd
         /\ Queued(fd) \subseteq 1 .. Len(tasks)
<1>1. tasks \in Seq(AllFds)
  BY DEF TypeOK
<1>2. /\ Len(tasks') = Len(tasks) - 1
      /\ \A i \in 1 .. Len(tasks) - 1 : tasks'[i] = tasks[i + 1]
  BY <1>1, HeadTailProperties
<1>3. Len(tasks) \in Nat /\ Len(tasks) > 0
  BY <1>1, EmptySeq, LenProperties
<1> QED
  BY <1>1, <1>2, <1>3 DEF Queued

\* What tpool_add_task adds is one more.
LEMMA AppendToTasks ==
  ASSUME TypeOK, NEW fd, NEW t \in AllFds, tasks' = Append(tasks, t)
  PROVE  /\ t # fd => Queued(fd)' = Queued(fd)
         /\ t = fd => Queued(fd)' = Queued(fd) \cup {Len(tasks) + 1}
<1>1. tasks \in Seq(AllFds) /\ Len(tasks) \in Nat
  BY LenProperties DEF TypeOK
<1>2. /\ Len(tasks') = Len(tasks) + 1
      /\ \A i \in 1 .. Len(tasks) : tasks'[i] = tasks[i]
      /\ tasks'[Len(tasks) + 1] = t
  BY <1>1, AppendProperties
<1>3. 1 .. Len(tasks) + 1 = (1 .. Len(tasks)) \cup {Len(tasks) + 1}
  BY <1>1
<1> QED
  BY <1>1, <1>2, <1>3 DEF Queued

\* The end of kill_client leaves the two pointers alone.
LEMMA ClearClientAside ==
  ASSUME TypeOK, NEW t \in Workers \cup {Main}, ClearClient(t), killing[t] # NULL
  PROVE  \A fd \in Standing : client_ptr_slab'[fd] = client_ptr_slab[fd]
<1>1. Ends(client_slab[killing[t]]) \subseteq Named
  BY EndsNamed DEF TypeOK
<1> QED
  BY <1>1, SetPtrsAside DEF ClearClient

\* So does handle_timer, whose descriptors come from client_ptr_slab.
LEMMA HandleTimerAside ==
  ASSUME TypeOK, NEW t \in time_evlist, HandleTimer(t)
  PROVE  \A fd \in Standing : reg'[fd] = reg[fd]
<1>1. t \in Named /\ TimerClient(t) \in Named
  BY DEF TypeOK, TimerClient, Named
<1>2. \/ UNCHANGED reg
      \/ \E F : F \subseteq Named /\ CloseAll(F)
  BY <1>1 DEF HandleTimer, kernel
<1> QED
  BY <1>2, EndsNamed, CloseAllAside

\* Theorem: whatever clients, shells and timers do, the one event of the
\* listening socket, and the one of timer_epfd, is in exactly one place.
THEOREM EventsKept == Spec => []EventInv
<1> USE DEF NULL
<1>1. Init => EventInv
  BY DescriptorsDisjoint
  DEF Init, KernelInit, Pool!Init, EventInv, StandingApart, SoleEvent, NoEvent, Armed,
      Reported, Queued, Held, Standing
<1>2. TypeOK /\ EventInv /\ [Next]_vars => EventInv'
  <2> SUFFICES ASSUME TypeOK, EventInv, [Next]_vars PROVE EventInv'
    OBVIOUS
  <2>0. /\ listening_sock \in Standing /\ timer_epfd \in Standing
        /\ \A fd \in Standing : fd \notin Fds /\ fd # 0 /\ fd \in AllFds
        /\ \A w \in Workers : /\ job[w] \in Standing => job[w] = listening_sock
                              /\ job[w] = listening_sock => pc[w] \in {"load", "greet"}
                              /\ pc[w] = "greet" => job[w] = listening_sock
    <3>1. /\ listening_sock \in Standing /\ timer_epfd \in Standing
          /\ \A fd \in Standing : fd \notin Fds /\ fd # 0 /\ fd \in AllFds
      BY DescriptorsDisjoint DEF Standing
    <3> QED
      BY <3>1 DEF Standing, EventInv, StandingApart
  <2>00. /\ pc \in [Workers -> WorkerPC]
         /\ job \in [Workers -> AllFds \cup {0}]
         /\ reg \in [AllFds -> {"none", "armed", "spent"}]
    BY DEF TypeOK, KernelTypeOK
  <2> USE DEF Goto, kernel, outside, slabs, loop, pool, locals, history, memory
  <2>1. ASSUME ClearHungUp
        PROVE  EventInv'
    <3>1. Aside
      BY <2>1, <2>0, <2>00, ClearClientAside DEF ClearHungUp, ClearClient, Aside
    <3> QED
      BY <3>1, AsideKeepsEvents
  <2>2. ASSUME NEW t \in time_evlist, HandleTimer(t)
        PROVE  EventInv'
    <3>1. Aside
      BY <2>2, <2>0, <2>00, HandleTimerAside DEF HandleTimer, Aside
    <3> QED
      BY <3>1, AsideKeepsEvents
  <2>3. ASSUME NEW w \in Workers, Load(w)
        PROVE  EventInv'
    <3>1. Slot(listening_sock) \notin Fds
      BY <2>0, DescriptorsDisjoint DEF EventInv, StandingApart, Slot
    <3>2. Aside
      BY <2>3, <2>0, <2>00, <3>1 DEF Load, Case, States, Aside
    <3> QED
      BY <3>2, AsideKeepsEvents
  <2>4. ASSUME NEW w \in Workers, LoadGarbage(w)
        PROVE  EventInv'
    <3>1. Aside
      BY <2>4, <2>0, <2>00 DEF LoadGarbage, Case, States, Aside
    <3> QED
      BY <3>1, AsideKeepsEvents
  <2>5. ASSUME NEW w \in Workers, CheckSecret(w)
        PROVE  EventInv'
    <3>1. Aside
      BY <2>5, <2>0, <2>00 DEF CheckSecret, Aside
    <3> QED
      BY <3>1, AsideKeepsEvents
  <2>6. ASSUME NEW w \in Workers, Reject(w)
        PROVE  EventInv'
    <3>1. Aside
      BY <2>6, <2>0, <2>00, CloseAllAside DEF Reject, Aside
    <3> QED
      BY <3>1, AsideKeepsEvents
  <2>7. ASSUME NEW w \in Workers, HandleClient(w)
        PROVE  EventInv'
    <3>1. Aside
      BY <2>7, <2>0, <2>00 DEF HandleClient, Aside
    <3> QED
      BY <3>1, AsideKeepsEvents
  <2>8. ASSUME NEW w \in Workers, SendOk(w)
        PROVE  EventInv'
    <3>1. Aside
      BY <2>8, <2>0, <2>00 DEF SendOk, Rearmed, Aside
    <3> QED
      BY <3>1, AsideKeepsEvents
  <2>9. ASSUME NEW w \in Workers, ReadData(w)
        PROVE  EventInv'
    <3>1. Aside
      BY <2>9, <2>0, <2>00 DEF ReadData, Rearmed, Aside
    <3> QED
      BY <3>1, AsideKeepsEvents
  <2>10. ASSUME NEW w \in Workers, WriteData(w)
        PROVE  EventInv'
    <3>1. Aside
      BY <2>10, <2>0, <2>00 DEF WriteData, Rearmed, Aside
    <3> QED
      BY <3>1, AsideKeepsEvents
  <2>11. ASSUME NEW w \in Workers, SendUnwritten(w)
        PROVE  EventInv'
    <3>1. Aside
      BY <2>11, <2>0, <2>00 DEF SendUnwritten, Rearmed, Aside
    <3> QED
      BY <3>1, AsideKeepsEvents
  <2>12. ASSUME NEW w \in Workers, Terminate(w)
        PROVE  EventInv'
    <3>1. Aside
      BY <2>12, <2>0, <2>00, CloseClientAside DEF Terminate, Aside
    <3> QED
      BY <3>1, AsideKeepsEvents
  <2>13. ASSUME NEW w \in Workers, ClearTerminated(w)
        PROVE  EventInv'
    <3>1. pc[w] = "terminated"
      BY <2>13 DEF ClearTerminated, TypeOK
    <3>2. \A fd \in Standing : client_ptr_slab'[fd] = client_ptr_slab[fd]
      BY <2>13, ClearClientAside DEF ClearTerminated
    <3>3. Aside
      BY <2>13, <2>0, <2>00, <3>1, <3>2 DEF ClearTerminated, Aside
    <3> QED
      BY <3>3, AsideKeepsEvents
  <2>14. ASSUME NEW w \in Workers, Store(w)
        PROVE  EventInv'
    <3>1. \A fd \in Standing : client_ptr_slab'[fd] = client_ptr_slab[fd]
      <4>1. Ends(client[w]) \subseteq Named
        BY EndsNamed DEF TypeOK
      <4> QED
        BY <2>14, <4>1, SetPtrsAside DEF Store
    <3>2. job' = [job EXCEPT ![w] = 0] /\ UNCHANGED tasks
      BY <2>14 DEF Store, Pool!Finish
    <3>3. Aside
      BY <2>14, <2>0, <2>00, <3>1, <3>2 DEF Store, Aside
    <3> QED
      BY <3>3, AsideKeepsEvents
  <2>15. ASSUME NEW w \in Workers, DieOfSigpipe(w) \/ DieOfSigsegv(w)
        PROVE  EventInv'
    <3>1. Aside
      BY <2>15, <2>0, <2>00 DEF DieOfSigpipe, DieOfSigsegv, Die, Aside
    <3> QED
      BY <3>1, AsideKeepsEvents
  <2>16. ASSUME Environment, UNCHANGED memory
        PROVE  EventInv'
    <3>1. Aside
      BY <2>16, <2>0, <2>00 DEF Environment, Connect, Send, Leave, PrintOutput, ExitShell,
         Aside
    <3> QED
      BY <3>1, AsideKeepsEvents
  <2>17. ASSUME TimerExpires
        PROVE  EventInv'
    <3>1. Aside
      BY <2>17, <2>0, <2>00 DEF TimerExpires, Expire, Aside
    <3> QED
      BY <3>1, AsideKeepsEvents
  <2>18. ASSUME EpollWait
        PROVE  EventInv'
    <3>1. evlist = {} /\ ~ in_timer_loop
      BY <2>18 DEF EpollWait, LoopFree
    <3>2. ASSUME NEW fd \in Standing
          PROVE  /\ SoleEvent(fd) => SoleEvent(fd)'
                 /\ Queued(fd)' = Queued(fd) /\ Held(fd)' = Held(fd)
                 /\ reg'[fd] # "none"
                 /\ \A e \in Reported(fd)' : ~ e.hup
      <4>1. HungUp(fd) = FALSE
        BY <2>0 DEF HungUp, IsSock, IsPty
      <4>2. Queued(fd)' = Queued(fd) /\ Held(fd)' = Held(fd) /\ Reported(fd) = {}
        BY <2>18, <3>1 DEF EpollWait, Queued, Held, Reported
      <4>3. CASE fd \in Ready
        <5>1. Armed(fd) = {"armed"} /\ Armed(fd)' = {} /\ reg'[fd] = "spent"
          BY <2>18, <2>0, <4>3 DEF EpollWait, Ready, Armed
        <5>2. Reported(fd)' = {[fd |-> fd, hup |-> FALSE]}
          <6>1. evlist' = {[fd |-> f, hup |-> HungUp(f)] : f \in Ready}
            BY <2>18 DEF EpollWait
          <6>2. \A e \in evlist' : e.fd = fd => e = [fd |-> fd, hup |-> FALSE]
            BY <6>1, <4>1
          <6>3. [fd |-> fd, hup |-> FALSE] \in evlist'
            BY <6>1, <4>1, <4>3
          <6>4. [fd |-> fd, hup |-> FALSE].fd = fd
            OBVIOUS
          <6>5. [fd |-> fd, hup |-> FALSE] \in Reported(fd)'
            BY <6>3, <6>4 DEF Reported
          <6>6. \A e \in Reported(fd)' : e = [fd |-> fd, hup |-> FALSE]
            BY <6>2 DEF Reported
          <6> QED
            BY <6>5, <6>6
        <5> QED
          BY <4>2, <5>1, <5>2 DEF SoleEvent
      <4>4. CASE fd \notin Ready
        <5>1. reg'[fd] = reg[fd] /\ Armed(fd)' = Armed(fd)
          BY <2>18, <2>0, <4>4 DEF EpollWait, Armed
        <5>2. Reported(fd)' = {}
          BY <2>18, <4>4 DEF EpollWait, Reported
        <5>3. reg[fd] # "none"
          BY DEF EventInv, StandingApart
        <5> QED
          BY <4>2, <5>1, <5>2, <5>3 DEF SoleEvent
      <4> QED
        BY <4>3, <4>4
    <3>3. UNCHANGED <<in_timer_loop, client_ptr_slab, pc, job>>
      BY <2>18 DEF EpollWait
    <3> QED
      BY <2>0, <3>1, <3>2, <3>3 DEF EventInv, StandingApart
  <2>19. ASSUME NEW e \in evlist, HangUp(e)
        PROVE  EventInv'
    <3>1. ASSUME NEW fd \in Standing
          PROVE  Reported(fd)' = Reported(fd)
      <4>1. e \notin Reported(fd)
        BY <2>19 DEF HangUp, EventInv, StandingApart
      <4> QED
        BY <2>19, <4>1 DEF HangUp, Reported
    <3>2. ASSUME NEW fd \in Standing
          PROVE  reg'[fd] = reg[fd]
      BY <2>19, CloseClientAside DEF HangUp
    <3>3. UNCHANGED <<in_timer_loop, tasks, client_ptr_slab, pc, job>>
      BY <2>19 DEF HangUp
    <3>4. \A fd \in Standing : Queued(fd)' = Queued(fd) /\ Held(fd)' = Held(fd)
      BY <3>3 DEF Queued, Held
    <3> QED
      BY <3>1, <3>2, <3>3, <3>4, EventsElsewhere
  <2>20. ASSUME NEW e \in evlist, AddTask(e)
        PROVE  EventInv'
    <3>1. /\ e.fd \in AllFds /\ e.fd # timer_epfd
          /\ tasks' = Append(tasks, e.fd)
          /\ evlist' = evlist \ {e}
          /\ UNCHANGED <<reg, client_ptr_slab, in_timer_loop, pc, job>>
      BY <2>20 DEF AddTask, Pool!Add, TypeOK
    <3>2. \A fd \in Standing : Armed(fd)' = Armed(fd) /\ Held(fd)' = Held(fd)
      BY <3>1 DEF Armed, Held
    <3>3. ASSUME NEW fd \in Standing, fd # e.fd
          PROVE  /\ Queued(fd)' = Queued(fd) /\ Reported(fd)' = Reported(fd)
                 /\ SoleEvent(fd)' <=> SoleEvent(fd)
                 /\ NoEvent(fd)' <=> NoEvent(fd)
      <4>1. Queued(fd)' = Queued(fd) /\ Reported(fd)' = Reported(fd)
        BY <3>1, <3>3, AppendToTasks DEF Reported
      <4> QED
        BY <3>2, <4>1 DEF SoleEvent, NoEvent
    <3>4. CASE e.fd = listening_sock
      <4>1. Reported(e.fd) = {e} /\ Queued(e.fd) = {}
        BY <3>4 DEF Reported, EventInv, SoleEvent
      <4>2. Reported(e.fd)' = {} /\ Queued(e.fd)' = {Len(tasks) + 1}
        BY <3>1, <4>1, AppendToTasks DEF Reported
      <4>3. SoleEvent(listening_sock)'
        BY <3>2, <3>4, <4>1, <4>2, <2>0 DEF SoleEvent, EventInv
      <4> QED
        BY <3>1, <3>3, <3>4, <4>2, <4>3, <2>0 DEF EventInv, StandingApart
    <3>5. CASE e.fd # listening_sock
      <4>1. \A fd \in Standing : fd # e.fd
        BY <3>1, <3>5 DEF Standing
      <4> QED
        BY <3>1, <3>2, <3>3, <4>1, EventsElsewhere
    <3> QED
      BY <3>4, <3>5
  <2>21. ASSUME NEW e \in evlist, TimerEvent(e)
        PROVE  EventInv'
    <3>1. /\ ~ in_timer_loop /\ e.fd = timer_epfd
          /\ evlist' = evlist \ {e}
          /\ in_timer_loop' = TRUE
          /\ UNCHANGED <<reg, client_ptr_slab, tasks, pc, job>>
      BY <2>21 DEF TimerEvent, LoopFree
    <3>2. \A fd \in Standing : /\ Armed(fd)' = Armed(fd) /\ Held(fd)' = Held(fd)
                               /\ Queued(fd)' = Queued(fd)
      BY <3>1 DEF Armed, Held, Queued
    <3>3. Reported(listening_sock)' = Reported(listening_sock)
      BY <3>1, DescriptorsDisjoint DEF Reported
    <3>4. SoleEvent(listening_sock)'
      BY <3>2, <3>3, <2>0 DEF EventInv, SoleEvent
    <3>5. Reported(timer_epfd) = {e} /\ Reported(timer_epfd)' = {}
      BY <3>1 DEF Reported, EventInv, SoleEvent
    <3>6. NoEvent(timer_epfd)'
      BY <3>1, <3>2, <3>5, <2>0 DEF EventInv, SoleEvent, NoEvent
    <3>7. StandingApart'
      BY <3>1, <3>2, <3>3, <3>5, <2>0 DEF EventInv, StandingApart, Standing
    <3> QED
      BY <3>1, <3>4, <3>6, <3>7 DEF EventInv
  <2>22. ASSUME TimersDone
        PROVE  EventInv'
    <3>1. /\ in_timer_loop /\ in_timer_loop' = FALSE
          /\ reg' = Rearmed(reg, timer_epfd)
          /\ UNCHANGED <<evlist, client_ptr_slab, tasks, pc, job>>
      BY <2>22 DEF TimersDone
    <3>2. \A fd \in Standing : /\ Reported(fd)' = Reported(fd) /\ Held(fd)' = Held(fd)
                               /\ Queued(fd)' = Queued(fd)
      BY <3>1 DEF Reported, Held, Queued
    <3>3. /\ reg'[timer_epfd] = "armed"
          /\ reg'[listening_sock] = reg[listening_sock]
      BY <3>1, <2>0, <2>00, DescriptorsDisjoint DEF Rearmed, EventInv, StandingApart
    <3>4. SoleEvent(listening_sock)'
      BY <3>2, <3>3, <2>0 DEF EventInv, SoleEvent, Armed
    <3>5. SoleEvent(timer_epfd)'
      BY <3>1, <3>2, <3>3, <2>0 DEF EventInv, SoleEvent, NoEvent, Armed
    <3>6. StandingApart'
      BY <3>1, <3>2, <3>3, <2>0 DEF EventInv, StandingApart, Standing
    <3> QED
      BY <3>1, <3>4, <3>5, <3>6 DEF EventInv
  <2>23. ASSUME NEW w \in Workers, TakeTask(w)
        PROVE  EventInv'
    <3>1. /\ pc[w] = "idle" /\ tasks # <<>>
          /\ job[w] = 0
          /\ tasks' = Tail(tasks)
          /\ job' = [job EXCEPT ![w] = Head(tasks)]
          /\ pc' = [pc EXCEPT ![w] = "load"]
          /\ UNCHANGED <<reg, evlist, client_ptr_slab, in_timer_loop>>
      BY <2>23 DEF TakeTask, Pool!Take
    <3>2. \A fd \in Standing : Armed(fd)' = Armed(fd) /\ Reported(fd)' = Reported(fd)
      BY <3>1 DEF Armed, Reported
    <3>3. ASSUME NEW fd \in Standing
          PROVE  Held(fd)' = IF Head(tasks) = fd THEN Held(fd) \cup {w} ELSE Held(fd)
      BY <3>1, <2>0, <2>00 DEF Held
    <3>4. Head(tasks) # timer_epfd
      BY <3>1, TailOfTasks DEF EventInv, StandingApart
    <3>5. Queued(timer_epfd)' = {}
      BY <3>1, TailOfTasks DEF EventInv, StandingApart
    <3>6. SoleEvent(listening_sock)'
      <4>1. CASE Head(tasks) = listening_sock
        <5>1. Queued(listening_sock) = {1}
          BY <3>1, <4>1, TailOfTasks DEF EventInv, SoleEvent
        <5>2. Queued(listening_sock)' = {}
          BY <3>1, <5>1, TailOfTasks
        <5> QED
          BY <3>2, <3>3, <4>1, <5>1, <5>2, <2>0 DEF EventInv, SoleEvent
      <4>2. CASE Head(tasks) # listening_sock
        <5>1. ASSUME NEW i \in Queued(listening_sock), Queued(listening_sock) = {i}
              PROVE  Queued(listening_sock)' = {i - 1}
          <6>1. i \in 1 .. Len(tasks) /\ i # 1
            BY <3>1, <4>2, TailOfTasks
          <6>2. Len(tasks) \in Nat
            BY LenProperties DEF TypeOK
          <6>3. Queued(listening_sock)' =
                    {k \in 1 .. Len(tasks) - 1 : k + 1 \in Queued(listening_sock)}
            BY <3>1, TailOfTasks
          <6> QED
            BY <5>1, <6>1, <6>2, <6>3
        <5>2. Queued(listening_sock) = {} => Queued(listening_sock)' = {}
          BY <3>1, TailOfTasks
        <5> QED
          BY <3>2, <3>3, <4>2, <5>1, <5>2, <2>0 DEF EventInv, SoleEvent
      <4> QED
        BY <4>1, <4>2
    <3>7. SoleEvent(timer_epfd)' <=> SoleEvent(timer_epfd)
      BY <3>2, <3>3, <3>4, <3>5, <2>0 DEF EventInv, StandingApart, SoleEvent
    <3>8. NoEvent(timer_epfd)' <=> NoEvent(timer_epfd)
      BY <3>2, <3>3, <3>4, <3>5, <2>0 DEF EventInv, StandingApart, NoEvent
    <3>9. StandingApart'
      BY <3>1, <3>2, <3>4, <3>5, <2>0, <2>00 DEF EventInv, StandingApart
    <3> QED
      BY <3>1, <3>6, <3>7, <3>8, <3>9 DEF EventInv
  <2>24. ASSUME NEW w \in Workers, Accept(w)
        PROVE  EventInv'
    <3>1. /\ pc[w] = "load" /\ job[w] = listening_sock
          /\ pc' = [pc EXCEPT ![w] = "greet"]
          /\ UNCHANGED <<evlist, tasks, job, in_timer_loop>>
      BY <2>24 DEF Accept
    <3>2. \A fd \in Standing : /\ Reported(fd)' = Reported(fd) /\ Held(fd)' = Held(fd)
                               /\ Queued(fd)' = Queued(fd)
      BY <3>1, <2>00 DEF Reported, Held, Queued
    <3>3. \A fd \in Standing : /\ reg'[fd] = reg[fd]
                               /\ client_ptr_slab'[fd] = client_ptr_slab[fd]
      BY <2>24, <2>0, <2>00 DEF Accept, SetPtrs
    <3>5. StandingApart'
      BY <3>1, <3>2, <3>3, <2>0, <2>00 DEF EventInv, StandingApart
    <3>6. (in_timer_loop)' = in_timer_loop
      BY <3>1
    <3>7. /\ SoleEvent(listening_sock)' <=> SoleEvent(listening_sock)
          /\ SoleEvent(timer_epfd)' <=> SoleEvent(timer_epfd)
          /\ NoEvent(timer_epfd)' <=> NoEvent(timer_epfd)
      BY <3>2, <3>3, <2>0 DEF SoleEvent, NoEvent, Armed
    <3>8. /\ SoleEvent(listening_sock)'
          /\ IF in_timer_loop THEN NoEvent(timer_epfd)' ELSE SoleEvent(timer_epfd)'
      BY <3>7 DEF EventInv
    <3> QED
      BY <3>5, <3>6, <3>8 DEF EventInv
  <2>25. ASSUME NEW w \in Workers, Greet(w)
        PROVE  EventInv'
    <3>1. /\ pc[w] = "greet" /\ job[w] = listening_sock
          /\ reg' = Rearmed(reg, listening_sock)
          /\ pc' = [pc EXCEPT ![w] = "idle"]
          /\ job' = [job EXCEPT ![w] = 0]
          /\ UNCHANGED <<evlist, tasks, client_ptr_slab, in_timer_loop>>
      BY <2>25, <2>0 DEF Greet, Pool!Finish
    <3>2. \A fd \in Standing : Reported(fd)' = Reported(fd) /\ Queued(fd)' = Queued(fd)
      BY <3>1 DEF Reported, Queued
    <3>3. /\ reg'[listening_sock] = "armed"
          /\ reg'[timer_epfd] = reg[timer_epfd]
      BY <3>1, <2>0, <2>00, DescriptorsDisjoint DEF Rearmed, EventInv, StandingApart
    <3>4. w \in Held(listening_sock) /\ Held(listening_sock)' = Held(listening_sock) \ {w}
      BY <3>1, <2>0, <2>00 DEF Held
    <3>5. Held(timer_epfd)' = Held(timer_epfd)
      BY <3>1, <2>0, <2>00, DescriptorsDisjoint DEF Held
    <3>6. SoleEvent(listening_sock)'
      BY <3>2, <3>3, <3>4, <2>0 DEF EventInv, SoleEvent, Armed
    <3>7. /\ SoleEvent(timer_epfd)' <=> SoleEvent(timer_epfd)
          /\ NoEvent(timer_epfd)' <=> NoEvent(timer_epfd)
      BY <3>2, <3>3, <3>5, <2>0 DEF SoleEvent, NoEvent, Armed
    <3>8. StandingApart'
      BY <3>1, <3>2, <3>3, <2>0, <2>00 DEF EventInv, StandingApart, Standing
    <3> QED
      BY <3>1, <3>6, <3>7, <3>8 DEF EventInv
  <2>26. CASE UNCHANGED vars
    <3>1. Aside
      BY <2>26 DEF vars, Aside
    <3> QED
      BY <3>1, AsideKeepsEvents
  <2> QED
    BY <2>1, <2>2, <2>3, <2>4, <2>5, <2>6, <2>7, <2>8, <2>9, <2>10,
       <2>11, <2>12, <2>13, <2>14, <2>15, <2>16, <2>17, <2>18, <2>19,
       <2>20, <2>21, <2>22, <2>23, <2>24, <2>25, <2>26
    DEF Next, LoopSteps, WorkerSteps
<1> QED
  BY <1>1, <1>2, Typing, PTL DEF Spec

\* Theorem: at no time do two workers accept, and the listening socket is never
\* forgotten, for any number of workers and clients.
THEOREM AcceptorKept == Spec => []OneAcceptor
<1>1. EventInv => OneAcceptor
  BY SoleEventCounts DEF EventInv, OneAcceptor
<1> QED
  BY <1>1, EventsKept, PTL

\* Theorem: expired timers are always heard of again.
THEOREM TimersStayHeard == Spec => []TimersHeard
<1>1. /\ Cardinality({l \in {TRUE} : l}) = 1
      /\ Cardinality({l \in {FALSE} : l}) = 0
  <2>1. {l \in {TRUE} : l} = {TRUE} /\ {l \in {FALSE} : l} = {}
    OBVIOUS
  <2> QED
    BY <2>1, FS_Singleton, FS_EmptySet
<1>2. TypeOK /\ EventInv => TimersHeard
  <2> SUFFICES ASSUME TypeOK, EventInv PROVE TimersHeard
    OBVIOUS
  <2>1. CASE in_timer_loop = TRUE
    BY <2>1, <1>1, SoleEventCounts DEF EventInv, TimersHeard
  <2>2. CASE in_timer_loop = FALSE
    <3>1. Events(timer_epfd) = 1
      BY <2>2, SoleEventCounts DEF EventInv
    <3>2. Cardinality({l \in {in_timer_loop} : l}) = 0
      BY <2>2, <1>1
    <3> QED
      BY <3>1, <3>2 DEF TimersHeard
  <2> QED
    BY <2>1, <2>2 DEF TypeOK
<1> QED
  BY <1>2, Typing, EventsKept, PTL

================================================================================
