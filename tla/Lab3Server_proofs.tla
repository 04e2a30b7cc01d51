-------------------------- MODULE Lab3Server_proofs --------------------------
(***************************************************************************)
(* Proofs about Lab3Server for any number of clients and descriptors.      *)
(***************************************************************************)
EXTENDS Lab3Server, TLAPS

------------------------------------------------------------------------------
(* Types, and what holds of every setting *)

Ends    == {Sock(c) : c \in Clients} \cup {Pty(c) : c \in Clients}
Objects == {Closed, Stdin} \cup Ends
Events  == [fd : Fds, in : BOOLEAN, hup : BOOLEAN]

\* handle_client, from the first label that knows its descriptor; with a terminal;
\* with the terminal known to epoll.
WithSock == {"timer", "greet", "secret", "error", "ok", "drop", "pty", "fork",
             "add_sock", "add_pty", "link_pty", "link_sock", "done"}
WithPty  == {"fork", "add_sock", "add_pty", "link_pty", "link_sock"}
Linking  == {"link_pty", "link_sock"}

Busy == {"close", "close_pair", "read", "write"}

Typed ==
    /\ setting \in Settings
    /\ fdtab \in [Fds -> Objects] /\ epoll_fds \in [Fds -> Fds]
    /\ epset \subseteq [fd : Fds, of : Ends]
    /\ peer \in [Clients -> {"idle", "open", "left", "broken"}]
    /\ inbox \in [Clients -> {"nothing", "secret", "wrong", "line"}]
    /\ shell \in [Clients -> {"none", "starting", "running", "printed", "exited"}]
    /\ cell \in [Clients -> Fds] /\ sockfd \in [Clients -> Fds]
    /\ ptyfd \in [Clients -> Fds \cup {-1}]
    /\ pc \in [Clients -> {"none", "start"} \cup WithSock]
    /\ from \in [Clients -> Objects]
    /\ step \in {"wait"} \cup Busy
    /\ evlist \subseteq Events /\ current \in Events
    /\ in \in Objects \ {Stdin} /\ out_fd \in Fds
    /\ fate \in {"up", "SIGPIPE", "exit"}

\* Where the server takes a descriptor for a connection or a terminal it was one
\* when it was opened: descriptor 0 too, once it has been closed and used again.
HandedOut ==
    /\ \A c \in Clients :
        /\ pc[c] = "start" => fdtab[cell[c]] # Stdin
        /\ pc[c] \in WithSock => fdtab[sockfd[c]] # Stdin
        /\ pc[c] \in WithPty /\ ptyfd[c] # -1 => fdtab[ptyfd[c]] # Stdin
        /\ pc[c] \in Linking => ptyfd[c] # -1
    /\ \A r \in epset : fdtab[r.fd] # Stdin
    /\ \A e \in evlist : fdtab[e.fd] # Stdin
    /\ step \in Busy => fdtab[current.fd] # Stdin

\* Only clients of the setting have threads and descriptors, and what is to be
\* written has been read from one of them or its shell.
OfSetting ==
    /\ \A c \in Clients : (peer[c] # "idle" \/ pc[c] # "none") => c \in setting.clients
    /\ \A fd \in Fds : fdtab[fd].of \in setting.clients \cup {None}
    /\ in.of \in setting.clients \cup {None}
    /\ step = "write" => in.of # None

GeneralInv == Typed /\ HandedOut /\ OfSetting

\* In the lemmas on steps, <1>t, <1>h and <1>o are the three parts of GeneralInv;
\* below, <1>h, <1>o and <1>s those of Apart on threads and descriptors, <1>r the rest.

\* The objects a descriptor can refer to are told apart by kind and client.
LEMMA ObjectKinds ==
  /\ \A c \in Clients : /\ Sock(c).kind = "sock" /\ Sock(c).of = c
                        /\ Pty(c).kind = "pty" /\ Pty(c).of = c
                        /\ Sock(c) \in Ends /\ Pty(c) \in Ends
                        /\ c # None
  /\ Closed.kind = "free" /\ Closed.of = None /\ Stdin.kind = "stdin" /\ Stdin.of = None
  /\ \A o \in Objects : /\ o.kind = "sock" <=> o.of \in Clients /\ o = Sock(o.of)
                        /\ o.kind = "pty" <=> o.of \in Clients /\ o = Pty(o.of)
                        /\ o.kind = "free" <=> o = Closed
                        /\ o.kind = "stdin" <=> o = Stdin
                        /\ o \in Ends <=> o # Closed /\ o # Stdin
                        /\ o.of = None <=> o \notin Ends
<1>1. \A c \in Clients : /\ Sock(c).kind = "sock" /\ Sock(c).of = c
                         /\ Pty(c).kind = "pty" /\ Pty(c).of = c
                         /\ Sock(c) \in Ends /\ Pty(c) \in Ends
                         /\ c # None
  BY Lab3Assumption DEF Ends, Sock, Pty
<1>2. /\ Closed.kind = "free" /\ Closed.of = None
      /\ Stdin.kind = "stdin" /\ Stdin.of = None
  BY DEF Closed, Stdin
<1>3. ASSUME NEW o \in Objects
      PROVE  /\ o.kind = "sock" <=> o.of \in Clients /\ o = Sock(o.of)
             /\ o.kind = "pty" <=> o.of \in Clients /\ o = Pty(o.of)
             /\ o.kind = "free" <=> o = Closed
             /\ o.kind = "stdin" <=> o = Stdin
             /\ o \in Ends <=> o # Closed /\ o # Stdin
             /\ o.of = None <=> o \notin Ends
  <2>1. CASE o = Closed \/ o = Stdin
    BY <1>1, <1>2, <2>1 DEF Ends
  <2>2. CASE \E c \in Clients : o = Sock(c)
    BY <1>1, <1>2, <2>2
  <2>3. CASE \E c \in Clients : o = Pty(c)
    BY <1>1, <1>2, <2>3
  <2> QED
    BY <1>3, <2>1, <2>2, <2>3 DEF Objects, Ends
<1> QED
  BY <1>1, <1>2, <1>3

\* Descriptor 0 is one of the server's.
LEMMA Numbers == 0 \in Fds /\ -1 \notin Fds /\ Fds \subseteq Int
  BY Lab3Assumption DEF Fds

\* The object behind a number that is a descriptor, and behind one that is none.
LEMMA ObjType ==
  ASSUME Typed
  PROVE  \A fd : /\ Obj(fd) \in Objects
                 /\ fd \in Fds => Obj(fd) = fdtab[fd]
                 /\ fd \notin Fds => Obj(fd) = Closed
  BY DEF Obj, Typed, Objects

\* close() closes one descriptor, and hangs up at most the shell behind it.
LEMMA CloseType ==
  ASSUME Typed, NEW fd \in Fds, Close(fd)
  PROVE  /\ fdtab' = [fdtab EXCEPT ![fd] = Closed]
         /\ fdtab' \in [Fds -> Objects]
         /\ shell' \in [Clients -> {"none", "starting", "running", "printed", "exited"}]
         /\ \A c \in Clients : shell'[c] # shell[c] => fdtab[fd] = Pty(c)
         /\ UNCHANGED epset
<1>1. fdtab \in [Fds -> Objects]
  BY DEF Typed
<1>2. fdtab' = [fdtab EXCEPT ![fd] = Closed]
  BY <1>1 DEF Close
<1>3. fdtab' \in [Fds -> Objects]
  BY <1>1, <1>2 DEF Objects
<1>4. Obj(fd) = fdtab[fd]
  BY ObjType
<1>5. /\ shell' \in [Clients -> {"none", "starting", "running", "printed", "exited"}]
      /\ \A c \in Clients : shell'[c] # shell[c] => fdtab[fd] = Pty(c)
  BY <1>4 DEF Close, Typed
<1> QED
  BY <1>2, <1>3, <1>5 DEF Close

\* Reading leaves input and shells in their types, and starts no shell.
LEMMA DrainType ==
  ASSUME Typed, NEW o \in Objects, Drain(o)
  PROVE  /\ inbox' \in [Clients -> {"nothing", "secret", "wrong", "line"}]
         /\ shell' \in [Clients -> {"none", "starting", "running", "printed", "exited"}]
         /\ \A c \in Clients :
              shell'[c] # shell[c] => shell[c] = "printed" /\ shell'[c] = "running"
  BY ObjectKinds DEF Drain, Typed

\* A write may find that the peer has gone.
LEMMA PeerType ==
  ASSUME Typed, NEW o \in Objects
  PROVE  /\ PeerAfterWrite(o) \in [Clients -> {"idle", "open", "left", "broken"}]
         /\ \A c \in Clients : PeerAfterWrite(o)[c] # peer[c] => peer[c] = "left"
  BY ObjectKinds DEF PeerAfterWrite, Typed


\* main accepts: the lowest free descriptor was not the server's input.
LEMMA AcceptKeeps ==
  ASSUME GeneralInv, UNCHANGED setting, NEW c \in Clients, accept_new_client(c)
  PROVE  GeneralInv'
<1> USE DEF GeneralInv, outside, shells, memory, thread, loop
<1>1. PICK fd \in Fds : /\ fdtab' = [fdtab EXCEPT ![fd] = Sock(c)]
                        /\ cell' = [cell EXCEPT ![c] = fd]
                        /\ fdtab[fd] = Closed /\ Sock(c) \in Objects /\ Sock(c) # Stdin
  BY ObjectKinds DEF accept_new_client, IsLowestFree, Objects
<1>t. Typed'
  BY <1>1 DEF Typed, WithSock, Busy, accept_new_client
<1>h. HandedOut'
  BY <1>1, ObjectKinds DEF Typed, HandedOut, WithSock, WithPty, Linking, Busy,
     accept_new_client
<1>o. OfSetting'
  BY <1>1, ObjectKinds DEF Typed, OfSetting, accept_new_client
<1> QED
  BY <1>t, <1>h, <1>o

\* The thread takes its descriptor out of the memory it was given.
LEMMA StartKeeps ==
  ASSUME GeneralInv, UNCHANGED setting, NEW c \in Clients, Start(c)
  PROVE  GeneralInv'
<1> USE DEF GeneralInv, outside, shells, memory, thread, loop
<1>t. Typed'
  BY Numbers DEF Typed, WithSock, Busy, Start, Goto, Handed
<1>h. HandedOut'
  BY DEF Typed, HandedOut, WithSock, WithPty, Linking, Busy, Start, Goto, Handed
<1>o. OfSetting'
  BY DEF Typed, OfSetting, Start, Goto, Handed
<1> QED
  BY <1>t, <1>h, <1>o

\* setup_timer touches no descriptor.
LEMMA SetupTimerKeeps ==
  ASSUME GeneralInv, UNCHANGED setting, NEW c \in Clients, setup_timer(c)
  PROVE  GeneralInv'
<1> USE DEF GeneralInv, outside, shells, memory, thread, loop
<1>t. Typed'
  BY DEF Typed, WithSock, Busy, setup_timer, Goto
<1>h. HandedOut'
  BY DEF Typed, HandedOut, WithSock, WithPty, Linking, Busy, setup_timer, Goto
<1>o. OfSetting'
  BY DEF Typed, OfSetting, setup_timer, Goto
<1> QED
  BY <1>t, <1>h, <1>o

\* A message to the client: the write may fail, or raise SIGPIPE.
LEMMA SayKeeps ==
  ASSUME GeneralInv, UNCHANGED setting, NEW c \in Clients, NEW message,
         NEW next \in {"secret", "drop", "pty"},
         pc[c] \in {"greet", "error", "ok"}, Say(c, message, next)
  PROVE  GeneralInv'
<1> USE DEF GeneralInv, outside, shells, memory, thread, loop
<1>1. PICK o \in Objects :
        /\ peer' = PeerAfterWrite(o)
        /\ pc' \in {pc, [pc EXCEPT ![c] = "drop"], [pc EXCEPT ![c] = next]}
        /\ from' \in {from, [from EXCEPT ![c] = o]}
        /\ fate' \in {fate, "SIGPIPE"}
        /\ peer' \in [Clients -> {"idle", "open", "left", "broken"}]
        /\ \A d \in Clients : peer'[d] # peer[d] => peer[d] = "left"
  BY ObjType, PeerType DEF Say, Goto
<1>t. Typed'
  BY <1>1 DEF Typed, WithSock, Busy, Say, Goto
<1>h. HandedOut'
  BY <1>1 DEF Typed, HandedOut, WithSock, WithPty, Linking, Busy, Say, Goto
<1>o. OfSetting'
  BY <1>1 DEF Typed, OfSetting, Say, Goto
<1> QED
  BY <1>t, <1>h, <1>o

\* The answer to <rembash> is read.
LEMMA ReadSecretKeeps ==
  ASSUME GeneralInv, UNCHANGED setting, NEW c \in Clients, ReadSecret(c)
  PROVE  GeneralInv'
<1> USE DEF GeneralInv, outside, shells, memory, thread, loop
<1>1. /\ from[c] \in Objects /\ Drain(from[c]) /\ Closed \in Objects
      /\ pc[c] = "secret" /\ pc' \in {[pc EXCEPT ![c] = "ok"], [pc EXCEPT ![c] = "error"]}
  BY DEF ReadSecret, Goto, Compared, Typed, Objects
<1>t. Typed'
  BY <1>1, DrainType DEF Typed, WithSock, Busy, ReadSecret, Goto, Compared
<1>h. HandedOut'
  BY <1>1 DEF Typed, HandedOut, WithSock, WithPty, Linking, Busy, ReadSecret, Goto,
     Compared
<1>o. OfSetting'
  BY <1>1 DEF Typed, OfSetting, ReadSecret, Goto, Compared
<1> QED
  BY <1>t, <1>h, <1>o

\* The timer interrupts the read.
LEMMA TimerHandlerKeeps ==
  ASSUME GeneralInv, UNCHANGED setting, NEW c \in Clients, timer_handler(c)
  PROVE  GeneralInv'
<1> USE DEF GeneralInv, outside, shells, memory, thread, loop
<1>t. Typed'
  BY DEF Typed, WithSock, Busy, timer_handler, Goto, Objects
<1>h. HandedOut'
  BY DEF Typed, HandedOut, WithSock, WithPty, Linking, Busy, timer_handler, Goto, Objects
<1>o. OfSetting'
  BY DEF Typed, OfSetting, timer_handler, Goto, Objects
<1> QED
  BY <1>t, <1>h, <1>o

\* The thread gives its client up.
LEMMA DropKeeps ==
  ASSUME GeneralInv, UNCHANGED setting, NEW c \in Clients, Drop(c)
  PROVE  GeneralInv'
<1> USE DEF GeneralInv, outside, shells, memory, thread, loop
<1>1. /\ fdtab' = [fdtab EXCEPT ![sockfd[c]] = Closed]
      /\ fdtab' \in [Fds -> Objects]
      /\ shell' \in [Clients -> {"none", "starting", "running", "printed", "exited"}]
      /\ sockfd[c] \in Fds /\ UNCHANGED epset
  BY CloseType DEF Drop, Typed
<1>t. Typed'
  BY <1>1 DEF Typed, WithSock, Busy, Drop, Goto
<1>h. HandedOut'
  BY <1>1, ObjectKinds DEF Typed, HandedOut, WithSock, WithPty, Linking, Busy, Drop, Goto
<1>o. OfSetting'
  BY <1>1, ObjectKinds DEF Typed, OfSetting, Drop, Goto
<1> QED
  BY <1>t, <1>h, <1>o

\* The terminal is opened, or is not.
LEMMA SetupPtyKeeps ==
  ASSUME GeneralInv, UNCHANGED setting, NEW c \in Clients, setup_pty(c)
  PROVE  GeneralInv'
<1> USE DEF GeneralInv, outside, shells, memory, thread, loop
<1>1. \/ \E fd \in Fds : /\ fdtab' = [fdtab EXCEPT ![fd] = Pty(c)]
                         /\ ptyfd' = [ptyfd EXCEPT ![c] = fd]
                         /\ fdtab[fd] = Closed /\ Pty(c) \in Objects /\ Pty(c) # Stdin
      \/ ptyfd' = [ptyfd EXCEPT ![c] = -1] /\ UNCHANGED fdtab
  BY ObjectKinds DEF setup_pty, IsLowestFree, Objects
<1>t. Typed'
  BY <1>1 DEF Typed, WithSock, Busy, setup_pty, Goto
<1>h. HandedOut'
  <2>1. \A fd \in Fds : fdtab[fd] # Stdin => fdtab'[fd] # Stdin
    BY <1>1 DEF Typed
  <2>2. /\ \A d \in Clients \ {c} : ptyfd'[d] = ptyfd[d]
        /\ ptyfd'[c] # -1 => fdtab'[ptyfd'[c]] # Stdin
        /\ pc' = [pc EXCEPT ![c] = "fork"] /\ pc[c] = "pty"
        /\ UNCHANGED <<epset, cell, sockfd, evlist, step, current>>
    BY <1>1 DEF setup_pty, Goto, Typed
  <2>3. \A d \in Clients : ptyfd[d] \in Fds \cup {-1}
    BY DEF Typed
  <2> QED
    BY <2>1, <2>2, <2>3 DEF Typed, HandedOut, WithSock, WithPty, Linking, Events
<1>o. OfSetting'
  <2>1. c \in setting.clients /\ Pty(c).of = c
    BY ObjectKinds DEF setup_pty, OfSetting
  <2>2. \A fd \in Fds : fdtab'[fd].of \in setting.clients \cup {None}
    BY <1>1, <2>1 DEF Typed, OfSetting
  <2>3. /\ pc' = [pc EXCEPT ![c] = "fork"]
        /\ UNCHANGED <<peer, in, step>>
    BY DEF setup_pty, Goto
  <2> QED
    BY <2>1, <2>2, <2>3 DEF Typed, OfSetting
<1> QED
  BY <1>t, <1>h, <1>o

\* fork, or the end of the server.
LEMMA ForkKeeps ==
  ASSUME GeneralInv, UNCHANGED setting, NEW c \in Clients, Fork(c)
  PROVE  GeneralInv'
<1> USE DEF GeneralInv, outside, shells, memory, thread, loop
<1>t. Typed'
  BY DEF Typed, WithSock, Busy, Fork, Goto
<1>h. HandedOut'
  BY DEF Typed, HandedOut, WithSock, WithPty, Linking, Busy, Fork, Goto
<1>o. OfSetting'
  BY DEF Typed, OfSetting, Fork, Goto
<1> QED
  BY <1>t, <1>h, <1>o

\* epoll_ctl adds what is open, and never the server's input.
LEMMA AddKeeps ==
  ASSUME GeneralInv, UNCHANGED setting, NEW c \in Clients, NEW fd \in Fds \cup {-1},
         NEW next \in {"add_pty", "link_pty"},
         \/ pc[c] = "add_sock" /\ fd = sockfd[c] /\ next = "add_pty"
         \/ pc[c] = "add_pty" /\ fd = ptyfd[c] /\ next = "link_pty",
         Add(c, fd, next),
         UNCHANGED <<epoll_fds, fdtab, timer, timers, outside, inherited, client_sockfd,
                     cell, sockfd, ptyfd, from, loop, fate>>
  PROVE  GeneralInv'
<1> USE DEF GeneralInv, outside, shells, memory, thread, loop
<1>1. \/ /\ pc' = [pc EXCEPT ![c] = "done"] /\ UNCHANGED epset
         /\ shell' \in {shell, [shell EXCEPT ![c] = "exited"]}
      \/ /\ fd \in Fds /\ fdtab[fd] # Stdin
         /\ \E r \in [fd : Fds, of : Ends] : r.fd = fd /\ epset' = epset \cup {r}
         /\ pc' = [pc EXCEPT ![c] = next] /\ UNCHANGED shell
  <2>1. CASE Obj(fd) = Closed
    BY <2>1 DEF Add, Goto, Typed
  <2>2. CASE Obj(fd) # Closed
    <3>1. fd \in Fds /\ fd # -1 /\ Obj(fd) = fdtab[fd]
      BY <2>2, ObjType, Numbers
    <3>2. fdtab[fd] # Stdin
      BY <3>1 DEF HandedOut, WithSock, WithPty
    <3>3. fdtab[fd] \in Ends
      BY <2>2, <3>1, <3>2, ObjectKinds DEF Typed
    <3>4. [fd |-> fd, of |-> Obj(fd)] \in [fd : Fds, of : Ends]
      BY <3>1, <3>3
    <3> QED
      BY <2>2, <3>1, <3>2, <3>4 DEF Add, Goto
  <2> QED
    BY <2>1, <2>2
<1>t. Typed'
  BY <1>1 DEF Typed, WithSock, Busy, Add, Goto
<1>h. HandedOut'
  BY <1>1, Numbers DEF Typed, HandedOut, WithSock, WithPty, Linking, Busy, Add, Goto
<1>o. OfSetting'
  BY <1>1 DEF Typed, OfSetting, Add, Goto
<1> QED
  BY <1>t, <1>h, <1>o

\* The two assignments to epoll_fds.
LEMMA LinkKeeps ==
  ASSUME GeneralInv, UNCHANGED setting, NEW c \in Clients, setup_client_pty_epoll_units(c),
         pc[c] \in Linking
  PROVE  GeneralInv'
<1> USE DEF GeneralInv, outside, shells, memory, thread, loop
<1>1. /\ ptyfd[c] \in Fds /\ UNCHANGED <<epset, shell>>
      /\ \/ /\ pc[c] = "link_pty" /\ pc' = [pc EXCEPT ![c] = "link_sock"]
            /\ epoll_fds' = [epoll_fds EXCEPT ![ptyfd[c]] = sockfd[c]]
         \/ /\ pc[c] = "link_sock" /\ pc' = [pc EXCEPT ![c] = "done"]
            /\ epoll_fds' = [epoll_fds EXCEPT ![sockfd[c]] = ptyfd[c]]
  BY DEF setup_client_pty_epoll_units, Goto, Linking, Typed, HandedOut
<1>t. Typed'
  BY <1>1 DEF Typed, WithSock, Busy, setup_client_pty_epoll_units, Goto
<1>h. HandedOut'
  BY <1>1 DEF Typed, HandedOut, WithSock, WithPty, Linking, Busy,
     setup_client_pty_epoll_units, Goto
<1>o. OfSetting'
  BY <1>1 DEF Typed, OfSetting, setup_client_pty_epoll_units, Goto
<1> QED
  BY <1>t, <1>h, <1>o

\* The child becomes a shell.
LEMMA ExecKeeps ==
  ASSUME GeneralInv, UNCHANGED setting, NEW c \in Clients, exec_bash(c)
  PROVE  GeneralInv'
<1> USE DEF GeneralInv, outside, shells, memory, thread, loop
<1>t. Typed'
  BY DEF Typed, WithSock, Busy, exec_bash
<1>h. HandedOut'
  BY DEF Typed, HandedOut, WithSock, WithPty, Linking, Busy, exec_bash
<1>o. OfSetting'
  BY DEF Typed, OfSetting, exec_bash
<1> QED
  BY <1>t, <1>h, <1>o

\* Clients and shells act on the outside only.
LEMMA EnvironmentKeeps ==
  ASSUME GeneralInv, UNCHANGED setting, NEW c \in Clients, Environment(c)
  PROVE  GeneralInv'
<1> USE DEF GeneralInv, outside, shells, memory, thread, loop
<1>t. Typed'
  BY DEF Typed, WithSock, Busy, Environment, Connect, Send, Leave, ShellPrints, ExitShell
<1>h. HandedOut'
  BY DEF Typed, HandedOut, WithSock, WithPty, Linking, Busy, Environment, Connect, Send,
     Leave, ShellPrints, ExitShell
<1>o. OfSetting'
  BY DEF Typed, OfSetting, Environment, Connect, Send, Leave, ShellPrints, ExitShell
<1> QED
  BY <1>t, <1>h, <1>o

\* epoll_wait reports what it watches.
LEMMA WaitKeeps ==
  ASSUME GeneralInv, UNCHANGED setting, epoll_wait
  PROVE  GeneralInv'
<1> USE DEF GeneralInv, outside, shells, memory, thread, loop
<1>1. /\ \A e \in evlist' : e \in Events /\ \E r \in epset : r.fd = e.fd
  <2>1. \A o : Input(o) \in BOOLEAN /\ HungUp(o) \in BOOLEAN
    BY DEF Input, HungUp
  <2>2. \A e \in evlist' : \E r \in epset :
           e = [fd |-> r.fd, in |-> Input(r.of), hup |-> HungUp(r.of)]
    BY DEF epoll_wait, Watched
  <2>3. \A r \in epset : r.fd \in Fds
    BY DEF Typed
  <2> QED
    BY <2>1, <2>2, <2>3 DEF Events
<1>t. Typed'
  BY <1>1 DEF Typed, WithSock, Busy, epoll_wait, LoopTail
<1>h. HandedOut'
  BY <1>1 DEF Typed, HandedOut, WithSock, WithPty, Linking, Busy, epoll_wait, LoopTail
<1>o. OfSetting'
  BY <1>1 DEF Typed, OfSetting, epoll_wait, LoopTail
<1> QED
  BY <1>t, <1>h, <1>o

\* An event is taken up.
LEMMA HandleEventKeeps ==
  ASSUME GeneralInv, UNCHANGED setting, HandleEvent
  PROVE  GeneralInv'
<1> USE DEF GeneralInv, outside, shells, memory, thread, loop
<1>1. PICK e \in evlist :
        /\ evlist' = evlist \ {e} /\ current' = e /\ e \in Events
        /\ fdtab[e.fd] # Stdin /\ e.fd \in Fds
        /\ \/ step' = "close" /\ UNCHANGED <<in, out_fd>>
           \/ step' = "read" /\ in' = fdtab[e.fd] /\ out_fd' = epoll_fds[e.fd]
  BY ObjType DEF HandleEvent, Transfer, Typed, HandedOut, Events
<1>t. Typed'
  BY <1>1 DEF Typed, WithSock, Busy, HandleEvent, LoopTail
<1>h. HandedOut'
  BY <1>1 DEF Typed, HandedOut, WithSock, WithPty, Linking, Busy, HandleEvent, LoopTail
<1>o. OfSetting'
  BY <1>1, ObjectKinds DEF Typed, OfSetting, HandleEvent, LoopTail
<1> QED
  BY <1>t, <1>h, <1>o

\* transfer_data reads.
LEMMA TransferReadKeeps ==
  ASSUME GeneralInv, UNCHANGED setting, TransferRead
  PROVE  GeneralInv'
<1> USE DEF GeneralInv, outside, shells, memory, thread, loop
<1>1. /\ step = "read"
      /\ \/ /\ Data(in) /\ Drain(in) /\ step' = "write"
            /\ UNCHANGED <<current, in, out_fd>>
         \/ /\ step' = "close" /\ current' = [current EXCEPT !.in = FALSE]
            /\ current' \in Events /\ current'.fd = current.fd
            /\ in' = Closed /\ out_fd' = 0 /\ UNCHANGED <<inbox, shell>>
  BY DEF TransferRead, Go, Failed, Typed, Events
<1>2. /\ Closed \in Objects \ {Stdin} /\ Closed.of = None /\ 0 \in Fds
      /\ Data(in) => in \in Ends /\ in.of # None
      /\ Drain(in) => /\ inbox' \in [Clients -> {"nothing", "secret", "wrong", "line"}]
                      /\ shell' \in [Clients -> {"none", "starting", "running", "printed",
                                                 "exited"}]
  BY ObjectKinds, Numbers, DrainType DEF Data, Typed, Objects
<1>t. Typed'
  BY <1>1, <1>2 DEF Typed, WithSock, Busy, TransferRead, LoopTail
<1>h. HandedOut'
  BY <1>1 DEF Typed, HandedOut, WithSock, WithPty, Linking, Busy, TransferRead, LoopTail
<1>o. OfSetting'
  BY <1>1, <1>2, ObjectKinds DEF Typed, OfSetting, TransferRead, LoopTail
<1> QED
  BY <1>t, <1>h, <1>o

\* transfer_data writes.
LEMMA TransferWriteKeeps ==
  ASSUME GeneralInv, UNCHANGED setting, TransferWrite
  PROVE  GeneralInv'
<1> USE DEF GeneralInv, outside, shells, memory, thread, loop
<1>0. PICK o \in Objects :
         /\ step = "write"
         /\ IF o = Closed THEN Failed ELSE Rest
         /\ fate' = IF Kills(o) THEN "SIGPIPE" ELSE fate
         /\ peer' = PeerAfterWrite(o)
  BY ObjType DEF TransferWrite, Typed
<1>4. /\ peer' \in [Clients -> {"idle", "open", "left", "broken"}]
      /\ \A c \in Clients : peer'[c] # peer[c] => peer[c] = "left"
  BY <1>0, PeerType
<1>5. /\ \/ step' = "wait" /\ current' = Nothing /\ in' = Closed /\ out_fd' = 0
         \/ /\ step' = "close" /\ current' = [current EXCEPT !.in = FALSE]
            /\ in' = Closed /\ out_fd' = 0
  BY <1>0 DEF Rest, Failed
<1>6. LET e == [current EXCEPT !.in = FALSE] IN e \in Events /\ e.fd = current.fd
  BY DEF Typed, Events
<1>1. /\ step = "write"
      /\ peer' \in [Clients -> {"idle", "open", "left", "broken"}]
      /\ \A c \in Clients : peer'[c] # peer[c] => peer[c] = "left"
      /\ fate' \in {fate, "SIGPIPE"}
      /\ \/ step' = "wait" /\ current' = Nothing /\ in' = Closed /\ out_fd' = 0
         \/ /\ step' = "close" /\ current' = [current EXCEPT !.in = FALSE]
            /\ current' \in Events /\ current'.fd = current.fd
            /\ in' = Closed /\ out_fd' = 0
  BY <1>0, <1>4, <1>5, <1>6
<1>2. /\ Closed \in Objects \ {Stdin} /\ Closed.of = None /\ 0 \in Fds /\ Nothing \in Events
  BY ObjectKinds, Numbers DEF Objects, Nothing, Events
<1>t. Typed'
  BY <1>1, <1>2 DEF Typed, WithSock, Busy, TransferWrite, LoopTail
<1>h. HandedOut'
  BY <1>1 DEF Typed, HandedOut, WithSock, WithPty, Linking, Busy, TransferWrite, LoopTail
<1>o. OfSetting'
  BY <1>1, <1>2, ObjectKinds DEF Typed, OfSetting, TransferWrite, LoopTail
<1> QED
  BY <1>t, <1>h, <1>o

\* close_hung_fds closes a descriptor and the one epoll_fds leads to.
LEMMA CloseHungKeeps ==
  ASSUME GeneralInv, UNCHANGED setting, close_hung_fds
  PROVE  GeneralInv'
<1> USE DEF GeneralInv, outside, shells, memory, thread, loop
<1>1. PICK fd \in Fds : Close(fd) /\ step \in {"close", "close_pair"}
  BY DEF close_hung_fds, Typed, Events
<1>2. /\ fdtab' = [fdtab EXCEPT ![fd] = Closed]
      /\ fdtab' \in [Fds -> Objects]
      /\ shell' \in [Clients -> {"none", "starting", "running", "printed", "exited"}]
      /\ UNCHANGED epset
  BY <1>1, CloseType
<1>3. /\ Closed \in Objects \ {Stdin} /\ Closed.of = None /\ 0 \in Fds /\ Nothing \in Events
      /\ \/ step' = "close_pair" /\ UNCHANGED <<current, in, out_fd>>
         \/ /\ step' = "read" /\ current' = current /\ in' = fdtab[current.fd]
            /\ out_fd' = epoll_fds[current.fd]
         \/ step' = "wait" /\ current' = Nothing /\ in' = Closed /\ out_fd' = 0
  BY ObjectKinds, Numbers, ObjType
  DEF Objects, Nothing, Events, close_hung_fds, Go, Rest, Transfer, Typed
<1>4. UNCHANGED <<epset, peer, inbox, cell, pc, sockfd, ptyfd, from, evlist, epoll_fds, fate>>
  BY <1>2 DEF close_hung_fds, LoopTail
<1>t. Typed'
  BY <1>1, <1>2, <1>3, <1>4 DEF Typed, HandedOut, Busy, Events
<1>h. HandedOut'
  BY <1>1, <1>2, <1>3, ObjectKinds DEF Typed, HandedOut, WithSock, WithPty, Linking, Busy,
     close_hung_fds, LoopTail
<1>o. OfSetting'
  <2>1. \A f \in Fds : fdtab'[f].of \in setting.clients \cup {None}
    BY <1>2, <1>3 DEF Typed, OfSetting
  <2> QED
    BY <1>1, <1>3, <1>4, <2>1 DEF Typed, OfSetting, Events
<1> QED
  BY <1>t, <1>h, <1>o

\* A step that changes nothing.
LEMMA StutterKeeps ==
  ASSUME GeneralInv, UNCHANGED setting, UNCHANGED vars
  PROVE  GeneralInv'
<1> USE DEF GeneralInv, outside, shells, memory, thread, loop
<1>t. Typed'
  BY DEF Typed, WithSock, Busy, vars
<1>h. HandedOut'
  BY DEF Typed, HandedOut, WithSock, WithPty, Linking, Busy, vars
<1>o. OfSetting'
  BY DEF Typed, OfSetting, vars
<1> QED
  BY <1>t, <1>h, <1>o

\* Theorem: in every setting, a descriptor that the server takes for a connection or a
\* terminal never was its input, and only the setting's clients have any.
THEOREM GeneralKept == Spec => []GeneralInv
<1>1. Init => GeneralInv
  <2> SUFFICES ASSUME Init PROVE GeneralInv
    OBVIOUS
  <2>1. Typed
    BY ObjectKinds, Numbers DEF Init, Typed, Objects, Events, Nothing
  <2>2. HandedOut
    BY DEF Init, HandedOut, WithSock, WithPty, Linking, Busy
  <2>3. OfSetting
    BY ObjectKinds DEF Init, OfSetting
  <2> QED
    BY <2>1, <2>2, <2>3 DEF GeneralInv
<1>2. GeneralInv /\ [Next]_vars => GeneralInv'
  <2> SUFFICES ASSUME GeneralInv, [Next]_vars PROVE GeneralInv'
    OBVIOUS
  <2>1. CASE UNCHANGED vars
    BY <2>1, StutterKeeps DEF vars
  <2>2. CASE LoopSteps /\ UNCHANGED setting
    BY <2>2, WaitKeeps, HandleEventKeeps, TransferReadKeeps, TransferWriteKeeps,
       CloseHungKeeps DEF LoopSteps, transfer_data
  <2>3. ASSUME NEW c \in Clients, handle_protocol(c), UNCHANGED setting
        PROVE  GeneralInv'
    BY <2>3, SayKeeps, ReadSecretKeeps DEF handle_protocol
  <2>4. ASSUME NEW c \in Clients, setup_client_pty_epoll_units(c), UNCHANGED setting
        PROVE  GeneralInv'
    <3>1. sockfd[c] \in Fds /\ ptyfd[c] \in Fds \cup {-1}
      BY DEF GeneralInv, Typed
    <3> QED
      BY <2>4, <3>1, AddKeeps, LinkKeeps DEF setup_client_pty_epoll_units, Linking
  <2>5. ASSUME NEW c \in Clients, ThreadSteps(c), UNCHANGED setting
        PROVE  GeneralInv'
    BY <2>3, <2>4, <2>5, AcceptKeeps, StartKeeps, SetupTimerKeeps, TimerHandlerKeeps,
       DropKeeps, SetupPtyKeeps, ForkKeeps, ExecKeeps DEF ThreadSteps, handle_client
  <2>6. ASSUME NEW c \in Clients, Environment(c), UNCHANGED setting
        PROVE  GeneralInv'
    BY <2>6, EnvironmentKeeps
  <2> QED
    BY <2>1, <2>2, <2>5, <2>6 DEF Next
<1> QED
  BY <1>1, <1>2, PTL DEF Spec

\* Theorem: every reachable state is well typed.  epoll_fds leads from descriptors to
\* descriptors, although setup_pty may have failed, and transfer_data never reads
\* from the server's own input.
THEOREM Typing == Spec => []TypeOK
<1>1. GeneralInv => TypeOK
  <2> SUFFICES ASSUME GeneralInv PROVE TypeOK
    OBVIOUS
  <2>1. fdtab \in [Fds -> {Closed, Stdin} \cup {Sock(c) : c \in Clients}
                                       \cup {Pty(c) : c \in Clients}]
    <3>1. Objects = {Closed, Stdin} \cup {Sock(c) : c \in Clients}
                                    \cup {Pty(c) : c \in Clients}
      BY DEF Objects, Ends
    <3> QED
      BY <3>1 DEF GeneralInv, Typed
  <2>2. in.kind \in {"free", "sock", "pty"}
    <3>1. in \in Objects /\ in # Stdin
      BY DEF GeneralInv, Typed
    <3>2. CASE in \in Ends
      <4>1. PICK c \in Clients : in = Sock(c) \/ in = Pty(c)
        BY <3>2 DEF Ends
      <4> QED
        BY <4>1, ObjectKinds
    <3>3. CASE in = Closed
      BY <3>3, ObjectKinds
    <3> QED
      BY <3>1, <3>2, <3>3 DEF Objects
  <2> QED
    BY <2>1, <2>2 DEF GeneralInv, Typed, TypeOK
<1> QED
  BY GeneralKept, <1>1, PTL

------------------------------------------------------------------------------
(* Settings in which no client leaves and no shell exits *)

Calm == setting.events \cap {"leave", "exit"} = {}

\* A thread that has given its client to epoll closes nothing any more.
Watching == {"add_pty", "link_pty", "link_sock", "done"}
EndsOf(c) == {Sock(c), Pty(c)}

\* A thread has the descriptors it was given, ...
Held ==
    \A c \in Clients :
        /\ pc[c] = "start" => fdtab[cell[c]] = Sock(c)
        /\ pc[c] \in WithSock \ {"done"} => fdtab[sockfd[c]] = Sock(c)
        /\ pc[c] \in WithPty /\ ptyfd[c] # -1 => fdtab[ptyfd[c]] = Pty(c)

\* ... and what a descriptor refers to tells the thread that has it.
Owned ==
    /\ \A fd \in Fds, c \in Clients :
        /\ fdtab[fd] = Sock(c) => \/ pc[c] = "start" /\ fd = cell[c]
                                  \/ pc[c] \in WithSock /\ fd = sockfd[c]
        /\ fdtab[fd] = Pty(c) => /\ pc[c] \in WithPty \cup {"done"}
                                 /\ fd = ptyfd[c] /\ shell[c] # "exited"
    /\ fdtab[0] = Stdin

\* Nobody has left, and a shell was forked by its thread.
Staying ==
    \A c \in Clients :
        /\ peer[c] \in {"idle", "open"}
        /\ pc[c] # "none" => peer[c] = "open"
        /\ pc[c] \notin {"add_sock"} \cup Watching => shell[c] = "none"

\* epoll_fds leads from an end of a session to an end of the same session.
Linked ==
    \A fd \in Fds :
        epoll_fds[fd] = 0 \/ \E c \in Clients :
            /\ pc[c] \in Watching
            /\ fdtab[fd] \in EndsOf(c) /\ fdtab[epoll_fds[fd]] \in EndsOf(c)

\* What epoll watches is open, and its events are no hang-ups.
Heard ==
    /\ \A r \in epset : /\ fdtab[r.fd] = r.of
                        /\ \E c \in Clients : pc[c] \in Watching /\ r.of \in EndsOf(c)
    /\ \A e \in evlist : ~e.hup /\ \E r \in epset : r.fd = e.fd
    /\ step \in {"wait", "read", "write"}

\* transfer_data is between two ends of one session, or writes to descriptor 0.
Transferring ==
    step \in {"read", "write"} =>
        \E c \in Clients : /\ pc[c] \in Watching /\ in \in EndsOf(c)
                           /\ fdtab[current.fd] = in
                           /\ out_fd = 0 \/ fdtab[out_fd] \in EndsOf(c)

Apart == Held /\ Owned /\ Staying /\ Linked /\ Heard /\ Transferring

\* An object is the end of one session only.
LEMMA EndsDiffer ==
  /\ \A c, d \in Clients : EndsOf(c) \cap EndsOf(d) # {} => c = d
  /\ \A c, d \in Clients : Sock(c) # Pty(d) /\ (Sock(c) = Sock(d) \/ Pty(c) = Pty(d) => c = d)
  /\ \A c \in Clients : Closed \notin EndsOf(c) /\ Stdin \notin EndsOf(c)
  /\ Closed # Stdin
<1>1. \A c, d \in Clients : Sock(c) # Pty(d) /\ (Sock(c) = Sock(d) \/ Pty(c) = Pty(d) => c = d)
  BY ObjectKinds
<1>2. \A c \in Clients : Closed \notin EndsOf(c) /\ Stdin \notin EndsOf(c)
  BY ObjectKinds DEF EndsOf
<1>3. Closed # Stdin
  BY ObjectKinds
<1> QED
  BY <1>1, <1>2, <1>3 DEF EndsOf

\* While the ends of the sessions that epoll watches stay where they are, so do
\* epoll_fds, the events and the transfer under way.
LEMMA EndsStay ==
  ASSUME GeneralInv, Apart,
         \A fd \in Fds, c \in Clients :
            pc[c] \in Watching /\ fdtab[fd] \in EndsOf(c)
            => pc'[c] \in Watching /\ fdtab'[fd] = fdtab[fd],
         UNCHANGED <<epoll_fds, epset, evlist, step, current, in, out_fd>>
  PROVE  Linked' /\ Heard' /\ Transferring'
<1>1. Linked'
  BY DEF GeneralInv, Typed, Apart, Linked, EndsOf
<1>2. Heard'
  <2>1. ASSUME NEW r \in epset
        PROVE  /\ fdtab'[r.fd] = r.of
               /\ \E c \in Clients : pc'[c] \in Watching /\ r.of \in EndsOf(c)
    <3>1. PICK c \in Clients : pc[c] \in Watching /\ r.of \in EndsOf(c)
      BY DEF Apart, Heard
    <3>2. r.fd \in Fds /\ fdtab[r.fd] = r.of
      BY DEF Apart, Heard, GeneralInv, Typed
    <3> QED
      BY <3>1, <3>2
  <2> QED
    BY <2>1 DEF Apart, Heard, EndsOf
<1>3. Transferring'
  <2>1. ASSUME step \in {"read", "write"}
        PROVE  \E c \in Clients : /\ pc'[c] \in Watching /\ in \in EndsOf(c)
                                  /\ fdtab'[current.fd] = in
                                  /\ out_fd = 0 \/ fdtab'[out_fd] \in EndsOf(c)
    <3>1. PICK c \in Clients : /\ pc[c] \in Watching /\ in \in EndsOf(c)
                               /\ fdtab[current.fd] = in
                               /\ out_fd = 0 \/ fdtab[out_fd] \in EndsOf(c)
      BY <2>1 DEF Apart, Transferring
    <3>2. current.fd \in Fds /\ out_fd \in Fds
      BY DEF GeneralInv, Typed, Events
    <3> QED
      BY <3>1, <3>2
  <2> QED
    BY <2>1 DEF Transferring, EndsOf
<1> QED
  BY <1>1, <1>2, <1>3


\* main accepts: the new descriptor was no end of a session.
LEMMA AcceptApart ==
  ASSUME GeneralInv, Calm, Apart, UNCHANGED setting, NEW c \in Clients,
         accept_new_client(c)
  PROVE  Apart'
<1> USE DEF outside, shells, memory, thread, loop
<1>1. PICK fd \in Fds : /\ fdtab' = [fdtab EXCEPT ![fd] = Sock(c)]
                        /\ cell' = [cell EXCEPT ![c] = fd] /\ fdtab[fd] = Closed
  BY DEF accept_new_client, IsLowestFree
<1>h. Held'
  <2>1. /\ \A f \in Fds : fdtab[f] # Closed => fdtab'[f] = fdtab[f]
        /\ fdtab'[fd] = Sock(c) /\ cell'[c] = fd
        /\ pc' = [pc EXCEPT ![c] = "start"]
        /\ \A d \in Clients \ {c} : cell'[d] = cell[d]
        /\ UNCHANGED <<sockfd, ptyfd>>
    BY <1>1 DEF accept_new_client, GeneralInv, Typed
  <2>2. \A d \in Clients : Sock(d) # Closed /\ Pty(d) # Closed
    BY EndsDiffer DEF EndsOf
  <2> QED
    BY <2>1, <2>2 DEF GeneralInv, Typed, Apart, Held, WithSock, WithPty
<1>o. Owned'
  <2>1. ASSUME NEW f \in Fds, NEW d \in Clients
        PROVE  /\ fdtab'[f] = Sock(d) => \/ pc'[d] = "start" /\ f = cell'[d]
                                         \/ pc'[d] \in WithSock /\ f = sockfd'[d]
               /\ fdtab'[f] = Pty(d) => /\ pc'[d] \in WithPty \cup {"done"}
                                        /\ f = ptyfd'[d] /\ shell'[d] # "exited"
    <3>1. /\ pc[c] = "none" /\ pc' = [pc EXCEPT ![c] = "start"]
          /\ UNCHANGED <<sockfd, ptyfd, shell>>
      BY DEF accept_new_client
    <3>2. CASE f = fd
      BY <1>1, <3>1, <3>2, EndsDiffer DEF GeneralInv, Typed
    <3>3. CASE f # fd
      <4>1. fdtab'[f] = fdtab[f]
        BY <1>1, <3>3 DEF GeneralInv, Typed
      <4>2. CASE d = c
        BY <3>1, <4>1, <4>2 DEF Apart, Owned, WithSock, WithPty
      <4>3. CASE d # c
        BY <1>1, <3>1, <4>1, <4>3 DEF Apart, Owned, GeneralInv, Typed
      <4> QED
        BY <4>2, <4>3
    <3> QED
      BY <3>2, <3>3
  <2>2. fdtab'[0] = Stdin
    BY <1>1, EndsDiffer, Numbers DEF Apart, Owned, GeneralInv, Typed
  <2> QED
    BY <2>1, <2>2 DEF Owned
<1>s. Staying'
  BY <1>1, EndsDiffer DEF GeneralInv, Typed, Apart, Staying, Owned, Watching, WithSock,
     WithPty, accept_new_client
<1>r. Linked' /\ Heard' /\ Transferring'
  BY <1>1, EndsDiffer, EndsStay DEF GeneralInv, Typed, Watching, accept_new_client
<1> QED
  BY <1>h, <1>o, <1>s, <1>r DEF Apart

\* The thread finds its own descriptor in the memory it was given.
LEMMA StartApart ==
  ASSUME GeneralInv, Calm, Apart, UNCHANGED setting, NEW c \in Clients, Start(c)
  PROVE  Apart'
<1> USE DEF outside, shells, memory, thread, loop
<1>h. Held'
  BY DEF GeneralInv, Typed, Apart, Held, WithSock, WithPty, Start, Goto, Handed
<1>o. Owned'
  BY DEF GeneralInv, Typed, Apart, Owned, WithSock, WithPty, Start, Goto, Handed
<1>s. Staying'
  BY DEF GeneralInv, Typed, Apart, Staying, Owned, Watching, WithSock, WithPty, Start,
     Goto, Handed
<1>r. Linked' /\ Heard' /\ Transferring'
  BY EndsStay DEF GeneralInv, Typed, Watching, Start, Goto, Handed
<1> QED
  BY <1>h, <1>o, <1>s, <1>r DEF Apart

\* setup_timer touches no descriptor.
LEMMA SetupTimerApart ==
  ASSUME GeneralInv, Calm, Apart, UNCHANGED setting, NEW c \in Clients, setup_timer(c)
  PROVE  Apart'
<1> USE DEF outside, shells, memory, thread, loop
<1>h. Held'
  BY DEF GeneralInv, Typed, Apart, Held, WithSock, WithPty, setup_timer, Goto
<1>o. Owned'
  BY DEF GeneralInv, Typed, Apart, Owned, WithSock, WithPty, setup_timer, Goto
<1>s. Staying'
  BY DEF GeneralInv, Typed, Apart, Staying, Owned, Watching, WithSock, WithPty,
     setup_timer, Goto
<1>r. Linked' /\ Heard' /\ Transferring'
  BY EndsStay DEF GeneralInv, Typed, Watching, setup_timer, Goto
<1> QED
  BY <1>h, <1>o, <1>s, <1>r DEF Apart

\* Nobody has left, so a message changes no connection.
LEMMA SayApart ==
  ASSUME GeneralInv, Calm, Apart, UNCHANGED setting, NEW c \in Clients, NEW message,
         NEW next \in {"secret", "drop", "pty"},
         pc[c] \in {"greet", "error", "ok"}, Say(c, message, next)
  PROVE  Apart'
<1> USE DEF outside, shells, memory, thread, loop
<1>1. peer' = peer
  <2>1. Obj(sockfd[c]) \in Objects
    BY ObjType DEF GeneralInv
  <2>2. \A d \in Clients : peer[d] # "left"
    BY DEF Apart, Staying
  <2> QED
    BY <2>1, <2>2, ObjectKinds DEF Say, PeerAfterWrite
<1>2. pc' \in {pc, [pc EXCEPT ![c] = "drop"], [pc EXCEPT ![c] = next]}
  BY DEF Say, Goto
<1>h. Held'
  BY <1>1, <1>2 DEF GeneralInv, Typed, Apart, Held, WithSock, WithPty, Say, Goto
<1>o. Owned'
  BY <1>1, <1>2 DEF GeneralInv, Typed, Apart, Owned, WithSock, WithPty, Say, Goto
<1>s. Staying'
  BY <1>1, <1>2 DEF GeneralInv, Typed, Apart, Staying, Owned, Watching, WithSock, WithPty,
     Say, Goto
<1>r. Linked' /\ Heard' /\ Transferring'
  BY <1>2, EndsStay DEF GeneralInv, Typed, Watching, Say, Goto
<1> QED
  BY <1>h, <1>o, <1>s, <1>r DEF Apart

\* Reading the secret starts or ends no shell.
LEMMA ReadSecretApart ==
  ASSUME GeneralInv, Calm, Apart, UNCHANGED setting, NEW c \in Clients, ReadSecret(c)
  PROVE  Apart'
<1> USE DEF outside, shells, memory, thread, loop
<1>1. /\ pc[c] = "secret" /\ pc' \in {[pc EXCEPT ![c] = "ok"], [pc EXCEPT ![c] = "error"]}
      /\ \A d \in Clients : shell'[d] # shell[d] => shell[d] # "none" /\ shell'[d] = "running"
  BY DrainType DEF ReadSecret, Goto, Compared, GeneralInv, Typed
<1>h. Held'
  BY <1>1 DEF GeneralInv, Typed, Apart, Held, WithSock, WithPty, ReadSecret, Goto
<1>o. Owned'
  BY <1>1 DEF GeneralInv, Typed, Apart, Owned, WithSock, WithPty, ReadSecret, Goto
<1>s. Staying'
  BY <1>1 DEF GeneralInv, Typed, Apart, Staying, Owned, Watching, WithSock, WithPty,
     ReadSecret, Goto
<1>r. Linked' /\ Heard' /\ Transferring'
  BY <1>1, EndsStay DEF GeneralInv, Typed, Watching, ReadSecret, Goto
<1> QED
  BY <1>h, <1>o, <1>s, <1>r DEF Apart

\* The timer interrupts the read.
LEMMA TimerHandlerApart ==
  ASSUME GeneralInv, Calm, Apart, UNCHANGED setting, NEW c \in Clients, timer_handler(c)
  PROVE  Apart'
<1> USE DEF outside, shells, memory, thread, loop
<1>h. Held'
  BY DEF GeneralInv, Typed, Apart, Held, WithSock, WithPty, timer_handler, Goto
<1>o. Owned'
  BY DEF GeneralInv, Typed, Apart, Owned, WithSock, WithPty, timer_handler, Goto
<1>s. Staying'
  BY DEF GeneralInv, Typed, Apart, Staying, Owned, Watching, WithSock, WithPty,
     timer_handler, Goto
<1>r. Linked' /\ Heard' /\ Transferring'
  BY EndsStay DEF GeneralInv, Typed, Watching, timer_handler, Goto
<1> QED
  BY <1>h, <1>o, <1>s, <1>r DEF Apart

\* What a thread closes is the socket of its own client, which epoll does not watch.
LEMMA DropApart ==
  ASSUME GeneralInv, Calm, Apart, UNCHANGED setting, NEW c \in Clients, Drop(c)
  PROVE  Apart'
<1> USE DEF outside, shells, memory, thread, loop
<1>1. /\ pc[c] = "drop" /\ fdtab[sockfd[c]] = Sock(c) /\ sockfd[c] \in Fds
  BY DEF Drop, Apart, Held, WithSock, GeneralInv, Typed
<1>2. /\ fdtab' = [fdtab EXCEPT ![sockfd[c]] = Closed]
      /\ \A d \in Clients : shell'[d] = shell[d]
      /\ UNCHANGED epset
  BY <1>1, CloseType, EndsDiffer DEF Drop, GeneralInv, Typed
<1>h. Held'
  BY <1>1, <1>2, EndsDiffer DEF GeneralInv, Typed, Apart, Held, WithSock, WithPty, Drop,
     Goto
<1>o. Owned'
  <2>1. ASSUME NEW f \in Fds
        PROVE  fdtab'[f] = IF f = sockfd[c] THEN Closed ELSE fdtab[f]
    BY <1>2 DEF GeneralInv, Typed
  <2>2. /\ pc' = [pc EXCEPT ![c] = "done"] /\ UNCHANGED <<cell, sockfd, ptyfd>>
    BY DEF Drop, Goto
  <2>3. \A d \in Clients : Closed # Sock(d) /\ Closed # Pty(d)
    BY EndsDiffer DEF EndsOf
  <2>4. fdtab'[0] = Stdin
    BY <1>1, <2>1, ObjectKinds, Numbers DEF Apart, Owned
  <2> QED
    BY <1>1, <1>2, <2>1, <2>2, <2>3, <2>4
    DEF GeneralInv, Typed, Apart, Owned, WithSock, WithPty
<1>s. Staying'
  BY <1>1, <1>2, EndsDiffer DEF GeneralInv, Typed, Apart, Staying, Owned, Watching,
     WithSock, WithPty, Drop, Goto
<1>r. Linked' /\ Heard' /\ Transferring'
  <2>1. ASSUME NEW fd \in Fds, NEW d \in Clients, pc[d] \in Watching, fdtab[fd] \in EndsOf(d)
        PROVE  pc'[d] \in Watching /\ fdtab'[fd] = fdtab[fd]
    <3>1. d # c
      BY <1>1, <2>1 DEF Watching
    <3>2. fd # sockfd[c]
      <4>1. Sock(c) \in EndsOf(c)
        BY DEF EndsOf
      <4> QED
        BY <1>1, <2>1, <3>1, <4>1, EndsDiffer
    <3> QED
      BY <1>2, <2>1, <3>1, <3>2 DEF Drop, Goto, GeneralInv, Typed
  <2> QED
    BY <1>2, <2>1, EndsStay DEF Drop
<1> QED
  BY <1>h, <1>o, <1>s, <1>r DEF Apart

\* The terminal gets a descriptor that was closed.
LEMMA SetupPtyApart ==
  ASSUME GeneralInv, Calm, Apart, UNCHANGED setting, NEW c \in Clients, setup_pty(c)
  PROVE  Apart'
<1> USE DEF outside, shells, memory, thread, loop
<1>1. \/ \E fd \in Fds : /\ fdtab' = [fdtab EXCEPT ![fd] = Pty(c)]
                         /\ ptyfd' = [ptyfd EXCEPT ![c] = fd] /\ fdtab[fd] = Closed
      \/ ptyfd' = [ptyfd EXCEPT ![c] = -1] /\ UNCHANGED fdtab
  BY DEF setup_pty, IsLowestFree
<1>h. Held'
  <2>1. /\ \A f \in Fds : fdtab[f] # Closed => fdtab'[f] = fdtab[f]
        /\ ptyfd'[c] # -1 => fdtab'[ptyfd'[c]] = Pty(c)
        /\ pc' = [pc EXCEPT ![c] = "fork"] /\ pc[c] = "pty"
        /\ \A d \in Clients \ {c} : ptyfd'[d] = ptyfd[d]
        /\ UNCHANGED <<sockfd, cell>>
    BY <1>1 DEF setup_pty, Goto, GeneralInv, Typed
  <2>2. \A d \in Clients : Sock(d) # Closed /\ Pty(d) # Closed
    BY EndsDiffer DEF EndsOf
  <2> QED
    BY <2>1, <2>2 DEF GeneralInv, Typed, Apart, Held, WithSock, WithPty
<1>o. Owned'
  <2>1. /\ pc[c] = "pty" /\ pc' = [pc EXCEPT ![c] = "fork"]
        /\ UNCHANGED <<cell, sockfd, shell>>
    BY DEF setup_pty, Goto
  <2>2. \A f \in Fds : fdtab[f] # Pty(c)
    BY <2>1 DEF Apart, Owned, WithPty
  <2>3. CASE ptyfd' = [ptyfd EXCEPT ![c] = -1] /\ UNCHANGED fdtab
    BY <2>1, <2>2, <2>3, Numbers DEF GeneralInv, Typed, Apart, Owned, WithSock, WithPty
  <2>4. ASSUME NEW fd \in Fds, fdtab' = [fdtab EXCEPT ![fd] = Pty(c)],
               ptyfd' = [ptyfd EXCEPT ![c] = fd], fdtab[fd] = Closed
        PROVE  Owned'
    <3>1. \A f \in Fds : fdtab'[f] = IF f = fd THEN Pty(c) ELSE fdtab[f]
      BY <2>4 DEF GeneralInv, Typed
    <3>2. fdtab'[0] = Stdin
      BY <2>4, <3>1, EndsDiffer, Numbers DEF Apart, Owned
    <3>3. shell[c] # "exited"
      BY <2>1 DEF Apart, Staying, Watching
    <3>4. ASSUME NEW f \in Fds, NEW d \in Clients
          PROVE  /\ fdtab'[f] = Sock(d) => \/ pc'[d] = "start" /\ f = cell'[d]
                                           \/ pc'[d] \in WithSock /\ f = sockfd'[d]
                 /\ fdtab'[f] = Pty(d) => /\ pc'[d] \in WithPty \cup {"done"}
                                          /\ f = ptyfd'[d] /\ shell'[d] # "exited"
      <4>1. CASE f = fd
        BY <2>1, <2>4, <3>1, <3>3, <4>1, EndsDiffer DEF GeneralInv, Typed, WithPty
      <4>2. CASE f # fd
        BY <2>1, <2>2, <2>4, <3>1, <4>2
        DEF GeneralInv, Typed, Apart, Owned, WithSock, WithPty
      <4> QED
        BY <4>1, <4>2
    <3> QED
      BY <3>2, <3>4 DEF Owned
  <2> QED
    BY <1>1, <2>3, <2>4
<1>s. Staying'
  BY <1>1, EndsDiffer DEF GeneralInv, Typed, Apart, Staying, Owned, Watching, WithSock,
     WithPty, setup_pty, Goto
<1>r. Linked' /\ Heard' /\ Transferring'
  BY <1>1, EndsDiffer, EndsStay DEF GeneralInv, Typed, Watching, setup_pty, Goto
<1> QED
  BY <1>h, <1>o, <1>s, <1>r DEF Apart

\* A child starts, or the server ends.
LEMMA ForkApart ==
  ASSUME GeneralInv, Calm, Apart, UNCHANGED setting, NEW c \in Clients, Fork(c)
  PROVE  Apart'
<1> USE DEF outside, shells, memory, thread, loop
<1>h. Held'
  BY DEF GeneralInv, Typed, Apart, Held, WithSock, WithPty, Fork, Goto
<1>o. Owned'
  BY DEF GeneralInv, Typed, Apart, Owned, WithSock, WithPty, Fork, Goto
<1>s. Staying'
  BY DEF GeneralInv, Typed, Apart, Staying, Owned, Watching, WithSock, WithPty, Fork, Goto
<1>r. Linked' /\ Heard' /\ Transferring'
  BY EndsStay DEF GeneralInv, Typed, Watching, Fork, Goto
<1> QED
  BY <1>h, <1>o, <1>s, <1>r DEF Apart

\* A shell starts, unless its terminal has been closed.
LEMMA ExecApart ==
  ASSUME GeneralInv, Calm, Apart, UNCHANGED setting, NEW c \in Clients, exec_bash(c)
  PROVE  Apart'
<1> USE DEF outside, shells, memory, thread, loop
<1>h. Held'
  BY DEF GeneralInv, Typed, Apart, Held, WithSock, WithPty, exec_bash
<1>o. Owned'
  BY DEF GeneralInv, Typed, Apart, Owned, WithSock, WithPty, exec_bash
<1>s. Staying'
  BY DEF GeneralInv, Typed, Apart, Staying, Owned, Watching, WithSock, WithPty, exec_bash
<1>r. Linked' /\ Heard' /\ Transferring'
  BY EndsStay DEF GeneralInv, Typed, Watching, exec_bash
<1> QED
  BY <1>h, <1>o, <1>s, <1>r DEF Apart

\* Clients only connect and send, and shells only print.
LEMMA EnvironmentApart ==
  ASSUME GeneralInv, Calm, Apart, UNCHANGED setting, NEW c \in Clients, Environment(c)
  PROVE  Apart'
<1> USE DEF outside, shells, memory, thread, loop
<1>h. Held'
  BY DEF GeneralInv, Typed, Apart, Held, WithSock, WithPty, Environment, Connect, Send,
     Leave, ShellPrints, ExitShell, Calm, Allowed
<1>o. Owned'
  BY DEF GeneralInv, Typed, Apart, Owned, WithSock, WithPty, Environment, Connect, Send,
     Leave, ShellPrints, ExitShell, Calm, Allowed
<1>s. Staying'
  BY DEF GeneralInv, Typed, Apart, Staying, Owned, Watching, WithSock, WithPty,
     Environment, Connect, Send, Leave, ShellPrints, ExitShell, Calm, Allowed
<1>r. Linked' /\ Heard' /\ Transferring'
  BY EndsStay DEF GeneralInv, Typed, Watching, Environment, Connect, Send, Leave,
     ShellPrints, ExitShell, Calm, Allowed
<1> QED
  BY <1>h, <1>o, <1>s, <1>r DEF Apart

\* A step that changes nothing.
LEMMA StutterApart ==
  ASSUME GeneralInv, Calm, Apart, UNCHANGED setting, UNCHANGED vars
  PROVE  Apart'
<1> USE DEF outside, shells, memory, thread, loop
<1>h. Held'
  BY DEF GeneralInv, Typed, Apart, Held, WithSock, WithPty, vars
<1>o. Owned'
  BY DEF GeneralInv, Typed, Apart, Owned, WithSock, WithPty, vars
<1>s. Staying'
  BY DEF GeneralInv, Typed, Apart, Staying, Owned, Watching, WithSock, WithPty, vars
<1>r. Linked' /\ Heard' /\ Transferring'
  BY EndsStay DEF GeneralInv, Typed, Watching, vars
<1> QED
  BY <1>h, <1>o, <1>s, <1>r DEF Apart

\* What is added is an end of the thread's session; only a terminal that was never
\* opened cannot be added.
LEMMA AddApart ==
  ASSUME GeneralInv, Calm, Apart, UNCHANGED setting, NEW c \in Clients,
         NEW fd \in Fds \cup {-1}, NEW next \in {"add_pty", "link_pty"},
         \/ pc[c] = "add_sock" /\ fd = sockfd[c] /\ next = "add_pty"
         \/ pc[c] = "add_pty" /\ fd = ptyfd[c] /\ next = "link_pty",
         Add(c, fd, next),
         UNCHANGED <<epoll_fds, fdtab, timer, timers, outside, inherited, client_sockfd,
                     cell, sockfd, ptyfd, from, loop, fate>>
  PROVE  Apart'
<1> USE DEF outside, shells, memory, thread, loop
<1>1. \/ /\ pc[c] = "add_pty" /\ ptyfd[c] = -1
         /\ pc' = [pc EXCEPT ![c] = "done"] /\ UNCHANGED epset
         /\ \A d \in Clients \ {c} : shell'[d] = shell[d]
      \/ /\ fd \in Fds /\ fdtab[fd] \in EndsOf(c)
         /\ epset' = epset \cup {[fd |-> fd, of |-> fdtab[fd]]}
         /\ pc' = [pc EXCEPT ![c] = next] /\ UNCHANGED shell
  <2>1. \/ pc[c] = "add_pty" /\ fd = -1 /\ ptyfd[c] = -1
        \/ fd \in Fds /\ fdtab[fd] \in EndsOf(c)
    BY DEF Apart, Held, WithSock, WithPty, EndsOf, GeneralInv, Typed
  <2>2. CASE fd = -1
    BY <2>1, <2>2, ObjType, Numbers DEF Add, Goto, GeneralInv, Typed
  <2>3. CASE fd # -1
    BY <2>1, <2>3, ObjType, EndsDiffer DEF Add, Goto, GeneralInv
  <2> QED
    BY <2>2, <2>3
<1>h. Held'
  BY <1>1 DEF GeneralInv, Typed, Apart, Held, WithSock, WithPty
<1>o. Owned'
  BY <1>1, Numbers DEF GeneralInv, Typed, Apart, Owned, WithSock, WithPty
<1>s. Staying'
  BY <1>1 DEF GeneralInv, Typed, Apart, Staying, Watching
<1>r. Linked' /\ Heard' /\ Transferring'
  <2>1. pc'[c] \in Watching /\ \A d \in Clients \ {c} : pc'[d] = pc[d]
    BY <1>1 DEF GeneralInv, Typed, Watching
  <2>2. Linked'
    BY <2>1 DEF Apart, Linked, EndsOf
  <2>3. Transferring'
    BY <2>1 DEF Apart, Transferring, EndsOf
  <2>4. \A r \in epset' : r \in epset \/ (r.fd = fd /\ r.of = fdtab[fd] /\ r.of \in EndsOf(c))
    BY <1>1
  <2>5. Heard'
    <3>1. \A r \in epset' : /\ fdtab[r.fd] = r.of
                            /\ \E d \in Clients : pc'[d] \in Watching /\ r.of \in EndsOf(d)
      BY <2>1, <2>4 DEF Apart, Heard
    <3>2. epset \subseteq epset'
      BY <1>1
    <3> QED
      BY <3>1, <3>2 DEF Apart, Heard, EndsOf
  <2> QED
    BY <2>2, <2>3, <2>5
<1> QED
  BY <1>h, <1>o, <1>s, <1>r DEF Apart

\* The two assignments lead from one end of the session to the other.
LEMMA LinkApart ==
  ASSUME GeneralInv, Calm, Apart, UNCHANGED setting, NEW c \in Clients,
         setup_client_pty_epoll_units(c), pc[c] \in Linking
  PROVE  Apart'
<1> USE DEF outside, shells, memory, thread, loop
<1>1. /\ ptyfd[c] \in Fds /\ sockfd[c] \in Fds
      /\ fdtab[ptyfd[c]] \in EndsOf(c) /\ fdtab[sockfd[c]] \in EndsOf(c)
  BY DEF Apart, Held, WithSock, WithPty, EndsOf, GeneralInv, Typed, HandedOut, Linking
<1>2. \E fd, to \in {ptyfd[c], sockfd[c]} : epoll_fds' = [epoll_fds EXCEPT ![fd] = to]
  BY DEF setup_client_pty_epoll_units, Linking
<1>3. /\ pc[c] \in Watching /\ pc[c] \in WithPty /\ pc[c] # "done"
      /\ \/ pc[c] = "link_pty" /\ pc' = [pc EXCEPT ![c] = "link_sock"]
         \/ pc[c] = "link_sock" /\ pc' = [pc EXCEPT ![c] = "done"]
      /\ UNCHANGED <<fdtab, peer, shell, cell, sockfd, ptyfd, epset, loop>>
  BY DEF setup_client_pty_epoll_units, Goto, Linking, Watching, WithPty
<1>4. \A d \in Clients : pc[d] \in Watching => pc'[d] \in Watching
  BY <1>3 DEF Watching, GeneralInv, Typed
<1>h. Held'
  BY <1>3 DEF GeneralInv, Typed, Apart, Held, WithSock, WithPty
<1>o. Owned'
  BY <1>3 DEF GeneralInv, Typed, Apart, Owned, WithSock, WithPty
<1>s. Staying'
  BY <1>3, <1>4 DEF GeneralInv, Typed, Apart, Staying, Watching
<1>r. Linked' /\ Heard' /\ Transferring'
  <2>1. Linked'
    <3> SUFFICES ASSUME NEW f \in Fds, epoll_fds'[f] # 0
                 PROVE  \E d \in Clients : /\ pc'[d] \in Watching
                                           /\ fdtab[f] \in EndsOf(d)
                                           /\ fdtab[epoll_fds'[f]] \in EndsOf(d)
      BY <1>3 DEF Linked, EndsOf
    <3>1. CASE epoll_fds'[f] = epoll_fds[f]
      BY <1>4, <3>1 DEF Apart, Linked
    <3>2. CASE epoll_fds'[f] # epoll_fds[f]
      <4>1. f \in {ptyfd[c], sockfd[c]} /\ epoll_fds'[f] \in {ptyfd[c], sockfd[c]}
        BY <1>2, <3>2 DEF GeneralInv, Typed
      <4> QED
        BY <1>1, <1>3, <1>4, <4>1
    <3> QED
      BY <3>1, <3>2
  <2>2. Heard'
    BY <1>3, <1>4 DEF Apart, Heard, EndsOf
  <2>3. Transferring'
    BY <1>3, <1>4 DEF Apart, Transferring, EndsOf
  <2> QED
    BY <2>1, <2>2, <2>3
<1> QED
  BY <1>h, <1>o, <1>s, <1>r DEF Apart

\* What is reported is an end of a session, and no hang-up.
LEMMA WaitApart ==
  ASSUME GeneralInv, Calm, Apart, UNCHANGED setting, epoll_wait
  PROVE  Apart'
<1> USE DEF outside, shells, memory, thread, loop
<1>0. UNCHANGED <<fdtab, peer, shell, cell, pc, sockfd, ptyfd, epoll_fds, epset,
                  step, current, in, out_fd>>
  BY DEF epoll_wait, LoopTail
<1>1. \A e \in evlist' : \E r \in epset : r.fd = e.fd /\ e.hup = HungUp(r.of)
  BY DEF epoll_wait, Watched
<1>2. \A r \in epset : ~HungUp(r.of)
  <2> SUFFICES ASSUME NEW r \in epset PROVE ~HungUp(r.of)
    OBVIOUS
  <2>1. PICK c \in Clients : r.of \in EndsOf(c)
    BY DEF Apart, Heard
  <2>2. r.fd \in Fds /\ fdtab[r.fd] = r.of
    BY DEF Apart, Heard, GeneralInv, Typed
  <2>3. CASE r.of = Sock(c)
    BY <2>3, ObjectKinds DEF HungUp, Apart, Staying
  <2>4. CASE r.of = Pty(c)
    BY <2>2, <2>4, ObjectKinds DEF HungUp, Apart, Owned
  <2> QED
    BY <2>1, <2>3, <2>4 DEF EndsOf
<1>h. Held'
  BY <1>0 DEF Apart, Held
<1>o. Owned'
  BY <1>0 DEF Apart, Owned
<1>s. Staying'
  BY <1>0 DEF Apart, Staying
<1>r. Linked' /\ Heard' /\ Transferring'
  <2>1. Linked' /\ Transferring'
    BY <1>0 DEF Apart, Linked, Transferring, EndsOf
  <2>2. \A e \in evlist' : ~e.hup /\ \E r \in epset' : r.fd = e.fd
    BY <1>0, <1>1, <1>2
  <2>3. Heard'
    BY <1>0, <2>2 DEF Apart, Heard, EndsOf
  <2> QED
    BY <2>1, <2>3
<1> QED
  BY <1>h, <1>o, <1>s, <1>r DEF Apart

\* A transfer begins at an end of a session, and leads to the other or to 0.
LEMMA HandleEventApart ==
  ASSUME GeneralInv, Calm, Apart, UNCHANGED setting, HandleEvent
  PROVE  Apart'
<1> USE DEF outside, shells, memory, thread, loop
<1>0. UNCHANGED <<fdtab, peer, shell, cell, pc, sockfd, ptyfd, epoll_fds, epset>>
  BY DEF HandleEvent, LoopTail
<1>1. PICK e \in evlist :
        /\ evlist' = evlist \ {e} /\ e.fd \in Fds
        /\ current' = e /\ step' = "read" /\ in' = fdtab[e.fd] /\ out_fd' = epoll_fds[e.fd]
  BY ObjType DEF HandleEvent, Transfer, Apart, Heard, GeneralInv, Typed, Events
<1>2. PICK c \in Clients : pc[c] \in Watching /\ fdtab[e.fd] \in EndsOf(c)
  BY DEF Apart, Heard
<1>3. epoll_fds[e.fd] = 0 \/ fdtab[epoll_fds[e.fd]] \in EndsOf(c)
  <2>1. CASE epoll_fds[e.fd] # 0
    <3>1. PICK d \in Clients : /\ fdtab[e.fd] \in EndsOf(d)
                               /\ fdtab[epoll_fds[e.fd]] \in EndsOf(d)
      BY <1>1, <2>1 DEF Apart, Linked
    <3>2. c = d
      BY <1>2, <3>1, EndsDiffer
    <3> QED
      BY <3>1, <3>2
  <2> QED
    BY <2>1
<1>h. Held'
  BY <1>0 DEF Apart, Held
<1>o. Owned'
  BY <1>0 DEF Apart, Owned
<1>s. Staying'
  BY <1>0 DEF Apart, Staying
<1>r. Linked' /\ Heard' /\ Transferring'
  <2>1. Linked'
    BY <1>0 DEF Apart, Linked, EndsOf
  <2>2. Heard'
    BY <1>0, <1>1 DEF Apart, Heard, EndsOf
  <2>3. Transferring'
    BY <1>0, <1>1, <1>2, <1>3 DEF Transferring, EndsOf
  <2> QED
    BY <2>1, <2>2, <2>3
<1> QED
  BY <1>h, <1>o, <1>s, <1>r DEF Apart

\* The read finds data: without any it would wait, for nobody has hung up.
LEMMA TransferReadApart ==
  ASSUME GeneralInv, Calm, Apart, UNCHANGED setting, TransferRead
  PROVE  Apart'
<1> USE DEF outside, shells, memory, thread, loop
<1>1. PICK c \in Clients : /\ pc[c] \in Watching /\ in \in EndsOf(c)
                           /\ fdtab[current.fd] = in
  BY DEF TransferRead, Apart, Transferring
<1>2. current.fd \in Fds
  BY DEF GeneralInv, Typed, Events
<1>3. Data(in)
  <2>1. ~Blocks(in)
    BY DEF TransferRead
  <2>2. CASE in = Sock(c)
    <3>1. peer[c] = "open"
      BY <1>1 DEF Apart, Staying, Watching
    <3> QED
      BY <2>1, <2>2, <3>1, ObjectKinds DEF Blocks, Input, HungUp, Data
  <2>3. CASE in = Pty(c)
    <3>1. shell[c] # "exited"
      BY <1>1, <1>2, <2>3 DEF Apart, Owned
    <3> QED
      BY <2>1, <2>3, <3>1, ObjectKinds DEF Blocks, Input, HungUp, Data
  <2> QED
    BY <1>1, <2>2, <2>3 DEF EndsOf
<1>4. /\ UNCHANGED <<fdtab, peer, cell, pc, sockfd, ptyfd, epoll_fds, epset, evlist,
                     current, in, out_fd>>
      /\ step = "read" /\ step' = "write"
      /\ \A d \in Clients :
           shell'[d] # shell[d] => shell[d] = "printed" /\ shell'[d] = "running"
  BY <1>3, DrainType DEF TransferRead, Go, LoopTail, GeneralInv, Typed
<1>h. Held'
  BY <1>4 DEF Apart, Held
<1>o. Owned'
  BY <1>4 DEF Apart, Owned
<1>s. Staying'
  BY <1>4 DEF Apart, Staying
<1>r. Linked' /\ Heard' /\ Transferring'
  <2>1. Linked'
    BY <1>4 DEF Apart, Linked, EndsOf
  <2>2. Heard'
    BY <1>4 DEF Apart, Heard, EndsOf
  <2>3. Transferring'
    BY <1>4 DEF Apart, Transferring, EndsOf
  <2> QED
    BY <2>1, <2>2, <2>3
<1> QED
  BY <1>h, <1>o, <1>s, <1>r DEF Apart

\* The write finds its descriptor open, and its peer there.
LEMMA TransferWriteApart ==
  ASSUME GeneralInv, Calm, Apart, UNCHANGED setting, TransferWrite
  PROVE  Apart'
<1> USE DEF outside, shells, memory, thread, loop
<1>1. Obj(out_fd) # Closed
  <2>1. out_fd \in Fds
    BY DEF GeneralInv, Typed
  <2>2. Obj(out_fd) = fdtab[out_fd]
    BY <2>1, ObjType DEF GeneralInv
  <2>3. CASE out_fd = 0
    BY <2>2, <2>3, ObjectKinds DEF Apart, Owned
  <2>4. CASE out_fd # 0
    BY <2>2, <2>4, EndsDiffer DEF TransferWrite, Apart, Transferring
  <2> QED
    BY <2>3, <2>4
<1>2. peer' = peer
  <2>1. Obj(out_fd) \in Objects
    BY ObjType DEF GeneralInv
  <2>2. \A d \in Clients : peer[d] # "left"
    BY DEF Apart, Staying
  <2> QED
    BY <2>1, <2>2, ObjectKinds DEF TransferWrite, PeerAfterWrite
<1>0. /\ UNCHANGED <<fdtab, peer, shell, cell, pc, sockfd, ptyfd, epoll_fds, epset, evlist>>
      /\ step' = "wait"
  BY <1>1, <1>2 DEF TransferWrite, Rest, LoopTail
<1>h. Held'
  BY <1>0 DEF Apart, Held
<1>o. Owned'
  BY <1>0 DEF Apart, Owned
<1>s. Staying'
  BY <1>0 DEF Apart, Staying
<1>r. Linked' /\ Heard' /\ Transferring'
  <2>1. Linked'
    BY <1>0 DEF Apart, Linked, EndsOf
  <2>2. Heard'
    BY <1>0 DEF Apart, Heard, EndsOf
  <2>3. Transferring'
    BY <1>0 DEF Transferring
  <2> QED
    BY <2>1, <2>2, <2>3
<1> QED
  BY <1>h, <1>o, <1>s, <1>r DEF Apart

CalmInv == Calm => Apart

\* Theorem: in a setting in which no client leaves and no shell exits, for any number
\* of clients, whatever their secrets, timers and failing terminals, a descriptor
\* that handle_client gives up and main hands out again leads to nobody else's session.
THEOREM SessionsApart == Spec => []CalmInv
<1>1. Init /\ GeneralInv => CalmInv
  <2> SUFFICES ASSUME Init, GeneralInv PROVE Apart
    BY DEF CalmInv
  <2>1. Held /\ Staying
    BY DEF Init, Held, Staying, WithSock, WithPty
  <2>2. Owned
    BY EndsDiffer, Numbers DEF Init, Owned, EndsOf
  <2>3. Linked /\ Heard /\ Transferring
    BY DEF Init, Linked, Heard, Transferring
  <2> QED
    BY <2>1, <2>2, <2>3 DEF Apart
<1>2. GeneralInv /\ CalmInv /\ [Next]_vars => CalmInv'
  <2> SUFFICES ASSUME GeneralInv, CalmInv, [Next]_vars, Calm' PROVE Apart'
    BY DEF CalmInv
  <2>1. Calm /\ Apart /\ UNCHANGED setting
    BY DEF Next, vars, Calm, CalmInv
  <2>2. CASE UNCHANGED vars
    BY <2>1, <2>2, StutterApart
  <2>3. CASE LoopSteps
    <3>1. ~ close_hung_fds
      BY <2>1 DEF close_hung_fds, Apart, Heard
    <3> QED
      BY <2>1, <2>3, <3>1, WaitApart, HandleEventApart, TransferReadApart,
         TransferWriteApart DEF LoopSteps, transfer_data
  <2>4. ASSUME NEW c \in Clients, handle_protocol(c)
        PROVE  Apart'
    BY <2>1, <2>4, SayApart, ReadSecretApart DEF handle_protocol
  <2>5. ASSUME NEW c \in Clients, setup_client_pty_epoll_units(c)
        PROVE  Apart'
    <3>1. sockfd[c] \in Fds /\ ptyfd[c] \in Fds \cup {-1}
      BY DEF GeneralInv, Typed
    <3> QED
      BY <2>1, <2>5, <3>1, AddApart, LinkApart DEF setup_client_pty_epoll_units, Linking
  <2>6. ASSUME NEW c \in Clients, ThreadSteps(c)
        PROVE  Apart'
    BY <2>1, <2>4, <2>5, <2>6, AcceptApart, StartApart, SetupTimerApart,
       TimerHandlerApart, DropApart, SetupPtyApart, ForkApart, ExecApart
    DEF ThreadSteps, handle_client
  <2>7. ASSUME NEW c \in Clients, Environment(c)
        PROVE  Apart'
    BY <2>1, <2>7, EnvironmentApart
  <2> QED
    BY <2>2, <2>3, <2>6, <2>7 DEF Next
<1> QED
  BY <1>1, <1>2, GeneralKept, PTL DEF Spec

\* In every setting one client is alone, or nobody leaves and no shell exits.
CalmOrAlone ==
    \A s \in Settings : \/ \A c, d \in s.clients : c = d
                        \/ s.events \cap {"leave", "exit"} = {}

\* Theorem: what transfer_data has read for one client it never writes to another,
\* for any number of clients when nobody leaves, and for one client whatever happens.
\* Without the hypothesis close_hung_fds leaves stale entries in epoll_fds.
THEOREM NoBytesCross ==
  ASSUME CalmOrAlone
  PROVE  Spec => []NoCrossTalk
<1>1. GeneralInv /\ CalmInv => NoCrossTalk
  <2> SUFFICES ASSUME GeneralInv, CalmInv, step = "write"
               PROVE  Obj(out_fd) \in {Closed, Stdin, Sock(in.of), Pty(in.of)}
    BY DEF NoCrossTalk
  <2>1. setting \in Settings /\ out_fd \in Fds /\ Obj(out_fd) = fdtab[out_fd]
    BY ObjType DEF GeneralInv, Typed
  <2>2. CASE \A c, d \in setting.clients : c = d
    <3>1. in.of \in setting.clients /\ in.of # None
      BY DEF GeneralInv, OfSetting
    <3>2. fdtab[out_fd] \in Objects /\ fdtab[out_fd].of \in setting.clients \cup {None}
      BY <2>1 DEF GeneralInv, OfSetting, Typed
    <3>3. CASE fdtab[out_fd].of = None
      BY <2>1, <3>2, <3>3, ObjectKinds DEF Objects
    <3>4. CASE fdtab[out_fd].of # None
      <4>1. PICK c \in Clients : fdtab[out_fd] = Sock(c) \/ fdtab[out_fd] = Pty(c)
        BY <3>2, <3>4, ObjectKinds DEF Ends
      <4>2. c = in.of
        BY <2>2, <3>1, <3>2, <3>4, <4>1, ObjectKinds
      <4> QED
        BY <2>1, <4>1, <4>2
    <3> QED
      BY <3>3, <3>4
  <2>3. CASE Calm
    <3>1. PICK c \in Clients : /\ in \in EndsOf(c)
                               /\ out_fd = 0 \/ fdtab[out_fd] \in EndsOf(c)
      BY <2>3 DEF CalmInv, Apart, Transferring
    <3>2. in.of = c
      BY <3>1, ObjectKinds DEF EndsOf
    <3>3. fdtab[0] = Stdin
      BY <2>3 DEF CalmInv, Apart, Owned
    <3> QED
      BY <2>1, <3>1, <3>2, <3>3 DEF EndsOf
  <2> QED
    BY <2>1, <2>2, <2>3 DEF CalmOrAlone, Calm
<1> QED
  BY <1>1, GeneralKept, SessionsApart, PTL

=============================================================================
