------------------------------ MODULE Lab3Server ------------------------------
(***************************************************************************)
(* old/lab3/lab3-server.c: main accepts, a temporary thread per client     *)
(* checks the secret and starts a shell, and one thread waits in epoll and *)
(* copies between the sockets and the pseudo terminals.  They share the    *)
(* descriptors, the epoll set and epoll_fds, without any lock.             *)
(*                                                                         *)
(* A thread is named after the client it was created for, and so is the    *)
(* shell it forks.                                                         *)
(***************************************************************************)
EXTENDS Integers, FiniteSets

CONSTANTS Clients,    \* each connects at most once
          None,       \* no client
          LastFd,     \* bound: the highest descriptor
          Settings    \* which clients take part, and which of these events may
                      \* happen: each behaviour has one of the settings

ASSUME Lab3Assumption ==
    /\ IsFiniteSet(Clients)
    /\ None \notin Clients
    /\ LastFd \in Nat /\ LastFd >= 4 + 2 * Cardinality(Clients)
    /\ \A s \in Settings :
        /\ s.clients \subseteq Clients
        /\ s.events \subseteq {"wrong", "line", "print", "leave", "exit", "timeout",
                               "zero_timer", "setup_fails", "fork_fails"}

\* 3 and 4 are the listening socket and epfd; 0 can be closed and used again.
Fds == {0} \cup 5 .. LastFd

Closed  == [kind |-> "free", of |-> None]
Stdin   == [kind |-> "stdin", of |-> None]
Sock(c) == [kind |-> "sock", of |-> c]
Pty(c)  == [kind |-> "pty", of |-> c]

VARIABLES
    \* the kernel
    fdtab,            \* what each descriptor refers to
    epset,            \* what epfd watches: number given, and object behind it
    timer,            \* the threads whose timer is running
    timers,           \* whether a timer was ever created
    \* clients and shells
    peer,             \* the client's end of its connection
    said,             \* how many messages a client has sent
    inbox,            \* the one it sent last, unless it was read
    told,             \* the last protocol message it got
    shell,            \* the bash of each thread
    inherited,        \* the sockets each bash got from the fork
    \* memory of lab3-server.c
    epoll_fds,
    client_sockfd,    \* main's variable of that name
    cell,             \* what each thread finds behind client_sockfd_ptr
    pc,               \* where each temporary thread is
    sockfd, ptyfd,    \* handle_client's client_sockfd and master_pty_fd
    from,             \* what handle_protocol's read was called on
    \* epoll_wait_loop and transfer_data
    step,             \* where the thread is
    evlist,           \* events still to be handled
    current,          \* current_event
    in, out_fd,       \* what transfer_data reads, and where it will write
    fate,             \* up, or how the process ended
    setting           \* one of Settings

outside == <<peer, said, inbox, told>>
shells  == <<shell, inherited>>
memory  == <<epoll_fds, client_sockfd, cell>>
thread  == <<pc, sockfd, ptyfd, from>>
loop    == <<step, evlist, current, in, out_fd>>
vars    == <<fdtab, epset, timer, timers, outside, shells, memory, thread, loop,
             fate, setting>>

Nothing == [fd |-> 0, in |-> FALSE, hup |-> FALSE]

Allowed(event) == event \in setting.events

Init ==
    /\ setting \in Settings
    /\ fdtab = [fd \in Fds |-> IF fd = 0 THEN Stdin ELSE Closed]
    /\ epset = {} /\ timer = {} /\ timers = FALSE
    /\ peer = [c \in Clients |-> "idle"]
    /\ said = [c \in Clients |-> 0]
    /\ inbox = [c \in Clients |-> "nothing"]
    /\ told = [c \in Clients |-> "nothing"]
    /\ shell = [c \in Clients |-> "none"]
    /\ inherited = [c \in Clients |-> {}]
    /\ epoll_fds = [fd \in Fds |-> 0]
    /\ client_sockfd = 0
    /\ cell = [c \in Clients |-> 0]
    /\ pc = [c \in Clients |-> "none"]
    /\ sockfd = cell /\ ptyfd = cell
    /\ from = [c \in Clients |-> Closed]
    /\ step = "wait" /\ evlist = {} /\ current = Nothing
    /\ in = Closed /\ out_fd = 0
    /\ fate = "up"

------------------------------------------------------------------------------
(* The kernel: descriptors and what is behind them *)

Obj(fd) == IF fd \in Fds THEN fdtab[fd] ELSE Closed
IsLowestFree(fd) == fdtab[fd] = Closed /\ \A f \in Fds : f < fd => fdtab[f] # Closed

\* A connection stays open while a descriptor of the server or of a bash, or a
\* read that is waiting, refers to it.
Live == {"starting", "running", "printed"}
Referenced(o) ==
    \/ \E fd \in Fds : fdtab[fd] = o
    \/ \E c \in Clients : \/ shell[c] \in Live /\ o \in inherited[c]
                          \/ pc[c] = "secret" /\ from[c] = o
    \/ step = "read" /\ in = o

\* epoll forgets what nothing refers to any more, and only that.
Watched == {r \in epset : Referenced(r.of)}

\* Closing a master hangs up the shell that runs behind it.
Close(fd) ==
    /\ fdtab' = [f \in Fds |-> IF f = fd THEN Closed ELSE fdtab[f]]
    /\ shell' = [c \in Clients |->
                    IF Obj(fd) = Pty(c) /\ shell[c] \in {"running", "printed"}
                    THEN "exited" ELSE shell[c]]
    /\ UNCHANGED epset

Input(o)  == \/ o.kind = "sock" /\ (inbox[o.of] # "nothing" \/ peer[o.of] # "open")
             \/ o.kind = "pty" /\ shell[o.of] = "printed"
HungUp(o) == \/ o.kind = "sock" /\ peer[o.of] = "broken"
             \/ o.kind = "pty" /\ shell[o.of] = "exited"

Data(o) == \/ o.kind = "sock" /\ inbox[o.of] # "nothing"
           \/ o.kind = "pty" /\ shell[o.of] = "printed"
Blocks(o) == o # Closed /\ ~Input(o) /\ ~HungUp(o)

Drain(o) ==
    /\ inbox' = IF o.kind = "sock" THEN [inbox EXCEPT ![o.of] = "nothing"] ELSE inbox
    /\ shell' = IF o.kind = "pty" /\ shell[o.of] = "printed"
                THEN [shell EXCEPT ![o.of] = "running"] ELSE shell

\* A write to a connection the client has left is answered by a reset, and the
\* next one raises SIGPIPE, which nobody ignores.
Kills(o)  == o.kind = "sock" /\ peer[o.of] = "broken"
PeerAfterWrite(o) == IF o.kind = "sock" /\ peer[o.of] = "left"
                     THEN [peer EXCEPT ![o.of] = "broken"] ELSE peer

------------------------------------------------------------------------------
(* main *)

\* The memory is allocated per client, so that the next accept does not touch
\* what the thread is about to read.
accept_new_client(c) ==
    /\ peer[c] # "idle" /\ pc[c] = "none"
    /\ \E fd \in Fds :
        /\ IsLowestFree(fd)
        /\ fdtab' = [fdtab EXCEPT ![fd] = Sock(c)]
        /\ client_sockfd' = fd
        /\ cell' = [cell EXCEPT ![c] = fd]
    /\ pc' = [pc EXCEPT ![c] = "start"]
    /\ UNCHANGED <<epset, timer, timers, outside, shells, epoll_fds, sockfd, ptyfd,
                   from, loop, fate>>

------------------------------------------------------------------------------
(* handle_client *)

Goto(c, l) == pc' = [pc EXCEPT ![c] = l]

\* Mutant of Handed: the thread is given the address of main's variable.
Handed_shared(c) == client_sockfd

Handed(c) == cell[c]

Start(c) ==
    /\ pc[c] = "start"
    /\ sockfd' = [sockfd EXCEPT ![c] = Handed(c)]
    /\ cell' = [cell EXCEPT ![c] = 0]
    /\ Goto(c, "timer")
    /\ UNCHANGED <<fdtab, epset, timer, timers, outside, shells, epoll_fds,
                   client_sockfd, ptyfd, from, loop, fate>>

\* Mutant of setup_timer: it is created and not started.
setup_timer_unset(c) ==
    /\ pc[c] = "timer"
    /\ timers' = TRUE
    /\ Goto(c, "greet")
    /\ UNCHANGED <<fdtab, epset, timer, outside, shells, memory, sockfd, ptyfd, from,
                   loop, fate>>

\* A timer's number is compared with NULL.  In today's C library the first timer
\* of a process has the number 0.
setup_timer(c) ==
    /\ pc[c] = "timer"
    /\ timer' = timer \cup {c}
    /\ timers' = TRUE
    /\ \/ Goto(c, "greet")
       \/ Allowed("zero_timer") /\ ~timers /\ Goto(c, "drop")
    /\ UNCHANGED <<fdtab, epset, outside, shells, memory, sockfd, ptyfd, from, loop,
                   fate>>

\* One write of the thread, of a protocol message.
Say(c, message, next) ==
    LET o == Obj(sockfd[c]) IN
    /\ IF Kills(o) THEN fate' = "SIGPIPE" /\ UNCHANGED pc
       ELSE /\ Goto(c, IF o = Closed THEN "drop" ELSE next) /\ UNCHANGED fate
    /\ peer' = PeerAfterWrite(o)
    /\ from' = IF next = "secret" THEN [from EXCEPT ![c] = o] ELSE from
    /\ told' = IF o.kind = "sock" THEN [told EXCEPT ![o.of] = message] ELSE told
    /\ UNCHANGED <<fdtab, epset, timer, timers, said, inbox, shells, memory, sockfd,
                   ptyfd, loop>>

\* The buffer the client's bytes go to is not initialised: what it held before
\* follows them in the comparison.
Compared(o) == IF ~Data(o) \/ (o.kind = "sock" /\ inbox[o.of] = "secret")
               THEN {"ok", "error"} ELSE {"error"}

\* The read waits; the end of the connection is no error.
ReadSecret(c) ==
    /\ pc[c] = "secret" /\ ~Blocks(from[c])
    /\ \E answer \in Compared(from[c]) : Goto(c, answer)
    /\ Drain(from[c])
    /\ from' = [from EXCEPT ![c] = Closed]
    /\ UNCHANGED <<fdtab, epset, timer, timers, peer, said, told, inherited, memory,
                   sockfd, ptyfd, loop, fate>>

handle_protocol(c) ==
    \/ pc[c] = "greet" /\ Say(c, "rembash", "secret")
    \/ ReadSecret(c)
    \/ pc[c] = "error" /\ Say(c, "error", "drop")
    \/ pc[c] = "ok" /\ Say(c, "ok", "pty")

\* The read fails with EINTR.  timer_handler writes through a pointer to a variable
\* of setup_timer, which has returned: the place is by now in the buffer of the
\* failed read, where nobody looks.  Three seconds are long enough for everything
\* else the thread does.
timer_handler(c) ==
    /\ Allowed("timeout") /\ c \in timer
    /\ pc[c] = "secret" /\ Blocks(from[c])
    /\ timer' = timer \ {c}
    /\ from' = [from EXCEPT ![c] = Closed]
    /\ Goto(c, "drop")
    /\ UNCHANGED <<fdtab, epset, timers, outside, shells, memory, sockfd, ptyfd, loop,
                   fate>>

\* close(client_sockfd), and the thread ends.
Drop(c) ==
    /\ pc[c] = "drop"
    /\ Close(sockfd[c])
    /\ Goto(c, "done")
    /\ UNCHANGED <<timer, timers, outside, inherited, memory, sockfd, ptyfd, from,
                   loop, fate>>

\* The timer is deleted, and the terminal opened; that it could not be has no
\* consequence here.
setup_pty(c) ==
    /\ pc[c] = "pty"
    /\ timer' = timer \ {c}
    /\ \/ \E fd \in Fds :
            /\ IsLowestFree(fd)
            /\ fdtab' = [fdtab EXCEPT ![fd] = Pty(c)]
            /\ ptyfd' = [ptyfd EXCEPT ![c] = fd]
       \/ /\ Allowed("setup_fails")
          /\ ptyfd' = [ptyfd EXCEPT ![c] = -1]
          /\ UNCHANGED fdtab
    /\ Goto(c, "fork")
    /\ UNCHANGED <<epset, timers, outside, shells, memory, sockfd, from,
                   loop, fate>>

\* The child closes its own socket and no other.  Without a child the whole
\* server exits.
Fork(c) ==
    /\ pc[c] = "fork"
    /\ \/ /\ shell' = [shell EXCEPT ![c] = "starting"]
          /\ inherited' = [inherited EXCEPT ![c] =
                {o \in {fdtab[fd] : fd \in Fds \ {sockfd[c]}} : o.kind = "sock"}]
          /\ Goto(c, "add_sock")
          /\ UNCHANGED fate
       \/ Allowed("fork_fails") /\ fate' = "exit" /\ UNCHANGED <<shells, pc>>
    /\ UNCHANGED <<fdtab, epset, timer, timers, outside, memory, sockfd, ptyfd, from,
                   loop>>

\* Mutant of Add: its failure is ignored.
Add_unchecked(c, fd, next) ==
    /\ epset' = epset \cup {[fd |-> fd, of |-> Obj(fd)]}
    /\ Goto(c, next)
    /\ UNCHANGED shell

\* epoll_ctl(EPOLL_CTL_ADD); when it fails the child is sent SIGTERM, which a shell
\* ignores, and nothing is closed.
Add(c, fd, next) ==
    IF Obj(fd) = Closed
    THEN /\ Goto(c, "done")
         /\ shell' = [shell EXCEPT ![c] = IF @ = "starting" THEN "exited" ELSE @]
         /\ UNCHANGED epset
    ELSE /\ epset' = epset \cup {[fd |-> fd, of |-> Obj(fd)]}
         /\ Goto(c, next)
         /\ UNCHANGED shell

setup_client_pty_epoll_units(c) ==
    /\ \/ pc[c] = "add_sock" /\ Add(c, sockfd[c], "add_pty") /\ UNCHANGED epoll_fds
       \/ pc[c] = "add_pty" /\ Add(c, ptyfd[c], "link_pty") /\ UNCHANGED epoll_fds
       \/ /\ pc[c] = "link_pty"
          /\ epoll_fds' = [epoll_fds EXCEPT ![ptyfd[c]] = sockfd[c]]
          /\ Goto(c, "link_sock")
          /\ UNCHANGED <<epset, shell>>
       \/ /\ pc[c] = "link_sock"
          /\ epoll_fds' = [epoll_fds EXCEPT ![sockfd[c]] = ptyfd[c]]
          /\ Goto(c, "done")
          /\ UNCHANGED <<epset, shell>>
    /\ UNCHANGED <<fdtab, timer, timers, outside, inherited, client_sockfd, cell,
                   sockfd, ptyfd, from, loop, fate>>

handle_client(c) == Start(c) \/ setup_timer(c) \/ handle_protocol(c) \/ Drop(c)
                    \/ setup_pty(c) \/ Fork(c) \/ setup_client_pty_epoll_units(c)

\* The child becomes a shell unless its master is closed by then; the shell runs
\* until its terminal is hung up.
exec_bash(c) ==
    /\ shell[c] = "starting"
    /\ shell' = [shell EXCEPT ![c] = IF \E fd \in Fds : fdtab[fd] = Pty(c)
                                    THEN "running" ELSE "exited"]
    /\ UNCHANGED <<fdtab, epset, timer, timers, outside, inherited, memory, thread,
                   loop, fate>>

------------------------------------------------------------------------------
(* epoll_wait_loop *)

LoopTail == <<timer, timers, said, told, inherited, memory, thread>>

epoll_wait ==
    LET event(r) == [fd |-> r.fd, in |-> Input(r.of), hup |-> HungUp(r.of)]
    IN  /\ step = "wait" /\ evlist = {}
        /\ evlist' = {event(r) : r \in {w \in Watched : Input(w.of) \/ HungUp(w.of)}}
        /\ evlist' # {}
        /\ UNCHANGED <<fdtab, epset, shell, peer, inbox, step, current, in, out_fd,
                       fate, LoopTail>>

Go(l) == step' = l /\ UNCHANGED <<current, in, out_fd>>
Rest  == step' = "wait" /\ current' = Nothing /\ in' = Closed /\ out_fd' = 0

\* transfer_data(sfd, epoll_fds[sfd]) begins.
Transfer(e) == /\ step' = "read" /\ current' = e
               /\ in' = Obj(e.fd) /\ out_fd' = epoll_fds[e.fd]

HandleEvent ==
    /\ step = "wait"
    /\ \E e \in evlist :
        /\ evlist' = evlist \ {e}
        /\ IF e.hup THEN step' = "close" /\ current' = e /\ UNCHANGED <<in, out_fd>>
           ELSE Transfer(e)
    /\ UNCHANGED <<fdtab, epset, shell, peer, inbox, fate, LoopTail>>

\* Mutant of close_hung_fds: the compatriot is left alone.
close_hung_fds_one ==
    /\ step = "close" /\ Close(current.fd)
    /\ IF current.in THEN Transfer(current) ELSE Rest
    /\ UNCHANGED <<peer, inbox, evlist, fate, LoopTail>>

\* close_hung_fds(sfd), then close_hung_fds(epoll_fds[sfd]).  After a hang-up the
\* descriptor just closed is read all the same, if it had input.
close_hung_fds ==
    /\ \/ step = "close" /\ Close(current.fd) /\ Go("close_pair")
       \/ /\ step = "close_pair" /\ Close(epoll_fds[current.fd])
          /\ IF current.in THEN Transfer(current) ELSE Rest
    /\ UNCHANGED <<peer, inbox, evlist, fate, LoopTail>>

\* transfer_data returned 0 or -1.
Failed == /\ step' = "close" /\ current' = [current EXCEPT !.in = FALSE]
          /\ in' = Closed /\ out_fd' = 0

\* read waits if there is nothing, for whatever the descriptor was.
TransferRead ==
    /\ step = "read" /\ ~Blocks(in)
    /\ IF Data(in) THEN Go("write") /\ Drain(in)
       ELSE Failed /\ UNCHANGED <<inbox, shell>>
    /\ UNCHANGED <<fdtab, epset, peer, evlist, fate, LoopTail>>

\* Mutant of TransferWrite: as long as it goes well, the next read follows.
TransferWrite_loop ==
    LET o == Obj(out_fd) IN
    /\ step = "write"
    /\ IF o = Closed THEN Failed ELSE Go("read")
    /\ fate' = IF Kills(o) THEN "SIGPIPE" ELSE fate
    /\ peer' = PeerAfterWrite(o)
    /\ UNCHANGED <<fdtab, epset, shell, inbox, evlist, LoopTail>>

TransferWrite ==
    LET o == Obj(out_fd) IN
    /\ step = "write"
    /\ IF o = Closed THEN Failed ELSE Rest
    /\ fate' = IF Kills(o) THEN "SIGPIPE" ELSE fate
    /\ peer' = PeerAfterWrite(o)
    /\ UNCHANGED <<fdtab, epset, shell, inbox, evlist, LoopTail>>

transfer_data == TransferRead \/ TransferWrite

LoopSteps == epoll_wait \/ HandleEvent \/ transfer_data \/ close_hung_fds

------------------------------------------------------------------------------
(* Clients and shells *)

Connect(c) == /\ c \in setting.clients /\ peer[c] = "idle"
              /\ peer' = [peer EXCEPT ![c] = "open"]
              /\ UNCHANGED <<said, inbox, shell>>

\* A client answers <rembash> by a secret and sends a line once it has got <ok>.
Send(c) ==
    /\ peer[c] = "open" /\ inbox[c] = "nothing"
    /\ \/ told[c] = "rembash" /\ said[c] = 0
          /\ \E m \in {"secret"} \cup ({"wrong"} \cap setting.events) :
                inbox' = [inbox EXCEPT ![c] = m]
       \/ told[c] = "ok" /\ said[c] = 1 /\ Allowed("line")
          /\ inbox' = [inbox EXCEPT ![c] = "line"]
    /\ said' = [said EXCEPT ![c] = @ + 1]
    /\ UNCHANGED <<peer, shell>>

Leave(c) == /\ Allowed("leave") /\ peer[c] = "open"
            /\ peer' = [peer EXCEPT ![c] = "left"]
            /\ UNCHANGED <<said, inbox, shell>>

ShellPrints(c) == /\ Allowed("print") /\ shell[c] = "running"
                  /\ shell' = [shell EXCEPT ![c] = "printed"]
                  /\ UNCHANGED <<peer, said, inbox>>

ExitShell(c) ==
    /\ Allowed("exit") /\ shell[c] \in {"running", "printed"}
    /\ shell' = [shell EXCEPT ![c] = "exited"]
    /\ UNCHANGED <<fdtab, epset, timer, timers, outside, inherited, memory, thread,
                   loop, fate>>

Environment(c) ==
    \/ /\ Connect(c) \/ Send(c) \/ Leave(c) \/ ShellPrints(c)
       /\ UNCHANGED <<fdtab, epset, timer, timers, told, inherited, memory, thread,
                      loop, fate>>
    \/ ExitShell(c)

------------------------------------------------------------------------------

ThreadSteps(c) == accept_new_client(c) \/ handle_client(c) \/ timer_handler(c)
                  \/ exec_bash(c)

Next ==
    /\ fate = "up"
    /\ \/ LoopSteps
       \/ \E c \in Clients : ThreadSteps(c) \/ Environment(c)
    /\ UNCHANGED setting

Spec == Init /\ [][Next]_vars

\* Threads that can run do, and time passes; clients and shells owe nothing.
FairSpec == /\ Spec
            /\ WF_vars(fate = "up" /\ LoopSteps /\ UNCHANGED setting)
            /\ \A c \in Clients :
                  WF_vars(fate = "up" /\ ThreadSteps(c) /\ UNCHANGED setting)

------------------------------------------------------------------------------

\* epoll_fds leads from descriptors to descriptors, in every thread's view.
TypeOK ==
    /\ fdtab \in [Fds -> {Closed, Stdin} \cup {Sock(c) : c \in Clients}
                                        \cup {Pty(c) : c \in Clients}]
    /\ epoll_fds \in [Fds -> Fds]
    /\ sockfd \in [Clients -> Fds] /\ ptyfd \in [Clients -> Fds \cup {-1}]
    /\ in.kind \in {"free", "sock", "pty"} /\ out_fd \in Fds
    /\ fate \in {"up", "SIGPIPE", "exit"}

\* A session both whose descriptors are open and lead to each other.
Established(c) ==
    /\ pc[c] = "done"
    /\ Obj(sockfd[c]) = Sock(c) /\ Obj(ptyfd[c]) = Pty(c)
    /\ epoll_fds[sockfd[c]] = ptyfd[c] /\ epoll_fds[ptyfd[c]] = sockfd[c]

\* What transfer_data has read for one client it does not write to another, unless
\* clients leave.  It may write to the server's own input: epoll_fds is zero
\* between the calls of epoll_ctl and the two assignments (lines 474 to 491).
NoCrossTalk ==
    step = "write" => Obj(out_fd) \in {Closed, Stdin, Sock(in.of), Pty(in.of)}

\* Every connection is greeted by <rembash>: each thread works on the socket it
\* was created for (lines 81 to 97), if its timer is not taken for none.
Greeted == \A c \in Clients :
    (peer[c] = "open" /\ ~Allowed("zero_timer")) ~> (told[c] # "nothing" \/ fate # "up")

\* The timer of handle_client makes the server itself let go of a client that
\* stays silent.
SilentReleased == \A c \in Clients :
    (pc[c] = "start" /\ said[c] = 0)
        ~> (said[c] > 0 \/ fate # "up" \/ \A fd \in Fds : fdtab[fd] # Sock(c))

\* "The timer will count 3 seconds before disconnecting an unresponsive client":
\* the client sees its connection closed.
SilentDropped == \A c \in Clients :
    (pc[c] = "start" /\ said[c] = 0)
        ~> (said[c] > 0 \/ fate # "up" \/ ~Referenced(Sock(c)))

\* What the client of an established session types is read: the one thread that
\* serves all sessions is not left waiting in a read.
InputRead == \A c \in Clients :
    (inbox[c] # "nothing" /\ Established(c))
        ~> (inbox[c] = "nothing" \/ ~Established(c) \/ fate # "up")

\* When the client of an established session leaves, its shell ends with it: the
\* socket is closed, and its compatriot.
SessionEnds == \A c \in Clients :
    (Established(c) /\ peer[c] = "left") ~> (shell[c] = "exited" \/ fate # "up")

==============================================================================
