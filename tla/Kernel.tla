-------------------------------- MODULE Kernel --------------------------------
(***************************************************************************)
(* What src/server.c calls and what surrounds it: descriptors, the epoll   *)
(* set epfd, sockets, pseudo terminals, timers, the clients at the other   *)
(* end of the sockets and the shells behind the terminals.  None of it is  *)
(* code of this repository; it is modelled from the calls server.c makes.  *)
(***************************************************************************)
EXTENDS Integers, Sequences, FiniteSets

CONSTANTS Clients,    \* each connects at most once
          None,       \* no client
          LastFd,     \* bound: the highest descriptor
          MaxLines,   \* bound: lines a client sends after the secret
          Happens     \* which of these events a run allows

ASSUME KernelAssumption ==
    /\ IsFiniteSet(Clients)
    /\ None \notin Clients
    /\ LastFd \in Nat /\ LastFd >= 6
    /\ MaxLines \in Nat
    /\ Happens \subseteq {"secret", "wrong_secret", "close", "reset", "exit",
                          "full", "timeout", "late_timeout"}

\* main() opens the listening socket, epfd and timer_epfd first, so they are
\* the descriptors 3, 4 and 5; everything opened later comes after them.
listening_sock == 3
timer_epfd     == 5
Fds    == 6 .. LastFd
AllFds == {listening_sock, timer_epfd} \cup Fds

Shells == 1 .. Cardinality(Clients)

\* What a descriptor refers to; a timer, also to the client it was set for.
Closed   == [kind |-> "free", of |-> None]
Sock(c)  == [kind |-> "sock", of |-> c]
Pty(s)   == [kind |-> "pty", of |-> s]
Timer(c) == [kind |-> "timer", of |-> c]

VARIABLES
    fdtab,            \* what each descriptor refers to
    reg,              \* registration in epfd: none, armed, or spent (one-shot)
    running_timers,   \* timers yet to expire: <<t, u>> when t does not after u
    expired,          \* expired timers that timer_epfd has not reported
    backlog,          \* connections waiting for accept
    peer,             \* the client's end of each connection
    inbox,            \* what a client sent and the server has not read
    lines,            \* how many lines a client has sent
    shell             \* the bash behind each pseudo terminal

kernel  == <<fdtab, reg, running_timers, expired>>
outside == <<backlog, peer, inbox, lines>>

KernelInit ==
    /\ fdtab = [fd \in Fds |-> Closed]
    /\ reg = [fd \in AllFds |->
                IF fd \in {listening_sock, timer_epfd} THEN "armed" ELSE "none"]
    /\ running_timers = {}
    /\ expired = {}
    /\ backlog = <<>>
    /\ peer = [c \in Clients |-> "idle"]
    /\ inbox = [c \in Clients |-> <<>>]
    /\ lines = [c \in Clients |-> 0]
    /\ shell = [s \in Shells |-> "none"]

------------------------------------------------------------------------------
(* Descriptors, epoll and the objects behind them *)

IsSock(fd)  == fd \in Fds /\ fdtab[fd].kind = "sock"
IsPty(fd)   == fd \in Fds /\ fdtab[fd].kind = "pty"
IsTimer(fd) == fd \in Fds /\ fdtab[fd].kind = "timer"

\* open, accept and friends return the lowest free descriptor.
IsLowestFree(fd) ==
    /\ fdtab[fd] = Closed
    /\ \A f \in Fds : f < fd => fdtab[f] # Closed

\* Every timer runs for three seconds, so they expire in the order of their
\* timerfd_settime.
Runs(t)    == <<t, t>> \in running_timers
WithNew(t) == running_timers \cup {<<u, t>> : u \in {v \in Fds : Runs(v)} \cup {t}}
Without(F) == running_timers \cap ((Fds \ F) \X (Fds \ F))

\* close takes a descriptor out of every epoll set.  Closing a master hangs up
\* its shell.
CloseAll(F) ==
    /\ fdtab' = [fd \in Fds |-> IF fd \in F THEN Closed ELSE fdtab[fd]]
    /\ reg' = [fd \in AllFds |-> IF fd \in F THEN "none" ELSE reg[fd]]
    /\ running_timers' = Without(F)
    /\ expired' = expired \ F
    /\ shell' = [s \in Shells |->
                   IF \E fd \in F \cap Fds : fdtab[fd] = Pty(s)
                   THEN "exited" ELSE shell[s]]

\* epoll_ctl(epfd, EPOLL_CTL_DEL, fd) fails for what is not registered.
Registered(fd) == fd \in Fds /\ reg[fd] # "none"

\* Mutant of Rearmed: EPOLL_CTL_ADD, which fails for what is registered.
RearmedByAdd(r, fd) == r

\* mod_epoll_unit: one more event, if fd is still registered.
Rearmed(r, fd) == IF r[fd] = "none" THEN r ELSE [r EXCEPT ![fd] = "armed"]

HungUp(fd) ==
    \/ IsSock(fd) /\ peer[fdtab[fd].of] \in {"reset", "broken"}
    \/ IsPty(fd) /\ shell[fdtab[fd].of] = "exited"

HasInput(fd) ==
    \/ fd = listening_sock /\ backlog # <<>>
    \/ fd = timer_epfd /\ expired # {}
    \/ IsSock(fd) /\ (inbox[fdtab[fd].of] # <<>> \/ peer[fdtab[fd].of] = "closed")
    \/ IsPty(fd) /\ shell[fdtab[fd].of] = "printed"

\* What read(fd) returns.  Data that came before a hang-up is read first.
ReadResult(fd) ==
    CASE IsSock(fd) -> LET c == fdtab[fd].of
                       IN  CASE inbox[c] # <<>>                  -> "data"
                             [] peer[c] = "reset"                -> "error"
                             [] peer[c] \in {"closed", "broken"} -> "eof"
                             [] OTHER                            -> "again"
      [] IsPty(fd)  -> CASE HasInput(fd) -> "data"
                         [] HungUp(fd)   -> "error"
                         [] OTHER        -> "again"
      [] OTHER      -> "error"

\* What write(fd) returns; it may also find no room in a socket whose client
\* does not read.  Nobody ignores SIGPIPE.  A master takes what is written to it,
\* whether a shell is there to read it or not.
WriteResults(fd) ==
    CASE IsSock(fd) -> LET c == fdtab[fd].of
                       IN  CASE peer[c] = "broken" -> {"SIGPIPE"}
                             [] peer[c] = "reset"  -> {"error"}
                             [] OTHER -> {"written"} \cup (Happens \cap {"full"})
      [] IsPty(fd)  -> {"written"}
      [] OTHER      -> {"error"}

\* The client's end once a call on fd returned: an error is reported once, and
\* data sent to a closed end (more than zero bytes) is answered by a reset.
PeerAfter(fd, result) ==
    LET c == fdtab[fd].of
    IN  IF IsSock(fd) /\ <<peer[c], result>> \in {<<"reset", "error">>,
                                                <<"closed", "written">>}
        THEN [peer EXCEPT ![c] = "broken"]
        ELSE peer

\* A read takes everything there is: lines are far shorter than the buffer.
Drain(fd) ==
    /\ inbox' = IF IsSock(fd) THEN [inbox EXCEPT ![fdtab[fd].of] = <<>>]
                ELSE inbox
    /\ shell' = IF IsPty(fd) /\ shell[fdtab[fd].of] = "printed"
                THEN [shell EXCEPT ![fdtab[fd].of] = "running"] ELSE shell

\* What epoll_wait(epfd) reports.
Ready == {fd \in AllFds : reg[fd] = "armed" /\ (HasInput(fd) \/ HungUp(fd))}

------------------------------------------------------------------------------
(* Clients, shells and time *)

Connect(c) ==
    /\ peer[c] = "idle"
    /\ peer' = [peer EXCEPT ![c] = "open"]
    /\ backlog' = Append(backlog, c)
    /\ UNCHANGED <<kernel, inbox, lines, shell>>

Accepted(c) == \E fd \in Fds : fdtab[fd] = Sock(c)

\* The first message is the secret, or should be; the others are lines for the
\* shell.
Send(c, message) ==
    /\ peer[c] = "open"
    /\ Accepted(c)
    /\ lines[c] <= MaxLines
    /\ message \in IF lines[c] = 0
                    THEN {"secret", "wrong_secret"} \cap Happens
                    ELSE {"line"}
    /\ inbox' = [inbox EXCEPT ![c] = Append(@, message)]
    /\ lines' = [lines EXCEPT ![c] = @ + 1]
    /\ UNCHANGED <<kernel, backlog, peer, shell>>

\* The client ends the connection in order, or by a reset.
Leave(c, how, end) ==
    /\ how \in Happens
    /\ <<peer[c], end>> \in {<<"open", "closed">>, <<"open", "reset">>,
                             <<"closed", "reset">>}
    /\ peer' = [peer EXCEPT ![c] = end]
    /\ UNCHANGED <<kernel, backlog, inbox, lines, shell>>

PrintOutput(s) ==
    /\ shell[s] = "running"
    /\ shell' = [shell EXCEPT ![s] = "printed"]
    /\ UNCHANGED <<kernel, outside>>

ExitShell(s) ==
    /\ "exit" \in Happens
    /\ shell[s] \in {"running", "printed"}
    /\ shell' = [shell EXCEPT ![s] = "exited"]
    /\ UNCHANGED <<kernel, outside>>

\* Three seconds after timerfd_settime.
Expire ==
    /\ \E t \in Fds :
        /\ Runs(t)
        /\ \A u \in Fds : Runs(u) => <<t, u>> \in running_timers
        /\ expired' = expired \cup {t}
        /\ running_timers' = Without({t})
    /\ UNCHANGED <<fdtab, reg, outside, shell>>

Environment ==
    \/ \E c \in Clients :
        \/ Connect(c)
        \/ \E m \in {"secret", "wrong_secret", "line"} : Send(c, m)
        \/ Leave(c, "close", "closed")
        \/ Leave(c, "reset", "reset")
    \/ \E s \in Shells : PrintOutput(s) \/ ExitShell(s)

------------------------------------------------------------------------------

Objects == {Closed} \cup {Sock(c) : c \in Clients} \cup {Pty(s) : s \in Shells}
                    \cup {Timer(c) : c \in Clients \cup {None}}

KernelTypeOK ==
    /\ fdtab \in [Fds -> Objects]
    /\ reg \in [AllFds -> {"none", "armed", "spent"}]
    /\ running_timers \subseteq Fds \X Fds
    /\ expired \subseteq Fds
    /\ backlog \in Seq(Clients)
    /\ peer \in [Clients -> {"idle", "open", "closed", "reset", "broken"}]
    /\ inbox \in [Clients -> Seq({"secret", "wrong_secret", "line"})]
    /\ lines \in [Clients -> 0 .. MaxLines + 1]
    /\ shell \in [Shells -> {"none", "running", "printed", "exited"}]

==============================================================================
