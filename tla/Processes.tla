------------------------------ MODULE Processes ------------------------------
(***************************************************************************)
(* The operating system as the fork-based programs see it: src/client.c    *)
(* and the programs of the course labs under old/.  One connection is      *)
(* followed, from a terminal and the two processes of a client, over a     *)
(* socket, to the accepting server, the handler it forks for the client,   *)
(* the handler's relay and the shell behind a pseudo terminal.  None of it *)
(* is code of this repository: it is modelled from the calls made there.   *)
(*                                                                         *)
(* The steps below are those calls.  Every one moves the calling process p *)
(* to a label, which may be "dying": from there the kernel takes over.     *)
(***************************************************************************)
EXTENDS Naturals, Sequences, FiniteSets

CONSTANTS Sessions,   \* the programs a run considers, server and client, and the
                      \* bound on the lines the user types
          Happens     \* which of these events a run allows

ServerPrograms == {"lab1", "lab2", "refactor", "carver"}
ClientPrograms == {"lab1", "lab2", "refactor", "carver", "client"}

ASSUME ProcessesAssumption ==
    /\ Sessions \subseteq [server : ServerPrograms, client : ClientPrograms,
                           typed : 0 .. 3]
    /\ Happens \subseteq {"exit", "eof", "interrupt", "file", "fork_fails",
                          "setup_fails"}

\* login is the user's shell, which started the client; the writer is the
\* client's child.
ClientSide == {"reader", "writer"}
ServerSide == {"server", "handler", "bash", "relay"}
Procs      == {"login"} \cup ClientSide \cup ServerSide

Parent == [reader |-> "login", writer |-> "reader",
           handler |-> "server", bash |-> "handler", relay |-> "handler"]

Side(p)     == IF p \in ClientSide THEN "client" ELSE "server"
Other(side) == IF side = "client" THEN "server" ELSE "client"

VARIABLES
    prog,       \* which programs run
    stdin,      \* the client's input: terminal or file
    conn,       \* the connection: none, queued, accepted
    pc,         \* where each process is
    holds,      \* the descriptors it has open
    catches,    \* the processes with a handler for SIGCHLD
    ended,      \* pending SIGCHLD of each process: the child that ended
    deaf,       \* the processes that ignore SIGPIPE
    cpid,       \* what cpid[] holds for each child: zero, pid or minus_one
    buf,        \* what a process has read and not yet written
    chan,       \* the bytes on their way, per direction
    fault,      \* per end of the connection: none, reset, or broken for good
    slave,      \* the terminal's slave: new, opened
    tty,        \* the user's terminal
    log         \* history: lines typed and printed, what the user has seen, who
                \* was sent SIGTERM

Channels == {"keyboard", "to_server", "to_client", "to_shell", "from_shell"}

signals == <<catches, ended, deaf, cpid>>
bytes   == <<buf, chan, fault>>
fixed   == <<prog, stdin>>
tail    == <<conn, slave, tty, log, fixed>>
vars    == <<pc, holds, signals, bytes, tail>>

------------------------------------------------------------------------------
(* Processes and their descriptors *)

Alive(p) == pc[p] \notin {"none", "dying", "gone"}
Exists(p) == pc[p] \notin {"none", "gone"}
IsShell(p) == pc[p] = "shell"

Holders(d) == {p \in Procs : d \in holds[p]}
EndOpen(side) == \/ \E p \in Holders("sock") : Side(p) = side
                 \/ side = "server" /\ conn = "queued" /\ Holders("listen") # {}

At(p, l) == pc[p] = l
Move(p, l) == pc' = [pc EXCEPT ![p] = l]

\* A step that changes nothing but where p is.
Jump(p, l) == Move(p, l) /\ UNCHANGED <<holds, signals, bytes, tail>>

\* p closes D.  An end of the connection is closed with its last descriptor,
\* and resets the other if it was sent something it has not read.
CloseD(p, D) ==
    LET last(d, P) == d \in D \cap holds[p] /\ Holders(d) \cap P = {p}
        mine   == IF p \in ClientSide THEN ClientSide ELSE ServerSide
        to     == IF p \in ClientSide THEN "to_client" ELSE "to_server"
        other  == Other(Side(p))
    IN  /\ holds' = [holds EXCEPT ![p] = @ \ D]
        /\ chan' = [c \in DOMAIN chan |->
                      IF \/ c = to /\ last("sock", mine)
                         \/ c \in {"to_shell", "from_shell"}
                              /\ last("master", Procs)
                         \/ c = "to_shell" /\ last("slave", Procs)
                      THEN <<>> ELSE chan[c]]
        /\ fault' = IF /\ last("sock", mine) /\ chan[to] # <<>>
                       /\ fault[other] = "none" /\ EndOpen(other)
                    THEN [fault EXCEPT ![other] = "reset"] ELSE fault

Close(p, D, l) ==
    CloseD(p, D) /\ Move(p, l) /\ UNCHANGED <<signals, buf, tail>>

\* fork(): the child starts at label cl with copies of p's descriptors and
\* dispositions; p goes on at pl.
Fork(p, child, pl, cl) ==
    /\ pc' = [pc EXCEPT ![p] = pl, ![child] = cl]
    /\ holds' = [holds EXCEPT ![child] = holds[p]]
    /\ catches' = IF p \in catches THEN catches \cup {child} ELSE catches
    /\ deaf' = IF p \in deaf THEN deaf \cup {child} ELSE deaf
    /\ UNCHANGED <<ended, cpid, bytes, tail>>

ForkFails(p, l) == "fork_fails" \in Happens /\ Jump(p, l)

\* kill(q, SIGTERM) for the q in victims.  Whoever has not set a handler dies,
\* but an interactive shell ignores SIGTERM.
Terminate(p, victims, l) ==
    /\ pc' = [q \in Procs |->
                CASE q = p -> l
                  [] q # p /\ q \in victims /\ Alive(q) /\ ~IsShell(q) -> "dying"
                  [] OTHER -> pc[q]]
    /\ log' = [log EXCEPT !.killed =
                 @ \cup {q \in victims \ {p} : Alive(q) /\ ~IsShell(q)}]
    /\ UNCHANGED <<holds, signals, bytes, conn, slave, tty, fixed>>

\* getppid() of a process whose parent has ended is that of init.
Ppid(p) == IF Exists(Parent[p]) THEN {Parent[p]} ELSE {}

\* cpid[]: one entry per child of the handler.
Store(child, value, l) ==
    /\ cpid' = [cpid EXCEPT ![child] = value]
    /\ Move("handler", l)
    /\ UNCHANGED <<holds, catches, ended, deaf, bytes, tail>>

\* Whom kill(cpid[..], SIGTERM) addresses: the child, or the process group of the
\* caller for 0, or everybody for -1.  The shell leaves the group in setsid().
Addressed(child) ==
    CASE cpid[child] = "pid"       -> {child}
      [] cpid[child] = "zero"      -> {p \in ServerSide :
                                        p = "bash" => pc[p] \in {"start", "setup"}}
      [] cpid[child] = "minus_one" -> ServerSide

\* p sets a handler for SIGCHLD, or ignores the signal.
Catch(p, l) ==
    /\ catches' = catches \cup {p}
    /\ Move(p, l) /\ UNCHANGED <<holds, ended, deaf, cpid, bytes, tail>>

\* The same, and SIGPIPE is ignored from then on.
CatchAndIgnorePipe(p, l) ==
    /\ catches' = catches \cup {p}
    /\ deaf' = deaf \cup {p}
    /\ Move(p, l) /\ UNCHANGED <<holds, ended, cpid, bytes, tail>>

IgnoreChildren(p, l) ==
    /\ catches' = catches \ {p}
    /\ ended' = [ended EXCEPT ![p] = "none"]
    /\ Move(p, l) /\ UNCHANGED <<holds, deaf, cpid, bytes, tail>>

\* The kernel runs p's handler for SIGCHLD between two of p's steps.  None of
\* these handlers returns, and none is interrupted by a second SIGCHLD.
RunHandler(p, l) ==
    /\ p \in catches /\ ended[p] # "none" /\ Alive(p)
    /\ catches' = catches \ {p}
    /\ Move(p, l) /\ UNCHANGED <<holds, ended, deaf, cpid, bytes, tail>>

\* wait() of a parent that has at most one child.
Wait(p, child, l) == ~Exists(child) /\ Jump(p, l)

------------------------------------------------------------------------------
(* read and write *)

In(p, d) == CASE d = "stdin"  -> "keyboard"
              [] d = "master" -> "from_shell"
              [] d = "slave"  -> "to_shell"
              [] d = "sock"   -> IF p \in ClientSide THEN "to_client" ELSE "to_server"
Out(p, d) == CASE d = "master" -> "to_shell"
               [] d = "slave"  -> "from_shell"
               [] d = "sock"   -> IF p \in ClientSide THEN "to_server" ELSE "to_client"

\* A master whose slave was opened and is no longer fails to be read; one whose
\* slave was never opened is waited for.
AtEof(p, d) ==
    /\ d \in holds[p] /\ chan[In(p, d)] = <<>>
    /\ CASE d = "sock"  -> \/ fault[Side(p)] = "broken"
                           \/ fault[Side(p)] = "none" /\ ~EndOpen(Other(Side(p)))
         [] d = "stdin" -> stdin = "file" /\ log.ended
         [] OTHER       -> FALSE
CannotRead(p, d) ==
    \/ d \notin holds[p]
    \/ chan[In(p, d)] = <<>> /\ d = "sock" /\ fault[Side(p)] = "reset"
    \/ chan[In(p, d)] = <<>> /\ d = "master" /\ slave = "opened" /\ Holders("slave") = {}

\* What a read takes: a line of the keyboard, and otherwise everything there is,
\* or with exact what the length asked for covers.
Taken(p, d, exact) ==
    LET c == chan[In(p, d)]
    IN  IF d = "stdin" \/ exact THEN <<Head(c)>> ELSE c

ReadUpTo(p, d, exact, got, eof, err) ==
    \/ /\ d \in holds[p] /\ chan[In(p, d)] # <<>>
       /\ LET data == Taken(p, d, exact)
          IN  /\ chan' = [chan EXCEPT ![In(p, d)] =
                            SubSeq(@, Len(data) + 1, Len(@))]
              /\ IF data = <<"eof">>
                 THEN Move(p, eof) /\ UNCHANGED buf
                 ELSE Move(p, got) /\ buf' = [buf EXCEPT ![p] = data]
       /\ UNCHANGED <<holds, signals, fault, tail>>
    \/ AtEof(p, d) /\ Jump(p, eof)
    \/ /\ CannotRead(p, d)
       /\ fault' = IF d = "sock" /\ d \in holds[p]
                   THEN [fault EXCEPT ![Side(p)] = "broken"] ELSE fault
       /\ Move(p, err) /\ UNCHANGED <<holds, signals, buf, chan, tail>>

Read(p, d, got, eof, err) == ReadUpTo(p, d, FALSE, got, eof, err)

\* A write to an end that has closed is accepted and answered by a reset; the
\* next one fails, with a SIGPIPE unless the failure is a fresh reset.
Write(p, d, data, next, err) ==
    /\ buf' = [buf EXCEPT ![p] = <<>>]
    /\ \/ /\ d \in holds[p] /\ (d = "sock" => fault[Side(p)] = "none")
          /\ IF d = "sock" /\ ~EndOpen(Other(Side(p)))
             THEN fault' = [fault EXCEPT ![Side(p)] = "broken"] /\ UNCHANGED chan
             ELSE chan' = [chan EXCEPT ![Out(p, d)] = @ \o data] /\ UNCHANGED fault
          /\ Move(p, next)
       \/ /\ d \in holds[p] => d = "sock" /\ fault[Side(p)] # "none"
          /\ IF d \in holds[p] /\ fault[Side(p)] = "broken" /\ p \notin deaf
             THEN Move(p, "dying") ELSE Move(p, err)
          /\ fault' = IF d \in holds[p]
                      THEN [fault EXCEPT ![Side(p)] = "broken"] ELSE fault
          /\ UNCHANGED chan
    /\ UNCHANGED <<holds, signals, tail>>

Say(p, message, next, err) == Write(p, "sock", <<message>>, next, err)

Discard(p, l) == /\ buf' = [buf EXCEPT ![p] = <<>>]
                 /\ Move(p, l) /\ UNCHANGED <<holds, signals, chan, fault, tail>>

\* What p has read goes to d, or to the user.
PassOn(p, d, next, err) == Write(p, d, buf[p], next, err)
Show(p, next) ==
    /\ buf' = [buf EXCEPT ![p] = <<>>]
    /\ log' = [log EXCEPT !.seen = @ \cup {buf[p][i] : i \in 1 .. Len(buf[p])}]
    /\ Move(p, next)
    /\ UNCHANGED <<holds, signals, chan, fault, conn, slave, tty, fixed>>

------------------------------------------------------------------------------
(* Opening things *)

Connect(p, l, err) ==
    IF ~Alive("server") THEN Jump(p, err)
    ELSE /\ conn' = "queued"
         /\ holds' = [holds EXCEPT ![p] = @ \cup {"sock"}]
         /\ Move(p, l) /\ UNCHANGED <<signals, bytes, slave, tty, log, fixed>>

Accept(p, l) ==
    /\ conn = "queued"
    /\ conn' = "accepted"
    /\ holds' = [holds EXCEPT ![p] = @ \cup {"sock"}]
    /\ Move(p, l) /\ UNCHANGED <<signals, bytes, slave, tty, log, fixed>>

OpenMaster(p, l) ==
    /\ holds' = [holds EXCEPT ![p] = @ \cup {"master"}]
    /\ Move(p, l) /\ UNCHANGED <<signals, bytes, tail>>

\* A slave cannot be opened once its master is closed.
OpenSlave(p, l, err) ==
    IF Holders("master") = {} THEN Jump(p, err)
    ELSE /\ holds' = [holds EXCEPT ![p] = @ \cup {"slave"}]
         /\ slave' = "opened"
         /\ Move(p, l) /\ UNCHANGED <<signals, bytes, conn, tty, log, fixed>>

SetupFails(p, l) == "setup_fails" \in Happens /\ Jump(p, l)

\* tcsetattr(TCSAFLUSH) drops what was typed and not read; it fails on a file.
SetTty(p, mode, l, err) ==
    IF stdin = "file" THEN Jump(p, err)
    ELSE /\ tty' = mode
         /\ chan' = [chan EXCEPT !.keyboard = <<>>]
         /\ Move(p, l)
         /\ UNCHANGED <<holds, signals, buf, fault, conn, slave, log, fixed>>

------------------------------------------------------------------------------
(* The kernel, the shell and the user *)

\* A process that exits or is killed: its descriptors are closed, its parent is
\* told.
Gone(p) ==
    /\ pc[p] = "dying"
    /\ CloseD(p, holds[p])
    /\ Move(p, "gone")
    /\ buf' = [buf EXCEPT ![p] = <<>>]
    /\ ended' = [q \in Procs |->
                   IF /\ p \in DOMAIN Parent /\ q = Parent[p]
                      /\ q \in catches /\ ended[q] = "none"
                   THEN p ELSE ended[q]]
    /\ UNCHANGED <<catches, deaf, cpid, tail>>

Outputs == <<"prompt", "out1", "out2", "out3">>

ShellFd(p) == IF "slave" \in holds[p] THEN "slave" ELSE "sock"
CanPrint(p) == IF ShellFd(p) = "slave" THEN Holders("master") # {}
               ELSE EndOpen("client") /\ fault.server = "none"

\* The shell prints its prompt; then it runs what it reads, each line printing
\* something, until it is told to exit.
ShellPrints(p) ==
    /\ IsShell(p) /\ CanPrint(p)
    /\ log.printed < Len(Outputs)  \* bound: more than a user's three lines make it
    /\ LET out == Out(p, ShellFd(p))
           in  == In(p, ShellFd(p))
           says == [chan EXCEPT ![out] = Append(@, Outputs[log.printed + 1])]
       IN  \/ log.printed = 0 /\ chan' = says /\ UNCHANGED pc
           \/ /\ log.printed > 0 /\ chan[in] # <<>>
              /\ chan' = [says EXCEPT ![in] = Tail(@)]
              /\ IF Head(chan[in]) = "exit" THEN Move(p, "dying")
                 ELSE UNCHANGED pc
    /\ log' = [log EXCEPT !.printed = @ + 1]
    /\ UNCHANGED <<holds, signals, buf, fault, conn, slave, tty, fixed>>

\* It ends when its terminal is hung up or its socket is at an end.
ShellEnds(p) == IsShell(p) /\ ~CanPrint(p) /\ Jump(p, "dying")

ClientRuns == \E p \in ClientSide : Alive(p)

\* In canonical mode ^D ends the input; in the other mode it is a line like
\* any other, so it is not told apart from one.  The user's shell takes the
\* terminal back once the process it started has ended.
Type(item) ==
    /\ Alive("reader") \/ (stdin = "file" /\ ClientRuns)
    /\ log.typed < prog.typed /\ ~log.ended
    /\ \/ item = "line"
       \/ item \in {"exit", "eof"} \cap Happens
    /\ item = "eof" => stdin = "file" \/ tty = "canonical"
    /\ IF item = "eof" /\ stdin = "file"
       THEN log' = [log EXCEPT !.ended = TRUE] /\ UNCHANGED chan
       ELSE /\ log' = [log EXCEPT !.typed = @ + 1]
            /\ chan' = [chan EXCEPT !.keyboard = Append(@, item)]
    /\ UNCHANGED <<pc, holds, signals, buf, fault, conn, slave, tty, fixed>>

\* ^C: SIGINT to both processes of the client.
TypeInterrupt ==
    /\ "interrupt" \in Happens /\ stdin = "terminal"
    /\ ClientRuns
    /\ pc' = [p \in Procs |-> IF p \in ClientSide /\ Alive(p)
                             THEN "dying" ELSE pc[p]]
    /\ log' = [log EXCEPT !.interrupted = TRUE]
    /\ UNCHANGED <<holds, signals, bytes, conn, slave, tty, fixed>>

User == (\E item \in {"line", "exit", "eof"} : Type(item)) \/ TypeInterrupt

Init ==
    /\ prog \in Sessions /\ stdin \in {"terminal"} \cup (Happens \cap {"file"})
    /\ conn = "none"
    /\ pc = [p \in Procs |-> CASE p = "login"  -> "waiting"
                             [] p = "server" -> "accept"
                             [] p = "reader" -> "start"
                             [] OTHER        -> "none"]
    /\ holds = [p \in Procs |-> CASE p = "server" -> {"listen"}
                                [] p = "reader" -> {"stdin"}
                                [] OTHER        -> {}]
    /\ catches = {} /\ deaf = {}
    /\ ended = [p \in Procs |-> "none"]
    /\ cpid = [bash |-> "zero", relay |-> "zero"]
    /\ buf = [p \in Procs |-> <<>>]
    /\ chan = [c \in Channels |-> <<>>]
    /\ fault = [client |-> "none", server |-> "none"]
    /\ slave = "new"
    /\ tty = "canonical"
    /\ log = [typed |-> 0, ended |-> FALSE, interrupted |-> FALSE,
              printed |-> 0, seen |-> {}, killed |-> {}]

Printed == {Outputs[i] : i \in 1 .. Len(Outputs)}
Messages == {"rembash", "ok", "error", "cs407rembash", "<cs407rembash>",
             "line", "exit", "eof"} \cup Printed

\* Where a process can be, in whatever program it runs.
LoginPC   == {"waiting", "dying", "gone"}
ServerPC  == {"accept", "fork", "close", "dying", "gone"}
HandlerPC == {"none", "start", "greet", "greet_failed", "secret", "no_secret",
              "check", "refuse", "ok", "ok_failed", "pty", "redirect", "exec",
              "shell", "fork_bash", "store_bash", "catch", "fork_relay",
              "store_relay", "no_relay", "read", "write", "leave", "done",
              "kill_bash", "kill_relay", "sigchld", "dying", "gone"}
BashPC    == {"none", "start", "setup", "exec", "failed", "shell", "dying", "gone"}
RelayPC   == {"none", "read", "write", "leave", "dying", "gone"}
ReaderPC  == {"start", "connect", "raw", "rembash", "check_id", "secret", "ok",
              "check_ok", "print", "catch", "fork", "no_child", "read_stdin",
              "write_stdin", "leave_stdin", "kill_parent", "read", "write",
              "leave", "kill", "exit", "restore", "wait", "dying", "gone"}
WriterPC  == {"none", "read", "write", "leave", "kill", "exit", "dying", "gone"}

PlacesOK ==
    /\ pc["login"] \in LoginPC /\ pc["server"] \in ServerPC
    /\ pc["handler"] \in HandlerPC /\ pc["bash"] \in BashPC
    /\ pc["relay"] \in RelayPC
    /\ pc["reader"] \in ReaderPC /\ pc["writer"] \in WriterPC

SystemOK ==
    /\ prog \in Sessions /\ stdin \in {"terminal", "file"}
    /\ conn \in {"none", "queued", "accepted"}
    /\ holds \in [Procs -> SUBSET {"stdin", "sock", "listen", "master", "slave"}]
    /\ catches \subseteq Procs /\ deaf \subseteq Procs
    /\ ended \in [Procs -> Procs \cup {"none"}]
    /\ cpid \in [{"bash", "relay"} -> {"zero", "pid", "minus_one"}]
    /\ fault \in [{"client", "server"} -> {"none", "reset", "broken"}]
    /\ slave \in {"new", "opened"} /\ tty \in {"canonical", "raw"}
    /\ log \in [typed : 0 .. 3, ended : BOOLEAN, interrupted : BOOLEAN,
                printed : 0 .. Len(Outputs), seen : SUBSET Messages,
                killed : SUBSET Procs]
    /\ log.typed <= prog.typed

\* The type invariant: every process is at a point of its own program, and what is
\* read and passed on is made of messages.
TypeOK ==
    /\ DOMAIN pc = Procs /\ PlacesOK
    /\ SystemOK
    /\ chan \in [Channels -> Seq(Messages)]
    /\ buf \in [Procs -> Seq(Messages)]

==============================================================================
