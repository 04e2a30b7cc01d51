------------------------------- MODULE Rembash -------------------------------
(***************************************************************************)
(* One session between a client and a server program of the repository:    *)
(* the steps are those of the two programs and of what surrounds them.     *)
(***************************************************************************)
EXTENDS Processes

L1S == INSTANCE Lab1Server
L2S == INSTANCE Lab2Server
RFS == INSTANCE Lab2RefactorServer
CVS == INSTANCE CarverServer
L1C == INSTANCE Lab1Client
L2C == INSTANCE Lab2Client
RFC == INSTANCE Lab2RefactorClient
CVC == INSTANCE CarverClient
CLI == INSTANCE Client

Server(names) == prog.server \in names
Client(names) == prog.client \in names

\* The steps of each process, in the programs that run.
ServerSteps  == \/ Server({"lab1"}) /\ L1S!Main
                \/ Server({"lab2"}) /\ L2S!Main
                \/ Server({"refactor"}) /\ RFS!Main
                \/ Server({"carver"}) /\ CVS!Main
HandlerSteps == \/ Server({"lab1"}) /\ L1S!Handler
                \/ Server({"lab2"}) /\ L2S!Handler
                \/ Server({"refactor"}) /\ RFS!Handler
                \/ Server({"carver"}) /\ CVS!Handler
BashSteps    == \/ Server({"lab2"}) /\ L2S!Bash
                \/ Server({"refactor"}) /\ RFS!setup_slave_pty
                \/ Server({"carver"}) /\ CVS!run_shell_via_pty
RelaySteps   == \/ Server({"lab2"}) /\ L2S!Relay
                \/ Server({"refactor"}) /\ RFS!Relay
                \/ Server({"carver"}) /\ CVS!Relay
ReaderSteps  == \/ Client({"lab1"}) /\ L1C!Reader
                \/ Client({"lab2"}) /\ L2C!Reader
                \/ Client({"refactor"}) /\ RFC!Reader
                \/ Client({"carver"}) /\ CVC!Reader
                \/ Client({"client"}) /\ CLI!Reader
WriterSteps  == \/ Client({"lab1"}) /\ L1C!Writer
                \/ Client({"lab2"}) /\ L2C!Writer
                \/ Client({"refactor"}) /\ RFC!Writer
                \/ Client({"carver"}) /\ CVC!Writer
                \/ Client({"client"}) /\ CLI!Writer

Progress == \/ ServerSteps \/ HandlerSteps \/ BashSteps \/ RelaySteps
            \/ ReaderSteps \/ WriterSteps
            \/ \E p \in Procs : Gone(p) \/ ShellPrints(p) \/ ShellEnds(p)

Next == Progress \/ User

Spec == Init /\ [][Next]_vars

\* As long as some process can run, one does; the user owes nothing.  That every
\* process gets its turn is more than is needed: none can run for ever alone.
FairSpec == Spec /\ WF_vars(Progress)

------------------------------------------------------------------------------

Ended(p) == pc[p] \in {"none", "gone"}

Expected == CASE Server({"lab1"})     -> L1S!SECRET
              [] Server({"lab2"})     -> L2S!SECRET
              [] Server({"refactor"}) -> RFS!SECRET
              [] Server({"carver"})   -> CVS!SECRET
Sent == CASE Client({"lab1"})     -> L1C!SECRET
          [] Client({"lab2"})     -> L2C!SECRET
          [] Client({"refactor"}) -> RFC!SECRET
          [] Client({"carver"})   -> CVC!SECRET
          [] Client({"client"})   -> CLI!SECRET

\* No process of the server goes on to a shell, and nothing a shell printed
\* reaches the user, unless the client sent the secret this server expects
\* (handle_protocol, validate_client_secret): the secret differs between the
\* programs of this repository.
ShellOnlyForSecret ==
    Sent # Expected => /\ pc["bash"] = "none" /\ ~IsShell("handler")
                       /\ log.seen \cap Printed = {}

\* When the user's side finds the connection closed in order, after a session
\* with a relay, everything the shell printed has been shown.
OutputDelivered ==
    /\ pc["relay"] = "gone"
    /\ At("reader", "read") /\ AtEof("reader", "sock")
    => {Outputs[i] : i \in 1 .. log.printed} \subseteq log.seen

\* lab2-server.c reads the terminal to its end before it leaves, whatever ends
\* first.
Lab2DeliversOutput == Server({"lab2"}) => OutputDelivered

\* Nothing that happens to one session ends the server, if SIGCHLD is not used
\* to end sessions (lab1, lab2); a failing fork is survived too.
ServerGoesOn == Server({"lab1", "lab2"}) => Alive("server")

\* A client never signals the shell it was started from, unless its fork failed:
\* getppid() in the child is the client's parent as long as it lives.
SparesTheUser == "login" \in log.killed => pc["writer"] = "none"

\* The course's client leaves the terminal as it found it, however the session
\* ends, unless it is interrupted or cannot fork.
TerminalRestored ==
    /\ Client({"carver"}) /\ Ended("reader")
    /\ pc["writer"] # "none" /\ ~log.interrupted
    => tty = "canonical"

ClientGone  == pc["reader"] = "gone" /\ Ended("writer")
SessionGone == Ended("handler") /\ Ended("relay") /\ Ended("bash")
ShellGone   == /\ IF Server({"lab1"}) THEN pc["handler"] = "gone"
                  ELSE pc["bash"] = "gone"
               /\ log.printed > 0 /\ pc["writer"] # "none"

\* Once the client is gone, so are the handler, its relay and the shell: the
\* relay's read ends, which ends the relay, which by SIGCHLD ends the handler,
\* which hangs up the terminal.
EndsWithClient == ClientGone ~> SessionGone

\* The same for every server but lab2-server.c, which catches no SIGCHLD and calls
\* kill with its arguments swapped.
OthersEndWithClient == (~Server({"lab2"}) /\ ClientGone) ~> SessionGone

\* Once the shell has ended, so has the client, both its processes, however the
\* news travels.
EndsWithShell == ShellGone ~> ClientGone

\* The same for every client but lab1-client.c, whose writer only learns of it by
\* its next write.
OthersEndWithShell == (~Client({"lab1"}) /\ ShellGone) ~> ClientGone

\* Neither process of a client outlives the other, from lab 2 on.
PairEndsTogether ==
    (~Client({"lab1"}) /\ "gone" \in {pc["reader"], pc["writer"]})
        ~> (Ended("reader") /\ Ended("writer"))

==============================================================================
