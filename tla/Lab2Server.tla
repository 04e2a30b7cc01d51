------------------------------ MODULE Lab2Server ------------------------------
(***************************************************************************)
(* old/lab2/lab2-server.c: main accepts and forks a handler per client.    *)
(* The handler checks the secret, opens a pseudo terminal, forks a shell   *)
(* and then a relay: the relay copies from the client to the terminal, the *)
(* handler from the terminal to the client.                                *)
(***************************************************************************)
EXTENDS Processes

SECRET == "cs407rembash"

------------------------------------------------------------------------------
(* main *)

\* Mutant of Main: a failing fork ends the server.
Main_fragile ==
    \/ At("server", "accept") /\ Accept("server", "fork")
    \/ At("server", "fork") /\ (\/ Fork("server", "handler", "close", "start")
                                \/ ForkFails("server", "dying"))
    \/ At("server", "close") /\ Close("server", {"sock"}, "accept")

Main ==
    \/ At("server", "accept") /\ Accept("server", "fork")
    \/ At("server", "fork") /\ (\/ Fork("server", "handler", "close", "start")
                                \/ ForkFails("server", "close"))
    \/ At("server", "close") /\ Close("server", {"sock"}, "accept")

------------------------------------------------------------------------------
(* The handler *)

\* Errors close the socket and go on.  The buffer is not initialised, so what
\* follows the client's bytes, and with it strcmp's answer, is anything; the
\* right secret may be refused, a wrong one is not accepted.
handle_protocol ==
    LET h == "handler" IN
    \/ At(h, "start") /\ Close(h, {"listen"}, "greet")
    \/ At(h, "greet") /\ Say(h, "rembash", "secret", "greet_failed")
    \/ At(h, "greet_failed") /\ Close(h, {"sock"}, "secret")
    \/ At(h, "secret") /\ Read(h, "sock", "check", "check", "no_secret")
    \/ At(h, "no_secret") /\ Close(h, {"sock"}, "check")
    \/ At(h, "check") /\ (\/ buf[h] = <<SECRET>> /\ Jump(h, "ok")
                          \/ Jump(h, "refuse"))
    \/ At(h, "refuse") /\ Say(h, "error", "dying", "dying")
    \/ At(h, "ok") /\ Say(h, "ok", "pty", "ok_failed")
    \/ At(h, "ok_failed") /\ Close(h, {"sock"}, "pty")

\* A terminal that could not be opened is reported and then used.
setup_pty == At("handler", "pty") /\ (\/ OpenMaster("handler", "fork_bash")
                                      \/ SetupFails("handler", "fork_bash"))

handle_client ==
    \/ At("handler", "fork_bash") /\ (\/ Fork("handler", "bash", "fork_relay", "start")
                                      \/ ForkFails("handler", "dying"))
    \/ At("handler", "kill_bash") /\ Terminate("handler", {"bash"}, "dying")

\* The parent's half of handle_pty_master.
handle_pty_master ==
    LET h == "handler" IN
    \/ At(h, "fork_relay") /\ (\/ Fork(h, "relay", "read", "read")
                               \/ ForkFails(h, "kill_bash"))
    \/ At(h, "leave") /\ Close(h, {"sock", "master"}, "kill_relay")
    \/ At(h, "kill_relay") /\ Terminate(h, {"relay"}, "dying")

\* Mutant of from_pty_to_client: one read and no more.
from_pty_to_client_once ==
    \/ At("handler", "read") /\ Read("handler", "master", "write", "leave", "leave")
    \/ At("handler", "write") /\ PassOn("handler", "sock", "leave", "leave")

from_pty_to_client ==
    \/ At("handler", "read") /\ Read("handler", "master", "write", "leave", "leave")
    \/ At("handler", "write") /\ PassOn("handler", "sock", "read", "leave")

Handler == handle_protocol \/ setup_pty \/ handle_client \/ handle_pty_master
           \/ from_pty_to_client

------------------------------------------------------------------------------
(* The shell's process until it is the shell *)

setup_slave_pty ==
    \/ At("bash", "setup") /\ (\/ OpenSlave("bash", "exec", "failed")
                               \/ SetupFails("bash", "failed"))
    \/ At("bash", "exec") /\ (Jump("bash", "shell") \/ SetupFails("bash", "failed"))

bash_child ==
    \/ At("bash", "start") /\ Close("bash", {"master", "sock"}, "setup")
    \/ At("bash", "failed") /\ Terminate("bash", Ppid("bash"), "dying")

Bash == setup_slave_pty \/ bash_child

------------------------------------------------------------------------------
(* The relay *)

from_client_to_pty ==
    \/ At("relay", "read") /\ Read("relay", "sock", "write", "leave", "leave")
    \/ At("relay", "write") /\ PassOn("relay", "master", "read", "leave")

\* kill(SIGTERM, pid): the arguments are the wrong way round, so the call asks
\* for a signal that does not exist, and nobody is sent anything.
relay_child == At("relay", "leave") /\ Terminate("relay", {}, "dying")

Relay == from_client_to_pty \/ relay_child

Next == Main \/ Handler \/ Bash \/ Relay

==============================================================================
