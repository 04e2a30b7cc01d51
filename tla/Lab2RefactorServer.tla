-------------------------- MODULE Lab2RefactorServer --------------------------
(***************************************************************************)
(* old/lab2/refactor/lab2-refactor-server.c: lab2-server.c with a handler  *)
(* for SIGCHLD in the process that handles a client, so that the end of    *)
(* the shell or of the relay ends the other two.                           *)
(***************************************************************************)
EXTENDS Processes

SECRET == "cs407rembash"

------------------------------------------------------------------------------

Main ==
    \/ At("server", "accept") /\ Accept("server", "fork")
    \/ At("server", "fork") /\ (\/ Fork("server", "handler", "close", "start")
                                \/ ForkFails("server", "close"))
    \/ At("server", "close") /\ Close("server", {"sock"}, "accept")

------------------------------------------------------------------------------
(* The handler *)

\* Errors close the socket and go on; the buffer is not initialised, so the
\* right secret may be refused.
handle_protocol ==
    LET h == "handler" IN
    \/ At(h, "start") /\ Close(h, {"listen"}, "greet")
    \/ At(h, "greet") /\ Say(h, "rembash", "secret", "greet_failed")
    \/ At(h, "greet_failed") /\ Close(h, {"sock"}, "secret")
    \/ At(h, "secret") /\ Read(h, "sock", "check", "check", "no_secret")
    \/ At(h, "no_secret") /\ Close(h, {"sock"}, "check")
    \/ At(h, "check") /\ (\/ buf[h] = <<SECRET>> /\ Jump(h, "ok")
                          \/ Jump(h, "refuse"))
    \/ At(h, "refuse") /\ Say(h, "error", "dying", "dying")
    \/ At(h, "ok") /\ Say(h, "ok", "pty", "ok_failed")
    \/ At(h, "ok_failed") /\ Close(h, {"sock"}, "pty")

setup_pty == At("handler", "pty") /\ (\/ OpenMaster("handler", "fork_bash")
                                      \/ SetupFails("handler", "fork_bash"))

handle_client ==
    LET h == "handler" IN
    \/ At(h, "fork_bash") /\ (\/ Fork(h, "bash", "store_bash", "start")
                              \/ ForkFails(h, "dying"))
    \/ At(h, "store_bash") /\ Store("bash", "pid", "catch")
    \/ At(h, "kill_bash") /\ Terminate(h, {"bash"}, "dying")

\* Mutant of handle_pty_master: SIGCHLD is not caught.
handle_pty_master_deaf ==
    LET h == "handler" IN
    \/ At(h, "catch") /\ Jump(h, "fork_relay")
    \/ At(h, "fork_relay") /\ (\/ Fork(h, "relay", "store_relay", "read")
                               \/ ForkFails(h, "no_relay"))
    \/ At(h, "store_relay") /\ Store("relay", "pid", "read")
    \/ At(h, "no_relay") /\ Store("relay", "minus_one", "kill_bash")
    \/ At(h, "leave") /\ Close(h, {"sock", "master"}, "kill_relay")
    \/ At(h, "kill_relay") /\ Terminate(h, {"relay"}, "dying")

\* The handler is set before the fork and cpid[1] after it.
handle_pty_master ==
    LET h == "handler" IN
    \/ At(h, "catch") /\ CatchAndIgnorePipe(h, "fork_relay")
    \/ At(h, "fork_relay") /\ (\/ Fork(h, "relay", "store_relay", "read")
                               \/ ForkFails(h, "no_relay"))
    \/ At(h, "store_relay") /\ Store("relay", "pid", "read")
    \/ At(h, "no_relay") /\ Store("relay", "minus_one", "kill_bash")
    \/ At(h, "leave") /\ Close(h, {"sock", "master"}, "kill_relay")
    \/ At(h, "kill_relay") /\ Terminate(h, {"relay"}, "dying")

from_pty_to_client ==
    \/ At("handler", "read") /\ Read("handler", "master", "write", "leave", "leave")
    \/ At("handler", "write") /\ PassOn("handler", "sock", "read", "leave")

\* Whichever child ended, the other is sent SIGTERM, by its place in cpid[].
sigchld_handler ==
    LET h == "handler"
        sibling == IF ended[h] = "bash" THEN "relay" ELSE "bash"
    IN  \/ RunHandler(h, "sigchld")
        \/ At(h, "sigchld") /\ Terminate(h, Addressed(sibling), "dying")

Handler == handle_protocol \/ setup_pty \/ handle_client \/ handle_pty_master
           \/ from_pty_to_client \/ sigchld_handler

------------------------------------------------------------------------------
(* The two children *)

setup_slave_pty ==
    \/ At("bash", "start") /\ Close("bash", {"master", "sock"}, "setup")
    \/ At("bash", "setup") /\ (\/ OpenSlave("bash", "exec", "dying")
                               \/ SetupFails("bash", "dying"))
    \/ At("bash", "exec") /\ (Jump("bash", "shell") \/ SetupFails("bash", "dying"))

from_client_to_pty ==
    \/ At("relay", "read") /\ Read("relay", "sock", "write", "leave", "leave")
    \/ At("relay", "write") /\ PassOn("relay", "master", "read", "leave")

\* kill(SIGTERM, pid) still has its arguments the wrong way round; now the end
\* of the relay is enough.
relay_child == At("relay", "leave") /\ Terminate("relay", {}, "dying")

Relay == from_client_to_pty \/ relay_child

Next == Main \/ Handler \/ setup_slave_pty \/ Relay

==============================================================================
