----------------------------- MODULE CarverServer -----------------------------
(***************************************************************************)
(* old/lab2/carver/lab2-server.c: the course's own solution of lab 2.  As  *)
(* in Lab2RefactorServer a handler for SIGCHLD ends a session with its     *)
(* shell or its relay; <ok> is sent once the shell has been forked.        *)
(***************************************************************************)
EXTENDS Processes

SECRET == "<cs407rembash>"

------------------------------------------------------------------------------

\* A failing fork ends the server.
Main ==
    \/ At("server", "accept") /\ Accept("server", "fork")
    \/ At("server", "fork") /\ (\/ Fork("server", "handler", "close", "start")
                                \/ ForkFails("server", "dying"))
    \/ At("server", "close") /\ Close("server", {"sock"}, "accept")

------------------------------------------------------------------------------
(* The handler *)

\* Mutant of validate_client_secret: whatever is read will do.
validate_nothing ==
    LET h == "handler" IN
    \/ At(h, "secret") /\ ReadUpTo(h, "sock", TRUE, "check", "refuse", "refuse")
    \/ At(h, "check") /\ Jump(h, "pty")

validate_client_secret ==
    LET h == "handler" IN
    \/ At(h, "secret") /\ ReadUpTo(h, "sock", TRUE, "check", "refuse", "refuse")
    \/ At(h, "check") /\ Jump(h, IF buf[h] = <<SECRET>> THEN "pty" ELSE "refuse")

create_new_pty_pair == At("handler", "pty") /\ (\/ OpenMaster("handler", "fork_bash")
                                                \/ SetupFails("handler", "dying"))

handle_client ==
    LET h == "handler" IN
    \/ At(h, "start") /\ Close(h, {"listen"}, "greet")
    \/ At(h, "greet") /\ Say(h, "rembash", "secret", "dying")
    \/ At(h, "refuse") /\ Say(h, "error", "dying", "dying")
    \/ At(h, "fork_bash") /\ (\/ Fork(h, "bash", "store_bash", "start")
                              \/ ForkFails(h, "dying"))
    \/ At(h, "store_bash") /\ Store("bash", "pid", "ok")
    \/ At(h, "ok") /\ Say(h, "ok", "catch", "dying")
    \/ At(h, "done") /\ IgnoreChildren(h, "kill_bash")
    \/ At(h, "kill_bash") /\ Terminate(h, Addressed("bash"), "kill_relay")
    \/ At(h, "kill_relay") /\ Terminate(h, Addressed("relay"), "dying")

relay_data_between_socket_and_pty ==
    LET h == "handler" IN
    \/ At(h, "catch") /\ CatchAndIgnorePipe(h, "fork_relay")
    \/ At(h, "fork_relay") /\ (\/ Fork(h, "relay", "store_relay", "read")
                               \/ ForkFails(h, "no_relay"))
    \/ At(h, "store_relay") /\ Store("relay", "pid", "read")
    \/ At(h, "no_relay") /\ Store("relay", "minus_one", "done")

transfer_data(p, from, to, done) ==
    \/ At(p, "read") /\ Read(p, from, "write", done, done)
    \/ At(p, "write") /\ PassOn(p, to, "read", done)

sigchld_handler ==
    LET h == "handler"
        sibling == IF ended[h] = "bash" THEN "relay" ELSE "bash"
    IN  \/ RunHandler(h, "sigchld")
        \/ At(h, "sigchld") /\ Terminate(h, Addressed(sibling), "dying")

Handler == validate_client_secret \/ create_new_pty_pair \/ handle_client
           \/ relay_data_between_socket_and_pty \/ sigchld_handler
           \/ transfer_data("handler", "master", "sock", "done")

------------------------------------------------------------------------------
(* The two children *)

run_shell_via_pty ==
    \/ At("bash", "start") /\ Close("bash", {"master", "sock"}, "setup")
    \/ At("bash", "setup") /\ (\/ OpenSlave("bash", "exec", "dying")
                               \/ SetupFails("bash", "dying"))
    \/ At("bash", "exec") /\ (Jump("bash", "shell") \/ SetupFails("bash", "dying"))

Relay == transfer_data("relay", "sock", "master", "dying")

Next == Main \/ Handler \/ run_shell_via_pty \/ Relay

==============================================================================
