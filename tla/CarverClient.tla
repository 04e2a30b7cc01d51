----------------------------- MODULE CarverClient -----------------------------
(***************************************************************************)
(* old/lab2/carver/lab2-client.c: the course's own solution of lab 2.  The *)
(* terminal's mode is changed after the secret was accepted and restored   *)
(* on every way out of the exchange of commands.                           *)
(***************************************************************************)
EXTENDS Processes

SECRET == "cs407rembash"

connect_to_server == At("reader", "start") /\ Connect("reader", "rembash", "dying")

\* input_matches_protocol reads no more than the expected string's length.
input_matches_protocol(read, check, string, next) ==
    \/ At("reader", read) /\ ReadUpTo("reader", "sock", TRUE, check, "dying", "dying")
    \/ At("reader", check) /\ Jump("reader", IF buf["reader"] = <<string>>
                                             THEN next ELSE "dying")

carry_out_initial_protocol_exchange ==
    \/ input_matches_protocol("rembash", "check_id", "rembash", "secret")
    \/ At("reader", "secret") /\ Say("reader", SECRET, "ok", "dying")
    \/ input_matches_protocol("ok", "check_ok", "ok", "raw")

set_tty_noncanon_noecho ==
    At("reader", "raw") /\ SetTty("reader", "raw", "catch", "dying")

exchange_commands_with_server ==
    LET r == "reader" IN
    \/ At(r, "catch") /\ CatchAndIgnorePipe(r, "fork")
    \/ At(r, "fork") /\ (\/ Fork(r, "writer", "read", "read")
                         \/ ForkFails(r, "dying"))
    \/ At(r, "leave") /\ IgnoreChildren(r, "kill")
    \/ At(r, "kill") /\ Terminate(r, {"writer"}, "restore")

transfer_data(p, from, done) ==
    \/ At(p, "read") /\ Read(p, from, "write", done, done)
    \/ At(p, "write") /\ (IF from = "sock" THEN Show(p, "read")
                          ELSE PassOn(p, "sock", "read", done))

\* Mutant of sigchld_handler: the settings are not restored.
sigchld_handler_only_waiting == RunHandler("reader", "wait")

sigchld_handler == RunHandler("reader", "restore")

cleanup_and_exit ==
    \/ At("reader", "restore") /\ SetTty("reader", "canonical", "wait", "dying")
    \/ At("reader", "wait") /\ Wait("reader", "writer", "dying")

Reader == connect_to_server \/ carry_out_initial_protocol_exchange
          \/ set_tty_noncanon_noecho \/ exchange_commands_with_server
          \/ transfer_data("reader", "sock", "leave")
          \/ sigchld_handler \/ cleanup_and_exit

Writer == transfer_data("writer", "stdin", "dying")

Next == Reader \/ Writer

==============================================================================
