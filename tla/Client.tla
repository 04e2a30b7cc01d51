-------------------------------- MODULE Client --------------------------------
(***************************************************************************)
(* src/client.c: connects, puts the terminal in non-canonical mode,        *)
(* exchanges the secret and forks.  The parent (reader) copies from the    *)
(* socket to stdout, the child (writer) from stdin to the socket; whoever  *)
(* ends first terminates the other.                                        *)
(***************************************************************************)
EXTENDS Processes

\* Mutant of SECRET: cut short.
SECRET_short == "<cs407"

SECRET == "<cs407rembash>"

------------------------------------------------------------------------------
(* The parent before the fork *)

setup_signal_handler == At("reader", "start") /\ Catch("reader", "connect")

connect_to_server == At("reader", "connect") /\ Connect("reader", "raw", "dying")

\* Failing is reported and has no consequence.
set_non_canon_mode ==
    At("reader", "raw") /\ SetTty("reader", "raw", "rembash", "rembash")

\* Whatever is read counts as <rembash>, and as <ok>; so does the end of the
\* stream.
handle_protocol ==
    LET r == "reader" IN
    \/ At(r, "rembash") /\ Read(r, "sock", "secret", "secret", "dying")
    \/ At(r, "secret") /\ Say(r, SECRET, "ok", "dying")
    \/ At(r, "ok") /\ Read(r, "sock", "print", "print", "dying")
    \/ At(r, "print") /\ Show(r, "fork")

\* Without a child the parent closes the socket and falls through to the
\* child's loop.
main_fork ==
    \/ At("reader", "fork") /\ (\/ Fork("reader", "writer", "read", "read")
                                \/ ForkFails("reader", "no_child"))
    \/ At("reader", "no_child") /\ Close("reader", {"sock"}, "read_stdin")

------------------------------------------------------------------------------
(* The loops *)

\* Mutants of handle_data_transfer: it signals nobody; it always signals its
\* parent.
handle_data_transfer_alone(p, from, pid, read, write, leave) ==
    \/ At(p, read) /\ Read(p, from, write, leave, leave)
    \/ At(p, write) /\ (IF from = "sock" THEN Show(p, read)
                        ELSE PassOn(p, "sock", read, leave))
    \/ At(p, leave) /\ Jump(p, "exit")

handle_data_transfer_ppid(p, from, pid, read, write, leave) ==
    \/ At(p, read) /\ Read(p, from, write, leave, leave)
    \/ At(p, write) /\ (IF from = "sock" THEN Show(p, read)
                        ELSE PassOn(p, "sock", read, leave))
    \/ At(p, leave) /\ Terminate(p, Ppid(p), "exit")

\* from_fd is stdin or the socket, pid the other process.
handle_data_transfer(p, from, pid, read, write, leave) ==
    \/ At(p, read) /\ Read(p, from, write, leave, leave)
    \/ At(p, write) /\ (IF from = "sock" THEN Show(p, read)
                        ELSE PassOn(p, "sock", read, leave))
    \/ At(p, leave) /\ Terminate(p, pid, "exit")

ReaderLoop ==
    \/ handle_data_transfer("reader", "sock", {"writer"}, "read", "write", "leave")
    \/ handle_data_transfer("reader", "stdin", Ppid("reader"),
                            "read_stdin", "write_stdin", "leave_stdin")
    \/ At("reader", "exit") /\ Jump("reader", "dying")

Writer ==
    \/ handle_data_transfer("writer", "stdin", Ppid("writer"), "read", "write", "leave")
    \/ At("writer", "exit") /\ Jump("writer", "dying")

\* The only place where the terminal's mode is restored.
sigchld_handler == RunHandler("reader", "restore")

exit_gracefully ==
    \/ At("reader", "restore") /\ SetTty("reader", "canonical", "wait", "dying")
    \/ At("reader", "wait") /\ Wait("reader", "writer", "dying")

Reader == setup_signal_handler \/ connect_to_server \/ set_non_canon_mode
          \/ handle_protocol \/ main_fork \/ ReaderLoop \/ sigchld_handler
          \/ exit_gracefully

Next == Reader \/ Writer

==============================================================================
