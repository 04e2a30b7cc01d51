------------------------------ MODULE Lab2Client ------------------------------
(***************************************************************************)
(* old/lab2/lab2-client.c: as src/client.c, without a handler for SIGCHLD: *)
(* nobody restores the terminal.                                           *)
(***************************************************************************)
EXTENDS Processes

SECRET == "cs407rembash"

\* A connection that fails is reported and the closed socket used.
setup_socket == At("reader", "start") /\ Connect("reader", "raw", "raw")

set_non_canon_mode ==
    At("reader", "raw") /\ SetTty("reader", "raw", "rembash", "rembash")

handle_protocol ==
    LET r == "reader" IN
    \/ At(r, "rembash") /\ Read(r, "sock", "secret", "secret", "dying")
    \/ At(r, "secret") /\ Say(r, SECRET, "ok", "dying")
    \/ At(r, "ok") /\ Read(r, "sock", "print", "print", "dying")
    \/ At(r, "print") /\ Show(r, "fork")

main_fork ==
    \/ At("reader", "fork") /\ (\/ Fork("reader", "writer", "read", "read")
                                \/ ForkFails("reader", "no_child"))
    \/ At("reader", "no_child") /\ Close("reader", {"sock"}, "read_stdin")

handle_sock_to_stdout ==
    LET r == "reader" IN
    \/ At(r, "read") /\ Read(r, "sock", "write", "leave", "leave")
    \/ At(r, "write") /\ Show(r, "read")
    \/ At(r, "leave") /\ Close(r, {"sock"}, "kill")
    \/ At(r, "kill") /\ Terminate(r, {"writer"}, "dying")

\* The child's loop, which the parent runs too if it has no child.
handle_stdin_to_sock(p, read, write, leave, kill) ==
    \/ At(p, read) /\ Read(p, "stdin", write, leave, leave)
    \/ At(p, write) /\ PassOn(p, "sock", read, leave)
    \/ At(p, leave) /\ Close(p, {"sock"}, kill)
    \/ At(p, kill) /\ Terminate(p, Ppid(p), "dying")

Reader == setup_socket \/ set_non_canon_mode \/ handle_protocol \/ main_fork
          \/ handle_sock_to_stdout
          \/ handle_stdin_to_sock("reader", "read_stdin", "write_stdin",
                                  "leave_stdin", "kill_parent")

Writer == handle_stdin_to_sock("writer", "read", "write", "leave", "kill")

Next == Reader \/ Writer

==============================================================================
