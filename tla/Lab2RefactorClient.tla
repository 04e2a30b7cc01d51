-------------------------- MODULE Lab2RefactorClient --------------------------
(***************************************************************************)
(* old/lab2/refactor/lab2-refactor-client.c: lab2-client.c with a handler  *)
(* for SIGCHLD, which restores the terminal.                               *)
(***************************************************************************)
EXTENDS Processes

SECRET == "cs407rembash"

main_sigaction == At("reader", "start") /\ Catch("reader", "connect")

setup_socket == At("reader", "connect") /\ Connect("reader", "raw", "raw")

set_non_canon_mode ==
    At("reader", "raw") /\ SetTty("reader", "raw", "rembash", "rembash")

handle_protocol ==
    LET r == "reader" IN
    \/ At(r, "rembash") /\ Read(r, "sock", "secret", "secret", "dying")
    \/ At(r, "secret") /\ Say(r, SECRET, "ok", "dying")
    \/ At(r, "ok") /\ Read(r, "sock", "print", "print", "dying")
    \/ At(r, "print") /\ Show(r, "fork")

main_fork ==
    \/ At("reader", "fork") /\ (\/ Fork("reader", "writer", "read", "read")
                                \/ ForkFails("reader", "no_child"))
    \/ At("reader", "no_child") /\ Close("reader", {"sock"}, "read_stdin")

\* Mutant of handle_sock_to_stdout: the end of the stream is read again.
handle_sock_to_stdout_looping ==
    LET r == "reader" IN
    \/ At(r, "read") /\ Read(r, "sock", "write", "read", "leave")
    \/ At(r, "write") /\ Show(r, "read")
    \/ At(r, "leave") /\ Close(r, {"sock"}, "kill")
    \/ At(r, "kill") /\ Terminate(r, {"writer"}, "exit")
    \/ At(r, "exit") /\ Jump(r, "dying")

handle_sock_to_stdout ==
    LET r == "reader" IN
    \/ At(r, "read") /\ Read(r, "sock", "write", "leave", "leave")
    \/ At(r, "write") /\ Show(r, "read")
    \/ At(r, "leave") /\ Close(r, {"sock"}, "kill")
    \/ At(r, "kill") /\ Terminate(r, {"writer"}, "exit")
    \/ At(r, "exit") /\ Jump(r, "dying")

handle_stdin_to_sock(p, read, write, leave, kill) ==
    \/ At(p, read) /\ Read(p, "stdin", write, leave, leave)
    \/ At(p, write) /\ PassOn(p, "sock", read, leave)
    \/ At(p, leave) /\ Close(p, {"sock"}, kill)
    \/ At(p, kill) /\ Terminate(p, Ppid(p), "dying")

sigchld_handler == RunHandler("reader", "restore")

exit_gracefully ==
    \/ At("reader", "restore") /\ SetTty("reader", "canonical", "wait", "dying")
    \/ At("reader", "wait") /\ Wait("reader", "writer", "dying")

Reader == main_sigaction \/ setup_socket \/ set_non_canon_mode
          \/ handle_protocol \/ main_fork \/ handle_sock_to_stdout
          \/ handle_stdin_to_sock("reader", "read_stdin", "write_stdin",
                                  "leave_stdin", "kill_parent")
          \/ sigchld_handler \/ exit_gracefully

Writer == handle_stdin_to_sock("writer", "read", "write", "leave", "kill")

Next == Reader \/ Writer

==============================================================================
