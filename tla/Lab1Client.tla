------------------------------ MODULE Lab1Client ------------------------------
(***************************************************************************)
(* old/lab1/lab1-client.c: exchanges the secret and forks.  The parent     *)
(* copies from the socket to stdout, the child from stdin to the socket;   *)
(* neither knows of the other.                                             *)
(***************************************************************************)
EXTENDS Processes

SECRET == "cs407rembash"

setup_socket == At("reader", "start") /\ Connect("reader", "rembash", "dying")

\* As in the server, error_check sees truth values.  The length printed for <ok>
\* is one of them as well: what was read with it is dropped.
handle_protocol ==
    LET r == "reader" IN
    \/ At(r, "rembash") /\ Read(r, "sock", "secret", "secret", "secret")
    \/ At(r, "secret") /\ Say(r, SECRET, "ok", "ok")
    \/ At(r, "ok") /\ Read(r, "sock", "print", "print", "print")
    \/ At(r, "print") /\ Discard(r, "fork")

main_fork == At("reader", "fork") /\ (\/ Fork("reader", "writer", "read", "read")
                                      \/ ForkFails("reader", "dying"))

handle_sock_to_stdout ==
    \/ At("reader", "read") /\ Read("reader", "sock", "write", "dying", "dying")
    \/ At("reader", "write") /\ Show("reader", "read")

\* At the end of stdin it sends no bytes and goes on.
handle_stdin_to_sock ==
    \/ At("writer", "read") /\ Read("writer", "stdin", "write", "read", "read")
    \/ At("writer", "write") /\ PassOn("writer", "sock", "read", "read")

Reader == setup_socket \/ handle_protocol \/ main_fork \/ handle_sock_to_stdout

Writer == handle_stdin_to_sock

Next == Reader \/ Writer

==============================================================================
