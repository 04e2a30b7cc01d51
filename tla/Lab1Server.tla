------------------------------ MODULE Lab1Server ------------------------------
(***************************************************************************)
(* old/lab1/lab1-server.c: the process forked for a client becomes the     *)
(* shell, with the socket for its input and output.                        *)
(***************************************************************************)
EXTENDS Processes

SECRET == "cs407rembash"

Main ==
    \/ At("server", "accept") /\ Accept("server", "fork")
    \/ At("server", "fork") /\ (\/ Fork("server", "handler", "close", "greet")
                                \/ ForkFails("server", "close"))
    \/ At("server", "close") /\ Close("server", {"sock"}, "accept")

\* error_check is given the truth value of "failed", which is not negative: no
\* error has a consequence.  The buffer is not initialised, so the right secret
\* may be refused.
handle_protocol ==
    LET h == "handler" IN
    \/ At(h, "greet") /\ Say(h, "rembash", "secret", "secret")
    \/ At(h, "secret") /\ Read(h, "sock", "check", "check", "check")
    \/ At(h, "check") /\ (\/ buf[h] = <<SECRET>> /\ Jump(h, "ok")
                          \/ Jump(h, "refuse"))
    \/ At(h, "refuse") /\ Say(h, "error", "dying", "dying")
    \/ At(h, "ok") /\ Say(h, "ok", "redirect", "redirect")

\* The loop over the three descriptors runs on to the size of the array in bytes,
\* so descriptors named by whatever follows it become copies of the socket too;
\* the listening socket may be one of them, and otherwise stays open in the shell.
handle_client ==
    LET h == "handler" IN
    \/ At(h, "redirect") /\ (Jump(h, "exec") \/ Close(h, {"listen"}, "exec"))
    \/ At(h, "exec") /\ (Jump(h, "shell") \/ SetupFails(h, "dying"))

Handler == handle_protocol \/ handle_client

Next == Main \/ Handler

==============================================================================
