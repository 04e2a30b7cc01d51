-------------------------------- MODULE MCLab3 --------------------------------
EXTENDS Lab3Server

\* One client, to whom everything may happen, or all of them, and nobody leaves.
OneOrAll ==
    {[clients |-> {c}, events |-> {"wrong", "line", "print", "leave", "exit", "timeout",
                                   "zero_timer", "setup_fails", "fork_fails"}] :
        c \in Clients}
    \cup {[clients |-> Clients, events |-> e] :
            e \in {{"line", "timeout"}, {"print", "timeout"}}}

AllSilent == {[clients |-> Clients, events |-> {"timeout"}]}

==============================================================================
