------------------------------- MODULE MCServer -------------------------------
(* Small instances of Server for TLC. *)
EXTENDS Server, TLC

\* Workers are interchangeable in every safety property, and so are clients.
Symmetry == Permutations(Workers) \cup Permutations(Clients)

==============================================================================
