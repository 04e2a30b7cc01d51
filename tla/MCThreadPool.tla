----------------------------- MODULE MCThreadPool -----------------------------
(* Small instances of ThreadPool for TLC. *)
EXTENDS ThreadPool, TLC

\* Tasks and workers are interchangeable in every safety property.
Symmetry == Permutations(Tasks) \cup Permutations(Workers)

==============================================================================
