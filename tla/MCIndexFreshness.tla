-------------------------- MODULE MCIndexFreshness --------------------------
(* IndexFreshness with interchangeable files and processes. *)
EXTENDS IndexFreshness, TLC

Symmetric == Permutations(Files) \cup Permutations(Procs)

=============================================================================
