-------------------------- MODULE MCCanonicalFiles --------------------------
(* CanonicalFiles with ids as interchangeable model values. *)
EXTENDS CanonicalFiles, TLC

IdSymmetry == Permutations(Decisions) \cup Permutations(Facts)

=============================================================================
