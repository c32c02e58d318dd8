---------------------------- MODULE MCCompaction ----------------------------
(* Compaction with interchangeable domains, slugs and clones. *)
EXTENDS Compaction, TLC

Symmetric == Permutations(Domains) \cup Permutations(Slugs) \cup Permutations(Clones)

=============================================================================
