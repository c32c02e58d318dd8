------------------------------ MODULE GitMerge ------------------------------
(***************************************************************************)
(* Two clones of one repository and `git pull` between them.  A store has   *)
(* one file per record, so git merges record by record: a file that only    *)
(* one side changed since the common ancestor takes that side, and a file   *)
(* that both changed is a conflict, which its user settles for either side. *)
(* After the pull the index is rebuilt from the files: a merge runs no rule *)
(* of the store.                                                            *)
(***************************************************************************)
EXTENDS Naturals

Changed(base, tree) == {f \in DOMAIN base : tree[f] # base[f]}

(* The files git cannot merge.  A change that stamps a time (`stamped`)     *)
(* never equals the other side's change of the same file.                  *)
Conflicts(base, ours, theirs, stamped) ==
    {f \in Changed(base, ours) \cap Changed(base, theirs) : stamped \/ ours[f] # theirs[f]}

(* Every tree a merge can end in, when the conflicting files may be settled *)
(* either way.                                                              *)
Merges(base, ours, theirs) ==
    {[f \in DOMAIN base |->
        IF f \in taken \/ ours[f] = base[f] THEN theirs[f] ELSE ours[f]]
        : taken \in SUBSET (Changed(base, ours) \cap Changed(base, theirs))}

=============================================================================
