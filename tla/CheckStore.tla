----------------------------- MODULE CheckStore -----------------------------
(***************************************************************************)
(* The drift checks of one decision as files: one JSON file per check, or    *)
(* lines of verifications/packed.shard (drift_checks.py), the commits that   *)
(* hold them, and what `sidegraph-verify --against` says of two of those.    *)
(*                                                                         *)
(* A tree is the part of a working tree, or of a commit, that matters here:  *)
(* the check files, the packed lines, whether the format marker holds the    *)
(* requirement of the packed file, and whether the decision is closed.       *)
(*                                                                         *)
(* A key is the ULID of a check and its body never changes, so a file and a  *)
(* line of one key are equal.  Left out: bodies that differ under one key,   *)
(* files and lines that are no checks, and files that are not regular.       *)
(***************************************************************************)
EXTENDS Naturals, FiniteSets

CONSTANTS MaxKey,   \* bound: checks that are ever recorded
          None      \* "packed": there is no packed.shard

ASSUME MaxKeyAssumption == MaxKey \in Nat

(* ULIDs of checks, in their order. *)
Keys == 1..MaxKey

(* "No packed.shard" differs from an empty one. *)
ASSUME NoneAssumption == \A S \in SUBSET Keys : S # None

Tree == [files : SUBSET Keys, packed : {None} \cup SUBSET Keys,
         marker : BOOLEAN, closed : BOOLEAN]

Lines(tree) == IF tree.packed = None THEN {} ELSE tree.packed

Checks(tree) == tree.files \cup Lines(tree)

(* select_checks: the greatest key, 0 when there is no check. *)
Latest(S) == IF S = {} THEN 0 ELSE CHOOSE k \in S : \A j \in S : j <= k

-----------------------------------------------------------------------------
(* plan_check_fold: what a fold does to `tree` when HEAD holds `landed`.      *)

(* Mutant: folds a check that nobody committed. *)
EligibleUncommitted(tree, landed) == tree.files

Eligible(tree, landed) == tree.files \cap landed.files

(* The checks that may outdate another one: an uncommitted packed.shard may   *)
(* still be thrown away, and its lines with it.                              *)
Superseders(tree, landed) ==
    IF tree.packed = landed.packed
    THEN Eligible(tree, landed) \cup Lines(tree)
    ELSE Eligible(tree, landed)

Dead(tree, landed) ==
    {k \in Eligible(tree, landed) \cup Lines(tree) :
        \/ tree.closed /\ landed.closed
        \/ Latest(Superseders(tree, landed)) > k}

Image(tree, landed) == (Eligible(tree, landed) \cup Lines(tree)) \ Dead(tree, landed)

HasWork(tree, landed) ==
    \/ Eligible(tree, landed) # {}
    \/ Lines(tree) \cap Dead(tree, landed) # {}

-----------------------------------------------------------------------------
(* verify --against: the new tree `new` after the baseline `old`.            *)

(* _check_transition: no check that decides is gone, and no line is new.      *)
NoneLost(old, new) ==
    \A k \in Checks(old) \ Checks(new) : new.closed \/ Latest(Checks(new)) > k

LinesHaveSources(old, new) == Lines(new) \subseteq Checks(old)

(* _packed_checks_requirement *)
PackedIsDeclared(new) == new.packed # None => new.marker

Passes(old, new) ==
    /\ NoneLost(old, new)
    /\ LinesHaveSources(old, new)
    /\ PackedIsDeclared(new)

-----------------------------------------------------------------------------
(* git checkout of `to` when HEAD holds `from`: a file that differs between   *)
(* the two must be unmodified, any other file keeps its changes.             *)

MayCheckOut(tree, from, to) ==
    /\ \A k \in Keys : (k \in from.files) # (k \in to.files) => (k \in tree.files) = (k \in from.files)
    /\ from.packed # to.packed => tree.packed = from.packed
    /\ from.marker # to.marker => tree.marker = from.marker
    /\ from.closed # to.closed => tree.closed = from.closed

CheckedOut(tree, from, to) ==
    [files |-> {k \in Keys : IF (k \in from.files) = (k \in to.files) THEN k \in tree.files
                             ELSE k \in to.files},
     packed |-> IF from.packed = to.packed THEN tree.packed ELSE to.packed,
     marker |-> IF from.marker = to.marker THEN tree.marker ELSE to.marker,
     closed |-> IF from.closed = to.closed THEN tree.closed ELSE to.closed]

=============================================================================
