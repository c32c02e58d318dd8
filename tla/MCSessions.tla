----------------------------- MODULE MCSessions -----------------------------
(* Three hooks of two sessions on one index. *)
EXTENDS Sessions, TLC
CONSTANTS x1, x2, x3, s1, s2, f1, f2
Some(c, k) == Cardinality({x \in Hooks : c[x] = k})
\* Three starts, three Stops, or one start beside two calls of another hook.
MCCrews == {c \in [Hooks -> Kinds] :
                \/ Some(c, "peek") = 3 \/ Some(c, "ledger") = 3
                \/ Some(c, "peek") = 1 /\ Some(c, "select") = 2
                \/ Some(c, "peek") = 1 /\ Some(c, "ledger") = 2}
MCSymmetry == Permutations(Hooks) \cup Permutations(Ids) \cup Permutations(Paths)
=============================================================================
