------------------------------ MODULE MCClones ------------------------------
(* Clones with interchangeable clones and ids.  Three ids of each kind are  *)
(* permuted together, which keeps the group small; the fourth decision is    *)
(* the one that the facts support.                                          *)
EXTENDS Clones, TLC

CONSTANTS d1, d2, d3, d4, f1, f2, f3, m1, m2, m3

MCDecisions == {d1, d2, d3, d4}
MCFacts == {f1, f2, f3}
MCDomains == {m1, m2, m3}

\* All decisions; all facts and a decision they support; all domains.
MCMixes == {MCDecisions, MCFacts \cup {d4}, MCDomains}

Column == <<{d1, f1, m1}, {d2, f2, m2}, {d3, f3, m3}>>

Kinds == {MCDecisions, MCFacts, MCDomains}

\* The ids of column i take the places of those of column p[i].
Turned(p) ==
    [x \in UNION {Column[i] : i \in 1..3} |->
        CHOOSE y \in UNION {Column[i] : i \in 1..3} :
            \E i \in 1..3, kind \in Kinds : x \in Column[i] \cap kind /\ y \in Column[p[i]] \cap kind]

Symmetric == {Turned(p) : p \in Permutations(1..3)} \cup Permutations(Clones)

=============================================================================
