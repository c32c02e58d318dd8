---------------------------- MODULE MCMembership ----------------------------
(* A domain and two successors, which a pull makes a split of it.            *)
EXTENDS Membership, TLC

CONSTANTS n1, n2, n3, c1, c2, p1, p2

MCPred   == 1 :> None @@ 2 :> 1 @@ 3 :> 1
MCPrefix == 1 :> {n1} @@ 2 :> {n1} @@ 3 :> {n3}
MCSeed   == 1 :> {} @@ 2 :> {n2} @@ 3 :> {}
MCGraphs == {n1 :> c1 @@ n2 :> c1, n1 :> c1 @@ n2 :> c2 @@ n3 :> c2}
MCPulled == {1 :> "accepted" @@ 2 :> "absent" @@ 3 :> "proposed",
             1 :> "superseded" @@ 2 :> "accepted" @@ 3 :> "accepted"}
MCSnapshots ==
  {Invalid, [kind |-> "snapshot", covered |-> {1}, entry |-> n1 :> {} @@ n2 :> {1}]}
MCSymmetry == Permutations(Process)
=============================================================================
