------------------------------ MODULE MCAnchors ------------------------------
(* Two symbols described in one file, two files, two communities.            *)
EXTENDS Anchors, TLC

CONSTANTS e1, e2, d1, d2, pa, pb, c1, c2

MCHome == [e \in Entity |-> pa]
MCClusterings == {pa :> c1 @@ pb :> c1, pa :> c2 @@ pb :> c1}
MCOverloads == {<<pb, e2>>}
=============================================================================
