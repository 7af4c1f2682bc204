----------------------------- MODULE MCReceiving -----------------------------
(* TLC instances of Receiving: two handsets and three lines, one handset   *)
(* being expected on both manifests.                                       *)
EXTENDS Receiving, TLC

CONSTANTS i1, i2, m1, m2, l1, l2, l3, r1, r2

TwoImeis     == {i1, i2}
TwoManifests == {m1, m2}
TwoRequests  == {r1, r2}
OneRequest   == {r1}
ThreeLines   == {l1, l2, l3}

MCImeiOf     == (l1 :> i1) @@ (l2 :> i1) @@ (l3 :> i2)
MCManifestOf == (l1 :> m1) @@ (l2 :> m2) @@ (l3 :> m2)

AllOps == RouteNames
Undo   == {"delete", "wipe"}
NoOps  == {}
ConfirmAndDelete == {"confirm", "delete"}

Symmetry == Permutations(TwoRequests)
=============================================================================
