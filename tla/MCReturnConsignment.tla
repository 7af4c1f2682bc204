------------------------- MODULE MCReturnConsignment -------------------------
(* TLC instances of ReturnConsignment: an export of three devices, two     *)
(* returns that may each take any of them, and declared units that may     *)
(* differ from the lines.  Three devices let two partial returns in a row  *)
(* leave something outstanding.                                            *)
EXTENDS ReturnConsignment, TLC

CONSTANTS d1, d2, d3, s1, s2

ThreeDevices == {d1, d2, d3}
TwoReturns   == {s1, s2}
NoneOrOne    == {0, 1}

Symmetry == Permutations(ThreeDevices) \cup Permutations(TwoReturns)
=============================================================================
