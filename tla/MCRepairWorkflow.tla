-------------------------- MODULE MCRepairWorkflow --------------------------
(* TLC instances of RepairWorkflow: one device, which is where requests    *)
(* meet, and one or two requests.                                          *)
EXTENDS RepairWorkflow, TLC

CONSTANTS d1, r1, r2

OneDevice   == {d1}
TwoRequests == {r1, r2}
Symmetry    == Permutations(TwoRequests)
=============================================================================
