------------------------- MODULE MCExportConsignment -------------------------
(***************************************************************************)
(* TLC instances of ExportConsignment: two devices, one or two shipments   *)
(* (one of each type) and two requests; two finalise calls race for a      *)
(* shipment, two adds race for a device, a sale races an add.              *)
(***************************************************************************)
EXTENDS ExportConsignment, TLC

CONSTANTS d1, d2, s1, s2, r1, r2

OneDevice    == {d1}
TwoDevices   == {d1, d2}
OneShipment  == {s1}
TwoShipments == {s1, s2}
OneRequest   == {r1}
TwoRequests  == {r1, r2}

NoOps        == {}
FinaliseOps  == {"finalise", "resume"}

Symmetry == Permutations(Devices) \cup Permutations(TwoRequests)
=============================================================================
