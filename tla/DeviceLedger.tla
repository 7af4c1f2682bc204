---------------------------- MODULE DeviceLedger ----------------------------
(***************************************************************************)
(* What the ledger of devices promises: a device is received once and then *)
(* moves only along the edges of ALLOWED_TRANSITIONS, one at a time.       *)
(* DeviceLifecycle implements it of the devices that no two requests work  *)
(* on at once.                                                             *)
(***************************************************************************)
EXTENDS DeviceStatus

CONSTANT Devices

VARIABLE ledger  \* the status of each device, "absent" before goods-in

Init == ledger = [d \in Devices |-> "absent"]

Receive(d) ==
  /\ ledger[d] = "absent"
  /\ ledger' = [ledger EXCEPT ![d] = "RECEIVED"]

Move(d) ==
  /\ ledger[d] # "absent"
  /\ \E to \in ALLOWED_TRANSITIONS[ledger[d]] :
       ledger' = [ledger EXCEPT ![d] = to]

Next == \E d \in Devices : Receive(d) \/ Move(d)

Spec == Init /\ [][Next]_ledger
=============================================================================
