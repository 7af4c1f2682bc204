-------------------------- MODULE MCDeviceLifecycle --------------------------
(***************************************************************************)
(* TLC instances of DeviceLifecycle.  Requests only meet on a device, so   *)
(* that one device is raced for, and another is worked on in one request   *)
(* at a time; a behaviour is about one of them, which InUse chooses.       *)
(***************************************************************************)
EXTENDS DeviceLifecycle, TLC

CONSTANTS raced, alone, r1, r2

VARIABLE inUse   \* the device that goods-in receives

MCDevices    == {raced, alone}
MCSerialised == {alone}
TwoRequests  == {r1, r2}
MCUsers      == {"operator", "manager"}
MCReasons    == {"none", "reject_code", "unreject_code"}
MCMaxEvents  == (raced :> 3) @@ (alone :> 6)

\* The role and the reason code of a request are read only by the gate on rejecting
\* and un-rejecting: where neither is asked for, an operator asks, without a code.
Bare == \A r \in Requests :
  req'[r].pc = "read" /\ req'[r].to \notin {"REJECTED", "RECEIVED"} =>
    req'[r].role = "operator" /\ req'[r].reason = "none"

MCInit == Init /\ inUse \in MCDevices
MCNext == Next /\ UNCHANGED inUse /\ Bare /\ \A d \in MCDevices \ {inUse} : status'[d] = "absent"
MCSpec == MCInit /\ [][MCNext]_<<vars, inUse>>

Symmetry == Permutations(TwoRequests)
=============================================================================
