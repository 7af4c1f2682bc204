---------------------------- MODULE DeviceStatus ----------------------------
(***************************************************************************)
(* The constants of lib/deviceLifecycle.ts: the statuses of a device, the  *)
(* edges transitionDevice() accepts, the statuses only the consignment and *)
(* repair workflows may set or leave, and the gate on the two reject       *)
(* edges.  Everything here is a constant; the state machines that use it   *)
(* are DeviceLifecycle, RepairWorkflow, ExportConsignment and the modules  *)
(* that extend them.                                                       *)
(***************************************************************************)

DEVICE_STATUSES ==
  { "RECEIVED", "SORTING", "ACTIVE_INVENTORY", "IN_HOUSE_REPAIR",
    "READY_FOR_EXPORT", "IN_EXPORT_CONSIGNMENT", "EXPORTED_UNDER_OPR",
    "RETURNED_UNDER_OPR", "SOLD", "REJECTED", "QC_FAILED", "READY_FOR_ZOHO",
    "TEMP_EXPORTED_STANDARD", "RETURNED_UNDER_STANDARD" }

\* The targets the table lists for each source status.
ALLOWED_TRANSITIONS ==
  [ RECEIVED                |-> {"SORTING", "REJECTED", "SOLD"},
    SORTING                 |-> {"ACTIVE_INVENTORY", "IN_HOUSE_REPAIR",
                                 "READY_FOR_EXPORT", "SOLD"},
    ACTIVE_INVENTORY        |-> {"SOLD"},
    IN_HOUSE_REPAIR         |-> {"READY_FOR_ZOHO", "QC_FAILED", "SOLD"},
    READY_FOR_EXPORT        |-> {"IN_EXPORT_CONSIGNMENT", "SOLD"},
    IN_EXPORT_CONSIGNMENT   |-> {"READY_FOR_EXPORT", "EXPORTED_UNDER_OPR",
                                 "TEMP_EXPORTED_STANDARD"},
    EXPORTED_UNDER_OPR      |-> {"RETURNED_UNDER_OPR"},
    RETURNED_UNDER_OPR      |-> {"ACTIVE_INVENTORY"},
    SOLD                    |-> {},
    REJECTED                |-> {"RECEIVED"},
    QC_FAILED               |-> {"IN_HOUSE_REPAIR", "SOLD"},
    READY_FOR_ZOHO          |-> {"ACTIVE_INVENTORY", "SOLD"},
    TEMP_EXPORTED_STANDARD  |-> {"RETURNED_UNDER_STANDARD"},
    RETURNED_UNDER_STANDARD |-> {"ACTIVE_INVENTORY"} ]

Allowed(from, to) == to \in ALLOWED_TRANSITIONS[from]

OPR_WORKFLOW_ONLY_STATUSES ==
  { "IN_EXPORT_CONSIGNMENT", "EXPORTED_UNDER_OPR", "RETURNED_UNDER_OPR",
    "TEMP_EXPORTED_STANDARD", "RETURNED_UNDER_STANDARD" }

REPAIR_WORKFLOW_ONLY_STATUSES ==
  { "IN_HOUSE_REPAIR", "QC_FAILED", "READY_FOR_ZOHO" }

WorkflowOnly == OPR_WORKFLOW_ONLY_STATUSES \cup REPAIR_WORKFLOW_ONLY_STATUSES

-----------------------------------------------------------------------------
(* The reject / un-reject gate.  A role is the AuthUser's; a reason code   *)
(* is abstracted to the list it belongs to, or to "none" / "unknown".      *)

Roles   == { "operator", "manager", "admin" }
Reasons == { "reject_code", "unreject_code", "unknown", "none" }

IsManager(role) == role \in { "manager", "admin" }

IsRejectEdge(from, to)   == from = "RECEIVED" /\ to = "REJECTED"
IsUnrejectEdge(from, to) == from = "REJECTED" /\ to = "RECEIVED"

ReasonFits(from, to, reason) ==
  \/ IsRejectEdge(from, to)   /\ reason = "reject_code"
  \/ IsUnrejectEdge(from, to) /\ reason = "unreject_code"

\* TRUE when checkRejectUnrejectGate() does not refuse the edge.
GateOpen(from, to, role, reason) ==
  IsRejectEdge(from, to) \/ IsUnrejectEdge(from, to)
    => IsManager(role) /\ ReasonFits(from, to, reason)
=============================================================================
