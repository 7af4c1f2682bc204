-------------------------- MODULE ExportConsignment --------------------------
(***************************************************************************)
(* Export consignments (routes/opr.ts): shipments, shipment_lines and the  *)
(* status of the devices on them.  Adding and removing a line, finalising  *)
(* a shipment and resuming a finalisation each take several statements;    *)
(* only the flip of the shipment to FINALISED tests the status it expects. *)
(*                                                                         *)
(*   add      add_device -> add_insert -> read -> commit   (undo on throw) *)
(*   bulk     add_matched -> add_insert -> read -> commit  (undo on throw) *)
(*   remove   rm_delete -> rm_device -> read -> commit                     *)
(*   finalise fin_check* -> fin_flip -> (read -> commit)*                  *)
(*   resume   (read -> commit)*           sale   read -> commit            *)
(*                                                                         *)
(* read and commit are transitionDevice(): a fresh SELECT that may throw,  *)
(* then a batch that does not look again.  A loop over devices takes them  *)
(* in any order, which includes the order of the code.                     *)
(***************************************************************************)
EXTENDS DeviceStatus, Naturals, FiniteSets

CONSTANTS
  Devices,
  Shipments,      \* export shipments
  OprShipments,   \* those of type OPR_REPAIR; the others are TEMP_EXPORT_STANDARD
  Requests,       \* HTTP requests in flight
  Serialised,     \* TRUE: one request at a time works on consignments
  Mortal,         \* the operations whose worker may die between two statements
  MaxDeaths,      \* how many do
  BatchSize,      \* FINALISE_TRANSITION_BATCH_SIZE
  BulkSize,       \* the largest list of devices in one add request
  MaxLines,       \* no line is added once so many have been
  NoDevice

Ops    == {"add", "bulk", "remove", "finalise", "resume", "sale"}
Adding == {"add", "bulk"}

ASSUME ExportAssumption ==
  /\ OprShipments \subseteq Shipments
  /\ Serialised \in BOOLEAN
  /\ Mortal \subseteq Ops
  /\ MaxDeaths \in Nat
  /\ BatchSize \in Nat \ {0}
  /\ BulkSize \in Nat \ {0}
  /\ MaxLines \in Nat
  /\ NoDevice \notin Devices

VARIABLES
  status,    \* received_devices.status
  shipment,  \* shipments.status
  lines,     \* shipment_lines
  lastLine,  \* the last line id given out
  req,       \* the local variables of each request
  deaths     \* workers that have died

vars == <<status, shipment, lines, lastLine, req, deaths>>

Line == [id : Nat, ship : Shipments, dev : Devices]

Request == [ pc   : {"add_device", "add_matched", "add_insert", "rm_delete", "rm_device",
                     "fin_check", "fin_flip", "read", "commit", "undo"},
             op   : Ops,
             ship : Shipments,
             dev  : Devices \cup {NoDevice},  \* the device in hand
             line : Nat,                      \* the line in hand
             left : SUBSET Devices,           \* what the loop has left
             all  : SUBSET Devices ]          \* the devices of the bundle

Rest == [pc |-> "idle"]

Busy(r) == req[r] # Rest

ExportTarget(s) ==
  IF s \in OprShipments THEN "EXPORTED_UNDER_OPR" ELSE "TEMP_EXPORTED_STANDARD"

Target(r) ==
  CASE req[r].op \in Adding -> "IN_EXPORT_CONSIGNMENT"
    [] req[r].op = "remove" -> "READY_FOR_EXPORT"
    [] req[r].op = "sale"   -> "SOLD"
    [] OTHER                -> ExportTarget(req[r].ship)

On(s) == { l.dev : l \in { m \in lines : m.ship = s } }

-----------------------------------------------------------------------------

Init ==
  /\ status   = [d \in Devices |-> "READY_FOR_EXPORT"]
  /\ shipment = [s \in Shipments |-> "DRAFT"]
  /\ lines    = {}
  /\ lastLine = 0
  /\ req      = [r \in Requests |-> Rest]
  /\ deaths   = 0

MayStart(r) == ~Busy(r) /\ (Serialised => \A q \in Requests : ~Busy(q))

Finish(r) == req' = [req EXCEPT ![r] = Rest]

Enter(r, op, s, step, d, line, devs) ==
  /\ MayStart(r)
  /\ req' = [req EXCEPT ![r] = [ pc |-> step, op |-> op, ship |-> s, dev |-> d,
                                 line |-> line, left |-> devs, all |-> devs ]]
  /\ UNCHANGED <<status, shipment, lines, lastLine, deaths>>

\* The next device of a request's list, at the given step, or its end.
NextOf(r, left, step) ==
  IF left = {} THEN Finish(r)
  ELSE req' = [req EXCEPT ![r].pc = step, ![r].left = left, ![r].dev = NoDevice]

\* Where the loop of a request over its devices starts again.
LoopOf(r) ==
  CASE req[r].op = "add"  -> "add_device"
    [] req[r].op = "bulk" -> "add_matched"
    [] OTHER              -> "read"

-----------------------------------------------------------------------------
(* POST /lines, /scan, /scan-bulk: the shipment is tested once, then each  *)
(* device is read, its line inserted and its status moved.                 *)

StartAdd(r, s, devs) ==
  /\ shipment[s] = "DRAFT"
  /\ lastLine < MaxLines
  /\ Enter(r, "add", s, "add_device", NoDevice, 0, devs)

AddReadsDevice(r) ==
  /\ req[r].pc = "add_device"
  /\ \E d \in req[r].left :
       IF status[d] = "READY_FOR_EXPORT"
         THEN req' = [req EXCEPT ![r].pc = "add_insert", ![r].dev = d, ![r].left = @ \ {d}]
         ELSE NextOf(r, req[r].left \ {d}, "add_device")
  /\ UNCHANGED <<status, shipment, lines, lastLine, deaths>>

\* POST /bulk-serials: the devices are read once, and those of its list that are ready
\* are added from the rows as they were then.
Matched(devs) == { d \in devs : status[d] = "READY_FOR_EXPORT" }

StartBulk(r, s, devs) ==
  /\ shipment[s] = "DRAFT"
  /\ lastLine < MaxLines
  /\ Matched(devs) # {}
  /\ Enter(r, "bulk", s, "add_matched", NoDevice, 0, Matched(devs))

AddTakesMatched(r) ==
  /\ req[r].pc = "add_matched"
  /\ \E d \in req[r].left :
       req' = [req EXCEPT ![r].pc = "add_insert", ![r].dev = d, ![r].left = @ \ {d}]
  /\ UNCHANGED <<status, shipment, lines, lastLine, deaths>>

\* UNIQUE (shipment_id, received_device_id).
AddInsertsLine(r) ==
  LET s == req[r].ship  d == req[r].dev IN
  /\ req[r].pc = "add_insert"
  /\ IF d \in On(s)
       THEN /\ NextOf(r, req[r].left, LoopOf(r))
            /\ UNCHANGED <<lines, lastLine>>
       ELSE /\ lastLine' = lastLine + 1
            /\ lines' = lines \cup {[id |-> lastLine', ship |-> s, dev |-> d]}
            /\ req' = [req EXCEPT ![r].pc = "read", ![r].line = lastLine']
  /\ UNCHANGED <<status, shipment, deaths>>

Without(id) == { l \in lines : l.id # id }

\* The transition threw: the line is deleted and the request fails.
AddUndoesLine(r) ==
  /\ req[r].pc = "undo"
  /\ lines' = Without(req[r].line)
  /\ Finish(r)
  /\ UNCHANGED <<status, shipment, lastLine, deaths>>

-----------------------------------------------------------------------------
(* DELETE /lines/:lineId.                                                  *)

\* Mutant: the shipment need not be DRAFT.
StartRemove_AnyStatus(r, l) == Enter(r, "remove", l.ship, "rm_delete", l.dev, l.id, {})

StartRemove(r, l) ==
  /\ shipment[l.ship] = "DRAFT"
  /\ Enter(r, "remove", l.ship, "rm_delete", l.dev, l.id, {})

RemoveDeletesLine(r) ==
  /\ req[r].pc = "rm_delete"
  /\ lines' = Without(req[r].line)
  /\ req' = [req EXCEPT ![r].pc = "rm_device"]
  /\ UNCHANGED <<status, shipment, lastLine, deaths>>

\* Mutant: the device is left where it was.
RemoveReadsDevice_NoMove(r) ==
  /\ req[r].pc = "rm_device"
  /\ Finish(r)
  /\ UNCHANGED <<status, shipment, lines, lastLine, deaths>>

RemoveReadsDevice(r) ==
  /\ req[r].pc = "rm_device"
  /\ IF status[req[r].dev] = "IN_EXPORT_CONSIGNMENT"
       THEN req' = [req EXCEPT ![r].pc = "read"]
       ELSE Finish(r)
  /\ UNCHANGED <<status, shipment, lines, lastLine, deaths>>

-----------------------------------------------------------------------------
(* POST /finalise and /finalise/resume.                                    *)

\* Validation is red for a shipment without lines; its other checks are about
\* data this model leaves out.
StartFinalise(r, s) ==
  /\ shipment[s] = "DRAFT"
  /\ On(s) # {}
  /\ Enter(r, "finalise", s, "fin_check", NoDevice, 0, On(s))

\* Mutant: the devices are moved before the shipment is flipped.
FinaliseChecksDevice_MovesFirst(r) ==
  /\ req[r].pc = "fin_check"
  /\ \E d \in req[r].left :
       IF status[d] # "IN_EXPORT_CONSIGNMENT" THEN Finish(r)
       ELSE IF req[r].left = {d} THEN NextOf(r, req[r].all, "read")
       ELSE req' = [req EXCEPT ![r].left = @ \ {d}]
  /\ UNCHANGED <<status, shipment, lines, lastLine, deaths>>

FinaliseChecksDevice(r) ==
  /\ req[r].pc = "fin_check"
  /\ \E d \in req[r].left :
       IF status[d] # "IN_EXPORT_CONSIGNMENT" THEN Finish(r)
       ELSE req' = [req EXCEPT ![r].left = @ \ {d},
                               ![r].pc = IF req[r].left = {d} THEN "fin_flip" ELSE @]
  /\ UNCHANGED <<status, shipment, lines, lastLine, deaths>>

\* Mutant: UPDATE without WHERE status = 'DRAFT'.
FinaliseFlipsShipment_Unguarded(r) ==
  /\ req[r].pc = "fin_flip"
  /\ shipment' = [shipment EXCEPT ![req[r].ship] = "FINALISED"]
  /\ NextOf(r, req[r].all, "read")
  /\ UNCHANGED <<status, lines, lastLine, deaths>>

\* Mutant: the shipment is given the status of its devices.
FinaliseFlipsShipment_WrongStatus(r) ==
  /\ req[r].pc = "fin_flip"
  /\ shipment' = [shipment EXCEPT ![req[r].ship] = ExportTarget(req[r].ship)]
  /\ NextOf(r, req[r].all, "read")
  /\ UNCHANGED <<status, lines, lastLine, deaths>>

\* UPDATE ... WHERE status = 'DRAFT'; no row changed is a 409.
FinaliseFlipsShipment(r) ==
  LET s == req[r].ship IN
  /\ req[r].pc = "fin_flip"
  /\ IF shipment[s] = "DRAFT"
       THEN /\ shipment' = [shipment EXCEPT ![s] = "FINALISED"]
            /\ NextOf(r, req[r].all, "read")
       ELSE Finish(r) /\ UNCHANGED shipment
  /\ UNCHANGED <<status, lines, lastLine, deaths>>

Stranded(s) == { d \in On(s) : status[d] = "IN_EXPORT_CONSIGNMENT" }

\* Mutant: resume is for drafts only, as finalise is.
StartResume_Draft(r, s) ==
  /\ shipment[s] = "DRAFT"
  /\ \E batch \in SUBSET Stranded(s) :
       /\ batch # {}
       /\ \/ Cardinality(batch) = BatchSize
          \/ batch = Stranded(s) /\ Cardinality(batch) < BatchSize
       /\ Enter(r, "resume", s, "read", NoDevice, 0, batch)

StartResume(r, s) ==
  /\ shipment[s] = "FINALISED"
  /\ \E batch \in SUBSET Stranded(s) :
       /\ batch # {}
       /\ \/ Cardinality(batch) = BatchSize
          \/ batch = Stranded(s) /\ Cardinality(batch) < BatchSize
       /\ Enter(r, "resume", s, "read", NoDevice, 0, batch)

-----------------------------------------------------------------------------
(* applyZohoSaleImport() on a device its snapshot shows in stock.          *)

StartSale(r, d) ==
  /\ status[d] \notin OPR_WORKFLOW_ONLY_STATUSES
  /\ \E s \in Shipments : Enter(r, "sale", s, "read", d, 0, {})

-----------------------------------------------------------------------------
(* transitionDevice(), called by all of them.                              *)

InHand(r) == IF req[r].dev = NoDevice THEN req[r].left ELSE {req[r].dev}

ReadDevice(r) ==
  /\ req[r].pc = "read"
  /\ \E d \in InHand(r) :
       IF Allowed(status[d], Target(r))
         THEN req' = [req EXCEPT ![r].pc = "commit", ![r].dev = d, ![r].left = @ \ {d}]
       ELSE IF req[r].op \in Adding THEN req' = [req EXCEPT ![r].pc = "undo"]
       ELSE Finish(r)
  /\ UNCHANGED <<status, shipment, lines, lastLine, deaths>>

CommitTransition(r) ==
  /\ req[r].pc = "commit"
  /\ status' = [status EXCEPT ![req[r].dev] = Target(r)]
  /\ NextOf(r, req[r].left, LoopOf(r))
  /\ UNCHANGED <<shipment, lines, lastLine, deaths>>

\* The client disconnects or the worker is evicted between two statements.
Abandon(r) ==
  /\ Busy(r)
  /\ req[r].op \in Mortal
  /\ deaths < MaxDeaths
  /\ deaths' = deaths + 1
  /\ Finish(r)
  /\ UNCHANGED <<status, shipment, lines, lastLine>>

-----------------------------------------------------------------------------

Begin(r) ==
  \/ \E s \in Shipments :
       \/ StartFinalise(r, s)
       \/ StartResume(r, s)
       \/ \E devs \in SUBSET Devices :
            Cardinality(devs) \in 1..BulkSize /\ (StartAdd(r, s, devs) \/ StartBulk(r, s, devs))
  \/ \E l \in lines : StartRemove(r, l)
  \/ \E d \in Devices : StartSale(r, d)

Step(r) ==
  \/ AddReadsDevice(r) \/ AddTakesMatched(r) \/ AddInsertsLine(r) \/ AddUndoesLine(r)
  \/ RemoveDeletesLine(r) \/ RemoveReadsDevice(r)
  \/ FinaliseChecksDevice(r) \/ FinaliseFlipsShipment(r)
  \/ ReadDevice(r) \/ CommitTransition(r)

Next == \E r \in Requests : Begin(r) \/ Step(r) \/ Abandon(r)

Spec == Init /\ [][Next]_vars

\* A request that is not killed runs to its end, and an administrator calls
\* resume again as long as a finalised shipment has stranded devices.
FairSpec ==
  /\ Spec
  /\ \A r \in Requests : WF_vars(Step(r))
  /\ \A s \in Shipments : SF_vars(\E r \in Requests : StartResume(r, s))

-----------------------------------------------------------------------------
(* Properties.                                                             *)

\* Every variable has its type.
TypeOK ==
  /\ status \in [Devices -> DEVICE_STATUSES]
  /\ shipment \in [Shipments -> {"DRAFT", "FINALISED"}]
  /\ lines \subseteq Line
  /\ lastLine \in Nat
  /\ req \in [Requests -> Request \cup {Rest}]
  /\ deaths \in Nat

Exported == {"EXPORTED_UNDER_OPR", "TEMP_EXPORTED_STANDARD"}

\* The request is past the flip, in the loop that moves the devices.
Moving(r, s) ==
  Busy(r) /\ req[r].ship = s /\ req[r].op = "finalise" /\ req[r].pc \in {"read", "commit"}

\* In every race of two finalise calls for the same shipment, one wins: only one
\* ever gets past the guarded UPDATE into the loop that exports devices.
OneFinaliser ==
  \A s \in Shipments : \A q, r \in Requests :
    Moving(q, s) /\ Moving(r, s) => q = r

\* No device leaves the country on a draft: a device is EXPORTED_UNDER_OPR (or
\* TEMP_EXPORTED_STANDARD) only once a shipment of that type is FINALISED.
NothingLeavesOnADraft ==
  \A d \in Devices : status[d] \in Exported =>
    \E s \in Shipments : shipment[s] = "FINALISED" /\ status[d] = ExportTarget(s)

AtRest == \A r \in Requests : ~Busy(r)

\* "IN_EXPORT_CONSIGNMENT iff it has a line on a DRAFT export shipment;
\* EXPORTED_UNDER_OPR iff that shipment finalised" (deviceLifecycle.ts), for a
\* system at rest, but for the devices a dead worker left behind on a finalised
\* shipment.
StatusFollowsLines ==
  AtRest => \A d \in Devices :
    LET ons == { shipment[s] : s \in { t \in Shipments : d \in On(t) } } IN
    /\ "DRAFT" \in ons => status[d] = "IN_EXPORT_CONSIGNMENT"
    /\ status[d] = "IN_EXPORT_CONSIGNMENT" =>
         "DRAFT" \in ons \/ (deaths # 0 /\ "FINALISED" \in ons)
    /\ status[d] \in Exported => "FINALISED" \in ons
    /\ "FINALISED" \in ons /\ deaths = 0 => status[d] \in Exported

\* "the device cannot be silently yanked to SOLD out from under an open
\* consignment line" (deviceLifecycle.ts).
NotSoldOffALine ==
  [][\A l \in lines :
       status[l.dev] = "IN_EXPORT_CONSIGNMENT" => status'[l.dev] # "SOLD"]_vars

\* A device left IN_EXPORT_CONSIGNMENT on a finalised shipment by a worker that
\* died is eventually moved on by resume.
StrandedMoveOn ==
  \A d \in Devices, s \in Shipments :
    (shipment[s] = "FINALISED" /\ d \in Stranded(s))
      ~> (status[d] # "IN_EXPORT_CONSIGNMENT")

-----------------------------------------------------------------------------
(* The abstract consignment.  A device is packed on the shipment that has  *)
(* its line, from the commit that makes it IN_EXPORT_CONSIGNMENT to the    *)
(* deletion of the line.                                                   *)

PackedOn(d) ==
  { s \in Shipments : d \in On(s) /\ status[d] \in Exported \cup {"IN_EXPORT_CONSIGNMENT"} }

Abstract == INSTANCE Consignment WITH
  Devices   <- Devices,
  Shipments <- Shipments,
  place     <- [d \in Devices |->
                  IF status[d] = "SOLD" THEN "sold"
                  ELSE IF PackedOn(d) = {} THEN "stock"
                  ELSE CHOOSE s \in PackedOn(d) : TRUE],
  final     <- { s \in Shipments : shipment[s] = "FINALISED" },
  gone      <- { d \in Devices : status[d] \in Exported }

\* One request at a time, and no worker dying but in finalise and resume, the
\* routes implement the abstract consignment.
ImplementsConsignment == Abstract!Spec
=============================================================================
