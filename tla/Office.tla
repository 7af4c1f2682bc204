-------------------------------- MODULE Office ---------------------------------
(***************************************************************************)
(* The desks of the office: the supplier's bills (Bills), the customs file *)
(* of a consignment (CustomsFile), the import of sales (SaleImport), the   *)
(* repairs in house (RepairWorkflow), the map of SKUs (SkuMap), the labels *)
(* (Labels) and the mail (Comms).  All but the mail are worked at by the   *)
(* same staff.  No desk writes a table of another, but for the status of a *)
(* device: what the other routes may write over it is in SaleImport and in *)
(* RepairWorkflow themselves.  Their constants and variables are those of  *)
(* the modules, renamed where two modules have the same name.  `sample` is *)
(* what the rules of a desk are asked of: a header or a page of an entry,  *)
(* or another sample (see MCOffice).                                       *)
(***************************************************************************)
EXTENDS Bills

CONSTANTS
  Nothing,                                               \* NULL
  Unset, DefaultAdjustment, Consignments, Body, Export,  \* see CustomsFile
  Stock, Changes, Authorisation, Policies, Today,
  Values, Refs, FiledAlone, MaxLog,
  SaleDevices, SaleExports, Disposition,                 \* see SaleImport
  LOW_YIELD_MIN_ROWS, OneImport, MaxOthers,
  RepairDevices, OneRepair, WorkersDie, MaxRepairs,      \* see RepairWorkflow
  Skus, Items, ZohoSkus, Notes, MapUploads, MaxWrites,   \* see SkuMap
  Devices, Catalogue, Arrivals, Visited, OneCorrection,  \* see Labels
  MaxJobs, MaxFlags,
  Shipments, Direction, Senders, MaxDay, MaxRows,        \* see Comms
  MaxReplies

VARIABLES
  ship, lines, acks, deltas, clerk,
  standing, cols, sold, others, importer,
  stage, ready, repairs, mechanic,
  items, map, audit, version, editor,
  row, line, jobs, queuing, mode, flags, spool, label, excused, printer,
  now, posted, emails, replies, checklist, accepted, sender,
  sample

Customs == INSTANCE CustomsFile WITH
  Shipments <- Consignments, AloneOps <- FiledAlone, MaxRows <- MaxLog, req <- clerk

Sale == INSTANCE SaleImport WITH
  Devices <- SaleDevices, Files <- SaleExports, status <- standing, req <- importer

Repair == INSTANCE RepairWorkflow WITH
  Devices <- RepairDevices, Serialised <- OneRepair, MaxJobs <- MaxRepairs,
  status <- stage, jobs <- repairs, req <- mechanic

Sku == INSTANCE SkuMap WITH
  Files <- MapUploads, Managers <- Requests, None <- Nothing, req <- editor

Label == INSTANCE Labels WITH None <- Nothing, req <- printer

Mail == INSTANCE Comms WITH Requests <- Senders, lines <- posted, req <- sender

\* What the desks promise, stated in their modules.
ReceivedAsAcknowledged  == Customs!ReceivedAsAcknowledged
SoldAsRecorded          == Sale!SoldAsRecorded
OneLiveJob              == Repair!OneLiveJob
ClosedIffCompleted      == Repair!ClosedIffCompleted
RepairIsResumable       == Repair!RepairIsResumable
IntoZohoThroughTheGate  == Repair!IntoZohoThroughTheGate
EditsBuildOnWhatWasSeen == Sku!EditsBuildOnWhatWasSeen
LabelsCatchUp           == Label!LabelsCatchUp
LogIsHonest             == Mail!LogIsHonest
ChasedWhenDue           == Mail!ChasedWhenDue

-----------------------------------------------------------------------------
(* What customs are told of a return.                                      *)

IsSample(kind) == sample.kind = kind

SampleForm ==
  Customs!computeCe1154(sample.of, [export_mrn |-> 1], Authorisation, Stock, Unset, {},
                        [type \in Customs!VarianceTypes |-> Unset])

\* An entry reconciles only when both its taxes are on it.
EntryIsRead(tokens) ==
  LET verdict == Customs!reconcileBox47(Customs!parseBox47(tokens), 5, 5) IN
  verdict.ok => \A type \in {"A00", "B00"} :
    \E i \in DOMAIN tokens : tokens[i] = [kind |-> "code", code |-> type]

\* The C&E1154 is honest about what it does not know (see Customs!Honest), and the entry it
\* is held against never has a nil for a tax that is not on it.
FormIsHonest ==
  /\ IsSample("form") => Customs!Honest(sample.of, SampleForm)
  /\ IsSample("entry") => EntryIsRead(sample.of)
================================================================================
