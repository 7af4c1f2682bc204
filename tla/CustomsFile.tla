----------------------------- MODULE CustomsFile ------------------------------
(***************************************************************************)
(* The file of a consignment as routes/opr.ts keeps it: creating and       *)
(* editing a header, its lines, the acknowledgement of declared figures    *)
(* that do not match, the checks that let it be finalised, the proofs that *)
(* arrive afterwards, and the reconciled value of an export.               *)
(*                                                                         *)
(* A request reads its shipment, perhaps the rows around it, and writes.   *)
(* The reads that follow the one of the shipment are a single action.      *)
(* What the devices of a consignment do meanwhile is ExportConsignment and *)
(* ReturnConsignment.                                                      *)
(***************************************************************************)
EXTENDS ReturnRules, SequencesExt

CONSTANTS
  Shipments,
  Body,          \* [Shipments -> the columns that POST /shipments is given]
  Export,        \* [Shipments -> the export a return discharges, or Unset]
  Stock,         \* lines that may be put on an export
  Changes,       \* [Shipments -> the sets of columns that PATCH is given]
  Authorisation, Policies, Today,
  Values,        \* figures that an export is reconciled with
  Refs,          \* references of declarations
  Requests,
  AloneOps,      \* operations of which the staff run one at a time
  MaxRows        \* bound: rows of an append-only log

VARIABLES
  ship,          \* shipments: [Shipments -> columns, or Absent]
  lines,         \* shipment_lines: [Shipments -> set of lines]
  acks,          \* shipment_misdeclaration_acks, a log
  deltas,        \* shipment_value_deltas, a log
  req

vars == <<ship, lines, acks, deltas, req>>

Absent == [status |-> "absent"]

Exists(s)   == ship[s] # Absent
IsExport(s) == Body[s].direction = "export"
Legs(e)     == { s \in Shipments : Export[s] = e }

Rest        == [pc |-> "rest"]
Busy(r)     == req[r] # Rest
Finish(r)   == req' = [req EXCEPT ![r] = Rest]

\* seen is the row as read, data what the request goes on with.
Enter(r, pc, op, s, seen, data) ==
  /\ ~Busy(r)
  /\ op \in AloneOps => \A q \in Requests : Busy(q) => req[q].op \notin AloneOps
  /\ req' = [req EXCEPT ![r] = [pc |-> pc, op |-> op, ship |-> s, seen |-> seen, data |-> data]]

Init ==
  /\ ship = [s \in Shipments |-> Absent]
  /\ lines = [s \in Shipments |-> {}]
  /\ acks = <<>>
  /\ deltas = <<>>
  /\ req = [r \in Requests |-> Rest]

-----------------------------------------------------------------------------
(* POST /shipments: the row, then the worksheet columns it was given.      *)

Blanked(body) ==
  [c \in DOMAIN body |-> IF c \notin Worksheet THEN body[c]
                         ELSE IF c = "duty_override_claimed" THEN FALSE ELSE Unset]

\* Worksheet columns are for imports; a standard export has no procedure codes.
BodyOk(s) ==
  LET b == Body[s] IN
  /\ b.reference # Unset /\ "bad" \notin {b.reference, b.consignee_name}
  /\ b.currency = "GBP"
  /\ IsExport(s) \/ Standard(b) => Blanked(b) = b
  /\ IF Standard(b) THEN {b.procedure_code, b.additional_procedure_code} = {Unset} ELSE StoredCodesOk(b)

InsertShipment(r, s) ==
  /\ ~Exists(s) /\ BodyOk(s)
  /\ Export[s] # Unset => Exists(Export[s])
  /\ Enter(r, "worksheet", "create", s, Absent, <<>>)
  /\ ship' = [ship EXCEPT ![s] = [Blanked(Body[s]) EXCEPT !.status = "DRAFT"]]
  /\ UNCHANGED <<lines, acks, deltas>>

InsertWorksheet(r) ==
  LET s == req[r].ship IN
  /\ req[r].pc = "worksheet"
  /\ ship' = [ship EXCEPT ![s] = [c \in DOMAIN @ |-> IF c \in Worksheet THEN Body[s][c] ELSE @[c]]]
  /\ Finish(r)
  /\ UNCHANGED <<lines, acks, deltas>>

-----------------------------------------------------------------------------
(* PATCH /shipments/:id and the routes of the lines: DRAFT is tested on    *)
(* the row read, the write has no condition.                               *)

\* A row with some of its columns changed.
Patched(row, change) == [c \in DOMAIN row |-> IF c \in DOMAIN change THEN change[c] ELSE row[c]]

\* A pair of codes is checked together, whichever of them is given.
ChangeOk(row, change) ==
  {"procedure_code", "additional_procedure_code"} \cap DOMAIN change # {} =>
    StoredCodesOk(Patched(row, change))

StartEdit(r, s, change) ==
  /\ ship[s].status = "DRAFT"
  /\ ChangeOk(ship[s], change)
  /\ Enter(r, "edit", "edit", s, ship[s], change)
  /\ UNCHANGED <<ship, lines, acks, deltas>>

WriteEditing(r) ==
  /\ req[r].pc = "edit"
  /\ ship' = [ship EXCEPT ![req[r].ship] = Patched(@, req[r].data)]
  /\ Finish(r)
  /\ UNCHANGED <<lines, acks, deltas>>

\* A line of a return is a copy of the line of its export, and stands on one open
\* return only.
MayJoin(s, l) ==
  IF IsExport(s) THEN l \in Stock
  ELSE /\ Export[s] # Unset /\ l \in lines[Export[s]]
       /\ ship[Export[s]].status = "FINALISED"
       /\ \A t \in Legs(Export[s]) : l \notin lines[t]

StartAddLine(r, s, l) ==
  /\ ship[s].status = "DRAFT"
  /\ MayJoin(s, l)
  /\ Enter(r, "add", "line", s, ship[s], l)
  /\ UNCHANGED <<ship, lines, acks, deltas>>

InsertLine(r) ==
  /\ req[r].pc = "add"
  /\ lines' = [lines EXCEPT ![req[r].ship] = @ \cup {req[r].data}]
  /\ Finish(r)
  /\ UNCHANGED <<ship, acks, deltas>>

StartRemoveLine(r, s, l) ==
  /\ ship[s].status = "DRAFT"
  /\ l \in lines[s]
  /\ Enter(r, "remove", "line", s, ship[s], l)
  /\ UNCHANGED <<ship, lines, acks, deltas>>

DeleteLine(r) ==
  /\ req[r].pc = "remove"
  /\ lines' = [lines EXCEPT ![req[r].ship] = @ \ {req[r].data}]
  /\ Finish(r)
  /\ UNCHANGED <<ship, acks, deltas>>

-----------------------------------------------------------------------------
(* POST /shipments/:id/misdeclaration-ack.                                 *)

\* The other legs of the export that s discharges.
loadSiblingLegs(s) ==
  { [piece_count  |-> ship[t].declared_piece_count,
     gross_weight |-> ship[t].declared_gross_weight_kg,
     quantity     |-> Cardinality(lines[t])]
    : t \in { t \in Legs(Export[s]) \ {s} : Exists(t) } }

\* The latest acknowledgement of each type.
loadMisdeclarationAcks(s) ==
  [type \in VarianceTypes |->
     LET at == { i \in DOMAIN acks : acks[i].ship = s /\ acks[i].type = type } IN
     IF at = {} THEN Unset ELSE acks[Max(at)].figures]

RelatedExport(s) == IF Export[s] = Unset THEN Unset ELSE ship[Export[s]]

Form(row, s) ==
  computeCe1154(row, RelatedExport(s), Authorisation, lines[s], Unset,
                loadSiblingLegs(s), loadMisdeclarationAcks(s))

StartAck(r, s, type) ==
  /\ Exists(s) /\ ~IsExport(s)
  /\ Len(acks) < MaxRows
  /\ Enter(r, "compute", "ack", s, ship[s], type)
  /\ UNCHANGED <<ship, lines, acks, deltas>>

\* Refused when the form cannot be computed or shows no such variance.
ComputeAck(r) ==
  LET s    == req[r].ship
      form == Form(req[r].seen, s)
  IN
  /\ req[r].pc = "compute"
  /\ IF form.ok /\ req[r].data \in form.misdeclaration.misdeclared
       THEN req' = [req EXCEPT ![r].pc = "ack",
                      ![r].data = [ship |-> s, type |-> req[r].data,
                                   figures |-> Figures(req[r].seen, lines[s], req[r].data)]]
       ELSE Finish(r)
  /\ UNCHANGED <<ship, lines, acks, deltas>>

InsertAck(r) ==
  /\ req[r].pc = "ack"
  /\ acks' = Append(acks, req[r].data)
  /\ Finish(r)
  /\ UNCHANGED <<ship, lines, deltas>>

-----------------------------------------------------------------------------
(* POST /shipments/:id/finalise, up to the status of the shipment.         *)

Units(t) == NonNull(ship[t].supplementary_units, Cardinality(lines[t]))

\* The leg at hand counts by the columns as read, the others as they stand.
loadReturnBalance(row, s, declared) ==
  LET other == { t \in Legs(Export[s]) : ship[t].status = "FINALISED" } IN
  IF Export[s] = Unset \/ Standard(row) THEN Unset
  ELSE [exported |-> Cardinality(lines[Export[s]]),
        returned |-> MapThenSumSet(Units, other)
                       + NonNull(row.supplementary_units, Cardinality(lines[s])),
        declared |-> declared]

Validation(row, s, declared) ==
  IF IsExport(s)
    THEN runExportValidation(row, Authorisation, lines[s], Today, loadExportProcedurePolicy(Policies, row))
    ELSE runImportValidation(row, RelatedExport(s), Authorisation, lines[s], Today, loadSiblingLegs(s),
           loadMisdeclarationAcks(s), {}, loadReturnBalance(row, s, declared))

\* ref is the reference of the declaration, Unset when it has not come yet.
StartFinalise(r, s, ref, declared) ==
  /\ ship[s].status = "DRAFT"
  /\ Enter(r, "validate", "finalise", s, ship[s], [ref |-> ref, declared |-> declared])
  /\ UNCHANGED <<ship, lines, acks, deltas>>

\* Any red check refuses.
Validate(r) ==
  /\ req[r].pc = "validate"
  /\ IF Worst(Validation(req[r].seen, req[r].ship, req[r].data.declared)) = "red"
       THEN Finish(r)
       ELSE req' = [req EXCEPT ![r].pc = "flip"]
  /\ UNCHANGED <<ship, lines, acks, deltas>>

ProofColumn(s) == IF IsExport(s) THEN "export_mrn" ELSE "import_mrn"

FlipShipment(r) ==
  LET s == req[r].ship IN
  /\ req[r].pc = "flip"
  /\ ship' = IF ship[s].status # "DRAFT" THEN ship
             ELSE [ship EXCEPT ![s].status = "FINALISED",
                               ![s].finalised_at = Today,
                               ![s][ProofColumn(s)] = NonNull(req[r].data.ref, @)]
  /\ Finish(r)
  /\ UNCHANGED <<lines, acks, deltas>>

-----------------------------------------------------------------------------
(* POST /shipments/:id/export-proof and /import-proof.                     *)

StartProof(r, s, ref) ==
  /\ ship[s].status = "FINALISED"
  /\ Enter(r, "proof", "proof", s, ship[s], ref)
  /\ UNCHANGED <<ship, lines, acks, deltas>>

WriteProof(r) ==
  LET s == req[r].ship IN
  /\ req[r].pc = "proof"
  /\ ship' = [ship EXCEPT ![s][ProofColumn(s)] = req[r].data]
  /\ Finish(r)
  /\ UNCHANGED <<lines, acks, deltas>>

-----------------------------------------------------------------------------
(* POST /shipments/:id/reconcile-value.                                    *)

Reconciled(row, s) == NonNull(row.reconciled_value_gbp, sumLineValues(lines[s]))

StartReconcile(r, s, value) ==
  /\ Exists(s) /\ IsExport(s)
  /\ Len(deltas) < MaxRows
  /\ Enter(r, "delta", "value", s, ship[s], value)
  /\ UNCHANGED <<ship, lines, acks, deltas>>

WriteValue(r) ==
  LET s     == req[r].ship
      delta == computeValueDelta(Reconciled(req[r].seen, s), req[r].data)
  IN
  /\ req[r].pc = "delta"
  /\ IF delta.ok
       THEN /\ ship' = [ship EXCEPT ![s].reconciled_value_gbp = delta.new]
            /\ req' = [req EXCEPT ![r].pc = "insert_delta", ![r].data = delta]
       ELSE UNCHANGED ship /\ Finish(r)
  /\ UNCHANGED <<lines, acks, deltas>>

InsertDelta(r) ==
  LET d == req[r].data IN
  /\ req[r].pc = "insert_delta"
  /\ deltas' = Append(deltas, [ship |-> req[r].ship, old |-> d.old, new |-> d.new])
  /\ Finish(r)
  /\ UNCHANGED <<ship, lines, acks>>

\* A worker dies between two statements.
Abandon(r) ==
  /\ Busy(r)
  /\ Finish(r)
  /\ UNCHANGED <<ship, lines, acks, deltas>>

-----------------------------------------------------------------------------

Editing(r) ==
  \/ \E s \in Shipments : InsertShipment(r, s)
  \/ InsertWorksheet(r)
  \/ \E s \in Shipments : \E change \in Changes[s] : StartEdit(r, s, change)
  \/ WriteEditing(r)

Building(r) ==
  \/ \E s \in Shipments, l \in Stock : StartAddLine(r, s, l) \/ StartRemoveLine(r, s, l)
  \/ InsertLine(r)
  \/ DeleteLine(r)

Acknowledging(r) ==
  \/ \E s \in Shipments, type \in VarianceTypes : StartAck(r, s, type)
  \/ ComputeAck(r)
  \/ InsertAck(r)

Finalising(r) ==
  \/ \E s \in Shipments, ref \in Refs \cup {Unset}, declared \in BOOLEAN :
       StartFinalise(r, s, ref, declared)
  \/ Validate(r)
  \/ FlipShipment(r)
  \/ \E s \in Shipments, ref \in Refs : StartProof(r, s, ref)
  \/ WriteProof(r)

Reconciling(r) ==
  \/ \E s \in Shipments, value \in Values : StartReconcile(r, s, value)
  \/ WriteValue(r)
  \/ InsertDelta(r)

Next ==
  \E r \in Requests :
    Editing(r) \/ Building(r) \/ Acknowledging(r) \/ Finalising(r) \/ Reconciling(r) \/ Abandon(r)

Spec == Init /\ [][Next]_vars

-----------------------------------------------------------------------------

RowOk(s) ==
  /\ DOMAIN ship[s] = DOMAIN Body[s]
  /\ ship[s].status \in {"DRAFT", "FINALISED"}
  /\ ship[s].status = "FINALISED" <=> ship[s].finalised_at # Unset

AckOk(a) == a.ship \in Shipments /\ ~IsExport(a.ship) /\ a.type \in VarianceTypes /\ a.figures[1] # Unset

DeltaOk(d) == d.ship \in Shipments /\ IsExport(d.ship) /\ {d.old, d.new} \subseteq Nat

TypeOK ==
  /\ \A s \in Shipments : IF Exists(s) THEN RowOk(s) /\ lines[s] \subseteq Stock ELSE lines[s] = {}
  /\ \A i \in DOMAIN acks : AckOk(acks[i])
  /\ \A i \in DOMAIN deltas : DeltaOk(deltas[i])
  /\ \A r \in Requests : Busy(r) => req[r].ship \in Shipments

\* The variance of the value declared by a return that is received.
ReceivedWithVariance(s) ==
  /\ Exists(s) /\ ~IsExport(s) /\ ~Standard(ship[s])
  /\ ship[s].status = "FINALISED"
  /\ Misdeclared(ship[s], lines[s], {}, "value")

AcknowledgedAsItStands(s) ==
  \E i \in DOMAIN acks : /\ acks[i].ship = s
                         /\ acks[i].type = "value"
                         /\ acks[i].figures = Figures(ship[s], lines[s], "value")

\* A return whose form can be computed is received with a declared total that is not
\* the sum of its lines only if those very figures, declared and computed, were
\* acknowledged: an acknowledgement of what the header or the lines said before
\* they were edited does not count.  (The staff create, edit and finalise one
\* shipment at a time; acknowledgements come when they like.)
ReceivedAsAcknowledged ==
  \A s \in Shipments :
    ReceivedWithVariance(s) /\ Form(ship[s], s).ok => AcknowledgedAsItStands(s)
=============================================================================
