------------------------------ MODULE SaleImport ------------------------------
(***************************************************************************)
(* The import of sales from Zoho (lib/zohoSaleImport.ts, called by         *)
(* POST /api/zoho-sale-import).  A file is classified against one          *)
(* snapshot of received_devices; then the moves that are no revenue are    *)
(* written in one batch, and each sale in three statements: its columns,   *)
(* the read of transitionDevice() and its write.  The other routes move    *)
(* devices meanwhile, with a read and an unconditional write of their own. *)
(*                                                                         *)
(* A row of a file is a record of the columns that the import reads.  Its  *)
(* code is a serial as it is spelled: [imei, spelling].  A file that does  *)
(* not parse, and a dry run, write nothing and are no action.              *)
(***************************************************************************)
EXTENDS DeviceStatus, Integers, Sequences, FiniteSets, FiniteSetsExt

CONSTANTS
  Devices,              \* received devices, named by their serial
  Files,                \* [names of files -> Seq(row)]
  Disposition,          \* ZOHO_CONTACT_DISPOSITION_MAP
  LOW_YIELD_MIN_ROWS,
  Requests,
  OneImport,            \* TRUE: managers import one file at a time
  MaxOthers,            \* bound on the moves of other routes under way
  Nothing               \* NULL, or an empty cell

VARIABLES
  status,               \* received_devices.status
  cols,                 \* the sale columns of each device
  sold,                 \* the invoice in the latest event of a device, when that is
                        \* the sale of an import, else Nothing
  others,               \* moves other routes have read a device for: <<device, to>>
  req

vars == <<status, cols, sold, others, req>>

NoSale == [invoice |-> Nothing, date |-> Nothing, price |-> Nothing, disposition |-> Nothing,
          credit |-> Nothing, contact |-> Nothing, entity |-> Nothing]

Rest    == [pc |-> "rest"]
Busy(r) == req[r] # Rest

Init ==
  /\ status = [d \in Devices |-> "RECEIVED"]
  /\ cols = [d \in Devices |-> NoSale]
  /\ sold = [d \in Devices |-> Nothing]
  /\ others = {}
  /\ req = [r \in Requests |-> Rest]

-----------------------------------------------------------------------------
(* Classification.                                                         *)

classifyDisposition(contact) ==
  IF contact \in DOMAIN Disposition THEN Disposition[contact] ELSE "UNCLASSIFIED"

\* The rows of one serial, as it is spelled, are one device's history: the last
\* that left counts, the first of that day, or the first row where none did.
RowsOf(rows, code) == { i \in DOMAIN rows : rows[i].code = code }

resolveZohoRowForCode(rows, code) ==
  LET all  == RowsOf(rows, code)
      left == { i \in all : rows[i].date # Nothing }
  IN  IF left = {} THEN rows[Min(all)]
      ELSE rows[Min({ i \in left : \A j \in left : rows[j].date <= rows[i].date })]

\* A row of stock that has no sign of having gone anywhere.
Idle(row) ==
  row.contact = Nothing /\ row.status = "available" /\ ~row.has_out_type /\ row.price = Nothing

Outcome(row) ==
  LET disposition == classifyDisposition(row.contact) IN
  IF row.code.imei \notin Devices THEN "none"
  ELSE IF Idle(row) THEN "skipped_available"
  ELSE CASE disposition = "UNCLASSIFIED"  -> "matched_unclassified"
         [] disposition = "SALE_EXTERNAL" -> "matched_sale"
         [] OTHER                         -> "matched_non_revenue"

\* gbpStringToPence(), on a price in [sign, pounds, pence]: the sign of the pounds is
\* the sign of the pence, and nought pounds have none.
gbpStringToPence(price) ==
  IF price = Nothing THEN Nothing
  ELSE IF price.minus /\ price.pounds > 0 THEN -(100 * price.pounds + price.pence)
  ELSE 100 * price.pounds + price.pence

Pence(row) == gbpStringToPence(row.price)

\* What a row would have the import write, and at which place of the file.
classifyRow(rows, code) ==
  LET row == resolveZohoRowForCode(rows, code) IN
  [no          |-> Min(RowsOf(rows, code)),
   outcome     |-> Outcome(row),
   imei        |-> code.imei,
   disposition |-> classifyDisposition(row.contact),
   price       |-> IF Pence(row) = Nothing THEN 0 ELSE Pence(row),
   credit      |-> IF classifyDisposition(row.contact) = "RETURN_TO_SUPPLIER" THEN Pence(row) ELSE Nothing,
   invoice     |-> row.invoice,
   date        |-> row.date,
   contact     |-> row.contact]

classifyZohoCsvRows(rows) == { classifyRow(rows, code) : code \in { rows[i].code : i \in DOMAIN rows } }

Having(outcomes, outcome) == { o \in outcomes : o.outcome = outcome }

\* At least fifty rows, and no sale or a quarter of the rows still in stock.
LowYield(rows, outcomes) ==
  /\ Len(rows) >= LOW_YIELD_MIN_ROWS
  /\ \/ Having(outcomes, "matched_sale") = {}
     \/ 4 * Cardinality(Having(outcomes, "skipped_available")) >= Len(rows)

SOLD_REACHABLE_STATUSES ==
  {"RECEIVED", "SORTING", "ACTIVE_INVENTORY", "IN_HOUSE_REPAIR", "READY_FOR_EXPORT",
   "QC_FAILED", "READY_FOR_ZOHO"}

\* Why a sale is not written, "none" when it is: a device sold already is looked at
\* first, since no sold device is within reach of another sale.
Obstacle(o, acknowledgeQcFailed) ==
  LET d == o.imei IN
  IF status[d] = "SOLD"
    THEN IF cols[d].entity # Nothing /\ cols[d].entity = o.invoice THEN "already_imported"
         ELSE "already_sold"
  ELSE IF status[d] \notin SOLD_REACHABLE_STATUSES
    THEN IF status[d] = "REJECTED" THEN "rejected" ELSE "locked_consignment"
  ELSE IF status[d] = "QC_FAILED" /\ ~acknowledgeQcFailed THEN "qc_failed"
  ELSE "none"

-----------------------------------------------------------------------------
(* The writes.                                                             *)

StartImport(r, f, acknowledgeQcFailed, acknowledgeLowYield) ==
  LET outcomes == classifyZohoCsvRows(Files[f]) IN
  /\ ~Busy(r)
  /\ OneImport => \A q \in Requests : ~Busy(q)
  /\ LowYield(Files[f], outcomes) => acknowledgeLowYield
  /\ req' = [req EXCEPT ![r] =
       [pc    |-> "non_revenue",
        moves |-> Having(outcomes, "matched_non_revenue"),
        sales |-> { o \in Having(outcomes, "matched_sale") : Obstacle(o, acknowledgeQcFailed) = "none" }]]
  /\ UNCHANGED <<status, cols, sold, others>>

\* Of two moves of one device the last in the file is the one that stands.
Standing(d, moves) == { o \in moves : o.imei = d /\ \A p \in moves : p.imei = d => p.no <= o.no }

NonRevenueColumns(d, o) ==
  [cols[d] EXCEPT !.disposition = o.disposition, !.credit = o.credit, !.contact = o.contact,
                  !.entity = o.invoice]

WriteNonRevenue(r) ==
  /\ req[r].pc = "non_revenue"
  /\ cols' = [d \in Devices |->
       IF Standing(d, req[r].moves) = {} THEN cols[d]
       ELSE NonRevenueColumns(d, CHOOSE o \in Standing(d, req[r].moves) : TRUE)]
  /\ req' = [req EXCEPT ![r].pc = "columns"]
  /\ UNCHANGED <<status, sold, others>>

\* The sale at hand: the first of the file that is left.
Sale(r) == CHOOSE o \in req[r].sales : \A p \in req[r].sales : o.no <= p.no

Done(r) == req[r].sales = {}

FinishImport(r) ==
  /\ req[r].pc = "columns" /\ Done(r)
  /\ req' = [req EXCEPT ![r] = Rest]
  /\ UNCHANGED <<status, cols, sold, others>>

SaleColumns(o) ==
  [cols[o.imei] EXCEPT !.invoice = o.invoice, !.date = o.date, !.price = o.price,
                       !.disposition = o.disposition, !.contact = o.contact, !.entity = o.invoice]

WriteSaleColumns(r) ==
  /\ req[r].pc = "columns" /\ ~Done(r)
  /\ cols' = [cols EXCEPT ![Sale(r).imei] = SaleColumns(Sale(r))]
  /\ req' = [req EXCEPT ![r].pc = "read"]
  /\ UNCHANGED <<status, sold, others>>

NextSale(r) == req' = [req EXCEPT ![r].pc = "columns", ![r].sales = @ \ {Sale(r)}]

\* A refusal is reported as a conflict; the columns stay.
ReadDevice(r) ==
  /\ req[r].pc = "read"
  /\ IF Allowed(status[Sale(r).imei], "SOLD")
       THEN req' = [req EXCEPT ![r].pc = "commit"]
       ELSE NextSale(r)
  /\ UNCHANGED <<status, cols, sold, others>>

\* Mutant: the columns are left to a later statement.
CommitSale_ColumnsLater(r) ==
  /\ req[r].pc = "commit"
  /\ status' = [status EXCEPT ![Sale(r).imei] = "SOLD"]
  /\ sold' = [sold EXCEPT ![Sale(r).imei] = Sale(r).invoice]
  /\ cols' = [cols EXCEPT ![Sale(r).imei].invoice = Nothing]
  /\ NextSale(r)
  /\ UNCHANGED others

CommitSale(r) ==
  /\ req[r].pc = "commit"
  /\ status' = [status EXCEPT ![Sale(r).imei] = "SOLD"]
  /\ sold' = [sold EXCEPT ![Sale(r).imei] = Sale(r).invoice]
  /\ NextSale(r)
  /\ UNCHANGED <<cols, others>>

\* transitionDevice() in another route, a sale by hand included: its read and its check.
Look(d, to) ==
  /\ Cardinality(others) < MaxOthers
  /\ Allowed(status[d], to)
  /\ others' = others \cup {<<d, to>>}
  /\ UNCHANGED <<status, cols, sold, req>>

\* Its batch: whatever the status is by now, and the event of the move.
Move(d, to) ==
  /\ <<d, to>> \in others
  /\ others' = others \ {<<d, to>>}
  /\ status' = [status EXCEPT ![d] = to]
  /\ sold' = [sold EXCEPT ![d] = Nothing]
  /\ UNCHANGED <<cols, req>>

\* A worker dies between two statements.
Abandon(r) ==
  /\ Busy(r)
  /\ req' = [req EXCEPT ![r] = Rest]
  /\ UNCHANGED <<status, cols, sold, others>>

-----------------------------------------------------------------------------

Importing(r) ==
  \/ \E f \in DOMAIN Files, qc, low \in BOOLEAN : StartImport(r, f, qc, low)
  \/ WriteNonRevenue(r)
  \/ WriteSaleColumns(r)
  \/ ReadDevice(r)
  \/ CommitSale(r)
  \/ FinishImport(r)
  \/ Abandon(r)

Next ==
  \/ \E r \in Requests : Importing(r)
  \/ \E d \in Devices, to \in DEVICE_STATUSES : Look(d, to) \/ Move(d, to)

Spec == Init /\ [][Next]_vars

-----------------------------------------------------------------------------

TypeOK ==
  /\ status \in [Devices -> DEVICE_STATUSES]
  /\ \A d \in Devices : DOMAIN cols[d] = DOMAIN NoSale
  /\ \A d \in Devices : cols[d].price = Nothing \/ cols[d].price \in Int
  /\ \A d \in Devices : (cols[d].invoice = Nothing) <=> (cols[d].price = Nothing)
  /\ others \subseteq Devices \X DEVICE_STATUSES
  /\ \A r \in Requests : Busy(r) => req[r].pc \in {"non_revenue", "columns", "read", "commit"}

\* A device whose latest event is the sale of an import is SOLD, and its columns name
\* the invoice of that event: also between two statements, after a worker died with the
\* columns written, when the file is imported again, when a later file has another
\* invoice for the device, and when another route, which had read the device before
\* the sale, wrote its own status and event over it and the device was sold again.
\* (Managers import one file at a time, and a file spells a serial in one way.)
SoldAsRecorded ==
  \A d \in Devices : sold[d] # Nothing => status[d] = "SOLD" /\ cols[d].invoice = sold[d]
=============================================================================
