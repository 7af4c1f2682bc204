------------------------------- MODULE MCOffice --------------------------------
(* The desks of the office are separate (see Office), so that a behaviour is   *)
(* that of one desk, chosen at the start; or it is a sample of the rules that  *)
(* no request decides, in which nothing happens.  What a desk promises holds   *)
(* of it while it rests as well.                                               *)
EXTENDS Office, MCBills

CONSTANTS
  p1,                                    \* a sender of mail
  out, ret,                              \* an export, and a return of it
  d1, d2, buyer, supplier, stranger,     \* devices and contacts of a sales export
  f1, f2, f3, inv1, inv2,                \* its files and invoices
  g1,                                    \* a device under repair
  s1, s2, a1, a2, z1, z2, n1,            \* SKUs, items, SKUs at Zoho and a note
  k1, kA, kUG                            \* a device and the two SKUs of its model

VARIABLE desk   \* where something happens, or "rules"

fileVars  == <<ship, lines, acks, deltas, clerk>>
saleVars  == <<standing, cols, sold, others, importer>>
repairVars == <<stage, ready, repairs, mechanic>>
skuVars   == <<items, map, audit, version, editor>>
labelVars == <<row, line, jobs, queuing, mode, flags, spool, label, excused, printer>>
mailVars  == <<now, posted, emails, replies, checklist, accepted, sender>>

-----------------------------------------------------------------------------
(* A consignment's file: an export and a return of one or both devices.      *)

Rules == INSTANCE ReturnRules

day(n) == <<2024, 1, n>>

NoWorksheet == [c \in Rules!Worksheet |-> IF c = "duty_override_claimed" THEN FALSE ELSE Unset]

Columns(direction, code) ==
  [direction |-> direction, shipment_type |-> "TEMP_EXPORT_OPR", status |-> "DRAFT",
   reference |-> "ok", currency |-> "GBP", procedure_code |-> code,
   additional_procedure_code |-> Unset, consignee_name |-> "ok", consignee_address |-> "ok",
   carrier |-> "ok", incoterm |-> "ok", ship_date |-> day(10), created_at |-> day(5),
   finalised_at |-> Unset, export_mrn |-> Unset, import_mrn |-> Unset,
   reconciled_value_gbp |-> Unset, derived |-> {}] @@ NoWorksheet

Return ==
  [repair_cost |-> 1000, customs_exchange_rate |-> 125, customs_exchange_rate_month |-> 1,
   repair_cost_currency |-> "USD", duty_rate_pct |-> 200, inbound_freight_gbp |-> 300,
   non_eu_freight_share_gbp |-> 200, export_freight_gbp |-> 100,
   declared_invoice_total_gbp |-> 700] @@ Columns("import", "6121")

Bodies == (out :> Columns("export", "2100")) @@ (ret :> Return)

Handsets == {[imei |-> 1, imei_ok |-> TRUE, unit_value |-> 400, currency |-> "GBP"],
             [imei |-> 2, imei_ok |-> TRUE, unit_value |-> 300, currency |-> "GBP"]}

Authority ==
  [op_authorisation_number |-> 1, supervising_office_code |-> 1, commodity_codes |-> 1,
   valid_from |-> day(1), valid_to |-> day(20), discharge_period_months |-> 1]
ProcedurePolicies ==
  {[effective_from |-> day(8), procedure_code |-> "2100", additional_procedure_code |-> "000",
    supervising_office_code |-> 1]}
Edits ==
  (out :> {[procedure_code |-> "2100", additional_procedure_code |-> "000"]})
    @@ (ret :> {[declared_invoice_total_gbp |-> 400]})

Discharges == (out :> Unset) @@ (ret :> out)
Date       == day(12)
Reconciled == {800, -1}

-----------------------------------------------------------------------------
(* Bills: the invoice is in MCBills.                                         *)

Shared == INSTANCE Apportionment

-----------------------------------------------------------------------------
(* Sales: a device that left twice, one that the supplier took back, a sale   *)
(* with no price, and a file of nothing but stock.                           *)

Code(imei) == [imei |-> imei, spelling |-> 1]
Left(imei, contact, invoice, date, price) ==
  [code |-> Code(imei), contact |-> contact, status |-> "out", has_out_type |-> TRUE,
   price |-> price, invoice |-> invoice, date |-> date]
InStock(imei) ==
  [code |-> Code(imei), contact |-> Nothing, status |-> "available", has_out_type |-> FALSE,
   price |-> Nothing, invoice |-> Nothing, date |-> Nothing]
Price(minus, pounds, pence) == [minus |-> minus, pounds |-> pounds, pence |-> pence]

SaleFiles ==
  (f1 :> <<Left(d1, buyer, inv1, 1, Price(FALSE, 1, 50)), Left(d1, buyer, inv2, 2, Price(FALSE, 2, 0)),
           Left(d2, supplier, inv1, 1, Price(TRUE, 0, 50))>>)
    @@ (f2 :> <<Left(d1, supplier, inv1, 1, Price(FALSE, 1, 0)), Left(d2, buyer, inv2, 1, Nothing),
                InStock(d1)>>)
    @@ (f3 :> <<InStock(d1), Left(d2, stranger, inv1, 1, Nothing)>>)

Contacts == (buyer :> "SALE_EXTERNAL") @@ (supplier :> "RETURN_TO_SUPPLIER")

-----------------------------------------------------------------------------
(* Two SKUs, two items, and files that map one SKU or both.                  *)

Mapped(sku, item, zoho) == [sku |-> sku, item |-> item, zoho_sku |-> zoho]
MapFiles ==
  {<<Mapped(s1, a1, z1)>>, <<Mapped(s2, a2, z1), Mapped(s1, a1, z2)>>,
   <<Mapped(s1, a1, z2), Mapped(s2, a2, z1)>>}

-----------------------------------------------------------------------------
(* A device received with the SKU of its grade, or with another's.           *)

ModelSkus  == (kA :> "A") @@ (kUG :> "UG")
Deliveries == {[sku |-> kA, grade |-> "A"], [sku |-> kUG, grade |-> "A"]}

(* The mail about the return, over a week and a day.                         *)
Directions == ret :> "import"

-----------------------------------------------------------------------------
(* Samples.                                                                  *)

\* Shipments whose entry, adjustment and provenance vary.
FormSamples ==
  { [kind |-> "form",
     of   |-> [Return EXCEPT !.value_adjustment_gbp = a, !.entry_vat_base_gbp = v, !.derived = d,
                             !.duty_rate_pct = p, !.duty_override_claimed = o]]
    : a \in {Unset, 2500}, v \in {Unset, 1200, 4000}, d \in SUBSET Rules!Inputs, p \in {0, 200},
      o \in BOOLEAN }

\* What is read on a page of an entry: codes, amounts and other text.
Tokens == {[kind |-> "code", code |-> "A00"], [kind |-> "code", code |-> "B00"],
           [kind |-> "amount", amount |-> 5, unit |-> "GBP"],
           [kind |-> "amount", amount |-> 2, unit |-> "rate"], [kind |-> "text"]}
EntrySamples == [kind : {"entry"}, of : UNION { [1..n -> Tokens] : n \in 1..4 }]

\* Exports around the ends of months, looked at around the deadline.
DeadlineSamples ==
  [kind : {"deadline"}, export : {<<2023, 12, 31>>, <<2024, 1, 31>>, <<2024, 1, 29>>, <<2023, 1, 30>>},
   months : {1, 2, 12}, outstanding : {0, 1},
   today : {<<y, m, d>> : y \in {2023, 2024, 2025}, m \in {1, 2, 3}, d \in {1, 2, 28, 29, 31}}]

\* A line corrected twice, each time in some of its columns.
ModelOf(g) == [generation |-> g]
FrozenLine == [imei |-> 1, model |-> ModelOf(12), grade |-> Unset]
Partials ==
  UNION { [c -> {1, 2}] : c \in SUBSET {"imei", "grade"} }
    \cup { [model |-> ModelOf(g)] : g \in {Unset, 12, 13} }
CorrectionSamples == [kind : {"correction"}, first : Partials, second : Partials, value : {100, 120, 121, Unset}]

PriceSamples == [kind : {"shares"}, price : [1..3 -> 0..4], total : 0..7]

FileRows ==
  { InvoiceRow(sku, price, qty, imei) : sku \in {FALSE}, price \in {Blank, Unusable, 100}, qty \in {Blank, 1},
                                        imei \in {Blank, Unusable, i1, i2} }
FileSamples == [kind : {"file"}, mode : {"per_line", "per_imei"}, rows : UNION { [1..n -> FileRows] : n \in 1..2 }
                  \cup { <<InvoiceRow(TRUE, 100, 2, i1)>> \o pair : pair \in [1..2 -> FileRows] }]

\* Lines of a manifest, some in another currency (2), against the bill it is linked to, in
\* dollars or in pounds (1).
ManifestSamples ==
  [kind : {"manifest"}, rate : {GBP, 125}, declared : {99, 124, 150, 187, 200, 250},
   lines : UNION { [1..n -> [cost : {Blank, 62, 125}, currency : {Blank, 1, 2}]] : n \in 0..2 }]

Samples ==
  FormSamples \cup EntrySamples \cup DeadlineSamples \cup CorrectionSamples \cup PriceSamples
    \cup FileSamples \cup ManifestSamples

-----------------------------------------------------------------------------

NoSample == [kind |-> "none"]

Desks == {"customs", "bills", "sales", "repairs", "skus", "labels", "mail", "checklist"}

MCInit ==
  /\ Init /\ Customs!Init /\ Sale!Init /\ Repair!Init /\ Sku!Init /\ Label!Init /\ Mail!Init
  /\ \/ desk \in Desks /\ sample = NoSample
     \/ desk = "rules" /\ sample \in Samples
  /\ desk # "repairs" => ready = [d \in RepairDevices |-> {}]

Customs_ == desk = "customs" /\ Customs!Next /\ UNCHANGED <<vars, saleVars, repairVars, skuVars, labelVars, mailVars>>
Bills_   == desk = "bills" /\ Next /\ UNCHANGED <<fileVars, saleVars, repairVars, skuVars, labelVars, mailVars>>
Sales_   == desk = "sales" /\ Sale!Next /\ UNCHANGED <<vars, fileVars, repairVars, skuVars, labelVars, mailVars>>
Repairs_ == desk = "repairs" /\ Repair!Next /\ UNCHANGED <<vars, fileVars, saleVars, skuVars, labelVars, mailVars>>
Skus_    == desk = "skus" /\ Sku!Next /\ UNCHANGED <<vars, fileVars, saleVars, repairVars, labelVars, mailVars>>
Labels_  == desk = "labels" /\ Label!Next /\ UNCHANGED <<vars, fileVars, saleVars, repairVars, skuVars, mailVars>>
Mail_    == /\ \/ desk = "mail" /\ Mail!MailNext
               \/ desk = "checklist" /\ Mail!ChecklistNext
            /\ UNCHANGED <<vars, fileVars, saleVars, repairVars, skuVars, labelVars>>

MCNext ==
  /\ Customs_ \/ Bills_ \/ Sales_ \/ Repairs_ \/ Skus_ \/ Labels_ \/ Mail_
  /\ UNCHANGED <<desk, sample>>

MCSpec ==
  MCInit /\ [][MCNext]_<<vars, fileVars, saleVars, repairVars, skuVars, labelVars, mailVars, desk, sample>>

-----------------------------------------------------------------------------

\* The type invariant of the desk at work.
TypesOK ==
  CASE desk = "customs" -> Customs!TypeOK
    [] desk = "bills"   -> TypeOK
    [] desk = "sales"   -> Sale!TypeOK
    [] desk = "repairs" -> Repair!TypeOK
    [] desk = "skus"    -> Sku!TypeOK
    [] desk = "labels"  -> Label!TypeOK
    [] desk \in {"mail", "checklist"} -> Mail!TypeOK
    [] OTHER            -> TRUE

\* The discharge tracker calls an export overdue on the days on which the check of a
\* return that ships that day calls it late: two computations of one deadline, at the
\* ends of months of different lengths too.
DeadlinesAgree ==
  LET tracked == Rules!computeDischargeRow([ship_date |-> sample.export], sample.months, 1,
                                           1 - sample.outstanding, sample.today, 100,
                                           100 * (1 - sample.outstanding))
      checked == Rules!IMP_DISCHARGE_WINDOW(
                   [Return EXCEPT !.ship_date = sample.today], [ship_date |-> sample.export],
                   [Authority EXCEPT !.discharge_period_months = sample.months], sample.today)
  IN  sample.outstanding > 0 => (tracked.status = "overdue") = (checked = "amber")

\* What a correction does not mention keeps what an earlier one said of it, and the
\* review looks at what the line has become, against what it was when it was frozen.
CorrectionsAccumulate ==
  LET once   == Rules!mergeCorrectionSnapshot(FrozenLine, Unset, sample.first)
      twice  == Rules!mergeCorrectionSnapshot(FrozenLine, once, sample.second)
      review == Rules!computeReturnLineReview(FrozenLine, twice, 100, sample.value)
      said(c, v) == \/ c \in DOMAIN sample.second /\ sample.second[c] = v
                    \/ c \notin DOMAIN sample.second /\ c \in DOMAIN sample.first /\ sample.first[c] = v
  IN  /\ "imei_change" \in review <=> said("imei", 2)
      /\ {"generation_unparseable", "generation_boundary"} \cap review # {}
           <=> said("model", ModelOf(Unset)) \/ said("model", ModelOf(13))

\* Returns are judged alike by whatever looks at them: DeadlinesAgree, and
\* CorrectionsAccumulate.
ReturnRulesAgree ==
  /\ IsSample("deadline") => DeadlinesAgree
  /\ IsSample("correction") => CorrectionsAccumulate

\* Each share is within a penny of its value and the dearer device never has the
\* lesser one; a charge is held as long as a device has no price.
SharesAddUp ==
  LET freight == Shared!apportionFreightByValue(1..3, sample.price, sample.total)
      customs == Shared!apportionCustomsByValue(1..4, sample.price, sample.total)
  IN  /\ freight.ok => Shared!Fair(sample.price, sample.total, freight.shares)
      /\ freight.ok <=> Shared!Total(sample.price) > 0
      /\ ~customs.ok

\* A manifest of which no priced line states another currency than the bill's balances
\* exactly when it has a price for each unit of the bill and their sum, converted once,
\* is what the bill declares.  Nothing is claimed of a manifest in two currencies: its
\* other lines are skipped, or taken for pounds (see Convertible), where the comment of
\* the code has them converted.
ManifestAddsUp ==
  LET bought == [rate |-> sample.rate, currency |-> 1, declared |-> sample.declared, units |-> 2]
      verdict == reconcileManifestAgainstBill(sample.lines, bought).verdict
      priced  == SelectSeq(sample.lines, LAMBDA quoted : quoted.cost # Blank)
  IN  (\A i \in DOMAIN priced : priced[i].currency # 2) =>
        (verdict = "balanced" <=>
           /\ Len(priced) = 2
           /\ ToGbp(sample.rate, priced[1].cost + priced[2].cost) = sample.declared)

\* Money is neither lost nor made: the shares of a charge add up to it to the penny
\* (SharesAddUp), every row of the file of a bill is on one line or reported invalid and
\* no serial is on two (RowsAccountedFor), and ManifestAddsUp.
AmountsAddUp ==
  /\ IsSample("shares") => SharesAddUp
  /\ IsSample("file") =>
       RowsAccountedFor([InvoiceHeader(500) EXCEPT !.mode = sample.mode], sample.rows)
  /\ IsSample("manifest") => ManifestAddsUp
==============================================================================
