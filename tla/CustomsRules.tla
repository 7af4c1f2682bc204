----------------------------- MODULE CustomsRules -----------------------------
(***************************************************************************)
(* The customs engines of Outward Processing Relief, which read rows and   *)
(* write none: lib/opr.ts (procedure codes), lib/oprValidation.ts (export  *)
(* checks), lib/oprImport.ts (misdeclaration, the C&E1154, import checks,  *)
(* discharge, box 47) and lib/returnCorrections.ts.                        *)
(*                                                                         *)
(* Amounts are whole pence, a rate is foreign pence per pound, a duty rate *)
(* is in hundredths of a percent, a date is <<year, month, day>>.  A       *)
(* shipment is a record of the columns of `shipments`; Unset is NULL.      *)
(***************************************************************************)
EXTENDS Integers, Sequences, FiniteSets, FiniteSetsExt

CONSTANTS
  Unset,
  DefaultAdjustment   \* DEFAULT_VALUE_ADJUSTMENT_GBP, in pence

\* Rounded to the penny, halves up.
Rounded(num, den) == (2 * num + den) \div (2 * den)

NonNull(x, default) == IF x = Unset THEN default ELSE x

\* The order of ISO dates.
Before(a, b) ==
  \/ a[1] < b[1]
  \/ a[1] = b[1] /\ a[2] < b[2]
  \/ a[1] = b[1] /\ a[2] = b[2] /\ a[3] < b[3]

-----------------------------------------------------------------------------
(* Procedure codes.  A raw code is a record [code, glued]: '2100 000' is   *)
(* 2100 with 000 glued on.                                                 *)

EXPORT_PROCEDURE_CODES     == {"2100", "2200"}
IMPORT_PROCEDURE_CODES     == {"6121"}
ADDITIONAL_PROCEDURE_CODES == {"B51", "B02", "000"}

\* A glued code counts only where no separate one is given.
normaliseAdditional(raw, additional) == IF additional # Unset THEN additional ELSE raw.glued

Allowed(direction) ==
  IF direction = "export" THEN EXPORT_PROCEDURE_CODES ELSE IMPORT_PROCEDURE_CODES

validateProcedureCodes(direction, raw, rawAdditional) ==
  LET additional == normaliseAdditional(raw, rawAdditional) IN
  [ok |-> /\ raw.code \in Allowed(direction)
          /\ additional # Unset =>
               /\ additional \in ADDITIONAL_PROCEDURE_CODES
               /\ ~(raw.code = "2100" /\ additional = "B51")
               /\ direction # "import",
   procedure_code            |-> raw.code,
   additional_procedure_code |-> additional]

\* What a shipment stores of its codes, checked again.
StoredCodesOk(s) ==
  s.procedure_code # Unset
  /\ validateProcedureCodes(s.direction, [code |-> s.procedure_code, glued |-> Unset],
                            s.additional_procedure_code).ok

-----------------------------------------------------------------------------
(* A check gives a level, or "none" where the engine is silent.            *)

Level(red, amber) == IF red THEN "red" ELSE IF amber THEN "amber" ELSE "green"

Worst(checks) ==
  LET levels == { checks[c] : c \in DOMAIN checks } IN
  Level("red" \in levels, "amber" \in levels)

Standard(s) == s.shipment_type = "TEMP_EXPORT_STANDARD"

\* Not applicable to shipments that customs never see.
Customs(s, level) == IF Standard(s) THEN "green" ELSE level

sumLineValues(lines) == MapThenSumSet(LAMBDA l : l.unit_value, lines)

OutsideWindow(auth, date) == Before(date, auth.valid_from) \/ Before(auth.valid_to, date)

AuthValid(s, auth, today) ==
  Level(OutsideWindow(auth, NonNull(s.ship_date, today)), s.ship_date = Unset)

-----------------------------------------------------------------------------
(* Export checks.                                                          *)

\* The policy is looked up, and tested, by the shipment's own date.
PolicyDate(s) == NonNull(s.ship_date, s.created_at)

loadExportProcedurePolicy(policies, s) ==
  LET past == { p \in policies : ~Before(PolicyDate(s), p.effective_from) } IN
  IF past = {} THEN Unset
  ELSE CHOOSE p \in past : \A q \in past : ~Before(p.effective_from, q.effective_from)

PolicyApplies(s, policy) ==
  /\ ~Standard(s)
  /\ s.status # "FINALISED"
  /\ policy # Unset
  /\ ~Before(PolicyDate(s), policy.effective_from)

EXP_PROCEDURE_CODE(s, policy) ==
  Level(PolicyApplies(s, policy)
          /\ <<s.procedure_code, s.additional_procedure_code>>
               # <<policy.procedure_code, policy.additional_procedure_code>>,
        FALSE)

EXP_SUPERVISING_OFFICE(s, auth, policy) ==
  Level(PolicyApplies(s, policy)
          /\ (auth = Unset \/ auth.supervising_office_code # policy.supervising_office_code),
        FALSE)

IMEIS_VALID_UNIQUE(lines) ==
  IF lines = {} THEN "none"
  ELSE Level(\E l \in lines : ~l.imei_ok \/ \E k \in lines \ {l} : k.imei = l.imei, FALSE)

UNIT_VALUES_PRESENT(lines) ==
  IF lines = {} THEN "none"
  ELSE Level(\E l \in lines : l.unit_value = Unset \/ l.unit_value <= 0, FALSE)

\* Texts are "ok", "long", "bad" or Unset.
DECLARATION_TEXT(s) ==
  Level(s.reference \in {Unset, "bad"} \/ s.consignee_name = "bad",
        s.reference = "long" \/ s.consignee_name = Unset)

LOGISTICS_COMPLETE(s) ==
  Level(FALSE, \E f \in {s.consignee_address, s.carrier, s.incoterm} : f = Unset)

runExportValidation(s, auth, lines, today, policy) ==
  [SHIP_HAS_LINES          |-> Level(lines = {}, FALSE),
   CURRENCY_GBP            |-> Level(s.currency # "GBP" \/ \E l \in lines : l.currency # "GBP", FALSE),
   AUTH_VALID_ON_SHIP_DATE |-> Customs(s, IF auth = Unset THEN "red" ELSE AuthValid(s, auth, today)),
   PROCEDURE_CODE          |-> Customs(s, Level(~StoredCodesOk(s), FALSE)),
   EXP_PROCEDURE_CODE      |-> EXP_PROCEDURE_CODE(s, policy),
   EXP_SUPERVISING_OFFICE  |-> EXP_SUPERVISING_OFFICE(s, auth, policy),
   COMMODITY_SCOPE         |-> Customs(s, Level(auth = Unset, auth # Unset /\ auth.commodity_codes = Unset)),
   IMEIS_VALID_UNIQUE      |-> IMEIS_VALID_UNIQUE(lines),
   DECLARATION_TEXT        |-> DECLARATION_TEXT(s),
   UNIT_VALUES_PRESENT     |-> UNIT_VALUES_PRESENT(lines),
   LOGISTICS_COMPLETE      |-> LOGISTICS_COMPLETE(s)]

-----------------------------------------------------------------------------
(* Declared figures against computed ones.  siblings are the other legs of *)
(* the same export; acks gives the latest acknowledgement of each type, or *)
(* Unset.                                                                  *)

VarianceTypes == {"value", "piece_count", "gross_weight"}

\* What is compared when a figure is acknowledged, frozen into the row.
Figures(s, lines, type) ==
  CASE type = "value"        -> <<s.declared_invoice_total_gbp, sumLineValues(lines)>>
    [] type = "piece_count"  -> <<s.declared_piece_count, Unset>>
    [] type = "gross_weight" -> <<s.declared_gross_weight_kg, Unset>>

\* A packaging figure that a leg of another size declares as well.
CarriedForward(declared, quantity, siblings, type) ==
  declared # Unset /\ \E g \in siblings : g[type] = declared /\ g.quantity # quantity

Misdeclared(s, lines, siblings, type) ==
  LET declared == Figures(s, lines, type)[1] IN
  IF type = "value"
    THEN declared # Unset /\ declared # sumLineValues(lines)
    ELSE CarriedForward(declared, Cardinality(lines), siblings, type)

\* Mutant: an acknowledgement never lapses.
Acknowledged_Forever(s, lines, acks, type) == acks[type] # Unset

\* An acknowledgement lapses when the figures it froze have moved.
Acknowledged(s, lines, acks, type) == acks[type] = Figures(s, lines, type)

checkMisdeclaration(s, lines, siblings, acks) ==
  LET wrong == { t \in VarianceTypes : Misdeclared(s, lines, siblings, t) } IN
  [misdeclared        |-> wrong,
   fully_acknowledged |-> \A t \in wrong : Acknowledged(s, lines, acks, t)]

-----------------------------------------------------------------------------
(* The C&E1154.                                                            *)

Refusal(error) == [ok |-> FALSE, error |-> error]

\* The columns written by the second statement of POST /shipments.
Worksheet ==
  {"repair_cost", "repair_cost_currency", "customs_exchange_rate", "customs_exchange_rate_month",
   "duty_rate_pct", "inbound_freight_gbp", "non_eu_freight_share_gbp", "export_freight_gbp",
   "insurance_gbp", "value_adjustment_gbp", "entry_duty_base_gbp", "entry_vat_base_gbp",
   "entry_duty_gbp", "entry_vat_gbp", "declared_invoice_total_gbp", "declared_piece_count",
   "declared_gross_weight_kg", "supplementary_units", "duty_override_claimed"}

WorksheetInputs(s) ==
  {s.repair_cost, s.inbound_freight_gbp, s.non_eu_freight_share_gbp, s.export_freight_gbp,
   s.duty_rate_pct}

hasWorksheetInputs(s) == Unset \notin WorksheetInputs(s)

EntryFigures(s) ==
  {s.entry_duty_base_gbp, s.entry_vat_base_gbp, s.entry_duty_gbp, s.entry_vat_gbp}

Foreign(s) == NonNull(s.repair_cost_currency, "GBP") # "GBP"

\* A foreign charge needs its rate and the month of the rate; a charge in
\* pounds may have no month.
RateMissing(s)  == Foreign(s) /\ (s.customs_exchange_rate = Unset \/ s.customs_exchange_rate <= 0)
MonthMissing(s) == Foreign(s) /\ s.customs_exchange_rate_month = Unset
MonthStray(s)   == ~Foreign(s) /\ s.customs_exchange_rate_month # Unset

DutyOutOfRange(s) == s.duty_rate_pct < 0 \/ s.duty_rate_pct > 10000

ProcessChargeGbp(s) ==
  IF Foreign(s) THEN Rounded(100 * s.repair_cost, s.customs_exchange_rate) ELSE s.repair_cost

DutyBase(s) == ProcessChargeGbp(s) + s.non_eu_freight_share_gbp + NonNull(s.insurance_gbp, 0)

Duty(s) == Rounded(DutyBase(s) * s.duty_rate_pct, 10000)

\* derived is the set of inputs that no document supplies, of the three that the
\* VAT base adds to the adjustment.
Supplied(s, input, amount) == IF input \in s.derived THEN 0 ELSE amount

Inputs == {"process_charge", "inbound_freight_gbp", "export_freight_gbp"}

\* What is left of the entry's VAT base when the terms known are taken out.
Residual(s) ==
  s.entry_vat_base_gbp - Supplied(s, "process_charge", ProcessChargeGbp(s))
    - Supplied(s, "inbound_freight_gbp", s.inbound_freight_gbp)
    - Supplied(s, "export_freight_gbp", s.export_freight_gbp) - Duty(s)

\* Mutant: the adjustment is solved from inputs that assume it.
ValueAdjustment_Circular(s) ==
  IF s.value_adjustment_gbp # Unset
    THEN [amount |-> s.value_adjustment_gbp, provenance |-> "broker-supplied", variance |-> Unset]
  ELSE IF s.entry_vat_base_gbp = Unset
    THEN [amount |-> DefaultAdjustment, provenance |-> "default-unverified", variance |-> Unset]
  ELSE [amount |-> Residual([s EXCEPT !.derived = {}]), provenance |-> "solved", variance |-> Unset]

ValueAdjustment(s) ==
  IF s.value_adjustment_gbp # Unset
    THEN [amount |-> s.value_adjustment_gbp, provenance |-> "broker-supplied", variance |-> Unset]
  ELSE IF s.entry_vat_base_gbp = Unset
    THEN [amount |-> DefaultAdjustment, provenance |-> "default-unverified", variance |-> Unset]
  ELSE IF s.derived \cap Inputs = {}
    THEN [amount |-> Residual(s), provenance |-> "solved", variance |-> Unset]
  ELSE [amount |-> DefaultAdjustment, provenance |-> "default-unverified", variance |-> Residual(s)]

VatBase(s) ==
  ProcessChargeGbp(s) + s.inbound_freight_gbp + s.export_freight_gbp + Duty(s)
    + ValueAdjustment(s).amount

\* The form from the worksheet of the carrier.
Computed(s, lines, misdeclaration) ==
  [ok |-> TRUE, error |-> "none", source |-> "computed",
   compensatory |-> sumLineValues(lines) + ProcessChargeGbp(s) + s.inbound_freight_gbp
                      + NonNull(s.insurance_gbp, 0),
   duty_base |-> DutyBase(s), duty |-> Duty(s),
   vat_base |-> VatBase(s), pva |-> Rounded(VatBase(s), 5),
   adjustment |-> ValueAdjustment(s), misdeclaration |-> misdeclaration]

\* The form from the entry's own figures, the worksheet pending.
EntryPending(s, misdeclaration) ==
  [ok |-> TRUE, error |-> "none", source |-> "entry_pending",
   compensatory |-> Unset,
   duty_base |-> s.entry_duty_base_gbp, duty |-> s.entry_duty_gbp,
   vat_base |-> s.entry_vat_base_gbp, pva |-> s.entry_vat_gbp,
   adjustment |-> [amount |-> Unset, provenance |-> Unset, variance |-> Unset],
   misdeclaration |-> misdeclaration]

\* A duty of zero is reported only when the override is on record.
DutyDeclared(s, form) ==
  IF form.duty = 0 /\ ~s.duty_override_claimed THEN Refusal("duty_override_claimed") ELSE form

computeCe1154(s, export, auth, lines, declaredQuantity, siblings, acks) ==
  LET m == checkMisdeclaration(s, lines, siblings, acks) IN
  IF s.direction # "import" THEN Refusal("not an import")
  ELSE IF lines = {} THEN Refusal("no lines")
  ELSE IF declaredQuantity \notin {Unset, Cardinality(lines)} THEN Refusal("declared quantity")
  ELSE IF auth = Unset \/ auth.op_authorisation_number = Unset THEN Refusal("authorisation")
  ELSE IF export = Unset \/ export.export_mrn = Unset THEN Refusal("export MRN")
  ELSE IF hasWorksheetInputs(s) THEN
    IF s.repair_cost <= 0 THEN Refusal("repair cost")
    ELSE IF RateMissing(s) \/ MonthMissing(s) \/ MonthStray(s) THEN Refusal("exchange rate")
    ELSE IF DutyOutOfRange(s) THEN Refusal("duty rate")
    ELSE DutyDeclared(s, Computed(s, lines, m))
  ELSE IF Unset \in EntryFigures(s) THEN Refusal("nothing to compute from")
  ELSE DutyDeclared(s, EntryPending(s, m))

\* The mark on the adjustment's line in buildCe1154Html().
AdjustmentMarker(form) ==
  CASE form.adjustment.provenance = "default-unverified" -> "UNVERIFIED"
    [] form.adjustment.provenance = "solved"             -> "SOLVED"
    [] OTHER                                             -> "none"

-----------------------------------------------------------------------------

\* What a C&E1154 promises: an adjustment that is neither a document's nor
\* corroborated by the entry carries a mark; one that is solved makes the VAT base
\* the entry's own; the gap reported where it may not be solved is what the terms
\* known and the duty leave of the entry's base; no zero duty is implied.
Honest(s, form) ==
  form.ok =>
    /\ form.duty = 0 => s.duty_override_claimed
    /\ form.source = "computed" =>
         /\ AdjustmentMarker(form) = "none" => form.adjustment.amount = s.value_adjustment_gbp
         /\ AdjustmentMarker(form) = "SOLVED" =>
              s.derived \cap Inputs = {} /\ form.vat_base = s.entry_vat_base_gbp
         /\ form.adjustment.variance # Unset =>
              form.adjustment.variance =
                s.entry_vat_base_gbp - (form.vat_base - form.adjustment.amount)
                  + (IF "process_charge" \in s.derived THEN ProcessChargeGbp(s) ELSE 0)
                  + (IF "inbound_freight_gbp" \in s.derived THEN s.inbound_freight_gbp ELSE 0)
                  + (IF "export_freight_gbp" \in s.derived THEN s.export_freight_gbp ELSE 0)
=============================================================================
