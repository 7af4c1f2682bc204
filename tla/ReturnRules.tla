------------------------------ MODULE ReturnRules ------------------------------
(***************************************************************************)
(* The rules of a return: the import checks, the discharge tracker and the *)
(* value deltas of lib/oprImport.ts, its parser of box 47 of a customs     *)
(* entry, and the review of a corrected line of lib/returnCorrections.ts.  *)
(***************************************************************************)
EXTENDS CustomsRules

Leap(y) == (y % 4 = 0 /\ y % 100 # 0) \/ y % 400 = 0

LastDay(y, m) ==
  CASE m = 2              -> IF Leap(y) THEN 29 ELSE 28
    [] m \in {4, 6, 9, 11} -> 30
    [] OTHER              -> 31

\* Mutant: the day is kept whatever the length of the month.
addMonths_Unclamped(date, months) ==
  LET index == date[2] - 1 + months IN <<date[1] + index \div 12, (index % 12) + 1, date[3]>>

\* The same day of a later month, or the last one it has.
addMonths(date, months) ==
  LET index == date[2] - 1 + months
      y     == date[1] + index \div 12
      m     == (index % 12) + 1
  IN  <<y, m, Min({date[3], LastDay(y, m)})>>

DayNumber(date) ==
  LET y == date[1] - 1 IN
  365 * y + y \div 4 - y \div 100 + y \div 400
    + MapThenSumSet(LAMBDA m : LastDay(date[1], m), 1..(date[2] - 1)) + date[3]

ExportDate(export) == NonNull(export.ship_date, export.finalised_at)

-----------------------------------------------------------------------------
(* The discharge tracker: deadline = export date + the period of the       *)
(* authorisation.                                                          *)

ClosingWindow == 30

DischargeStatus(exportDate, deadline, outstanding, today) ==
  LET remaining == DayNumber(deadline) - DayNumber(today) IN
  IF exportDate = Unset THEN "no_export_date"
  ELSE IF outstanding <= 0 THEN "discharged"
  ELSE IF remaining < 0 THEN "overdue"
  ELSE IF remaining <= ClosingWindow THEN "closing"
  ELSE "open"

computeDischargeRow(export, months, exported, returned, today, exportedValue, returnedValue) ==
  LET date     == ExportDate(export)
      deadline == IF date = Unset THEN today ELSE addMonths(date, months)
  IN  [outstanding       |-> exported - returned,
       status            |-> DischargeStatus(date, deadline, exported - returned, today),
       outstanding_value |-> exportedValue - returnedValue,
       value_balanced    |-> exportedValue <= returnedValue]

\* The legs' values, each rounded already.
isValueBalanced(exportedValue, legs) ==
  exportedValue <= MapThenSumSet(LAMBDA i : legs[i], DOMAIN legs)

computeValueDelta(old, new) ==
  IF new < 0 THEN Refusal("negative")
  ELSE [ok |-> TRUE, old |-> old, new |-> new, difference |-> new - old]

-----------------------------------------------------------------------------
(* Import checks.                                                          *)

IMP_RELATED_EXPORT(export) == Level(export = Unset \/ export.status # "FINALISED", FALSE)

IMP_EXPORT_MRN(s, export) ==
  IF IMP_RELATED_EXPORT(export) = "red" THEN "none"
  ELSE Customs(s, Level(export.export_mrn = Unset, FALSE))

IMP_REPAIR_COST(s) ==
  Level(s.repair_cost = Unset \/ s.repair_cost <= 0
          \/ RateMissing(s) \/ MonthMissing(s) \/ MonthStray(s), FALSE)

IMP_DUTY_RATE(s) == Level(s.duty_rate_pct = Unset \/ DutyOutOfRange(s), FALSE)

IMP_AUTH_VALID(s, auth, today) ==
  IF Standard(s) \/ auth = Unset THEN "none" ELSE AuthValid(s, auth, today)

IMP_DISCHARGE_WINDOW(s, export, auth, today) ==
  IF Standard(s) \/ export = Unset \/ auth = Unset \/ ExportDate(export) = Unset THEN "none"
  ELSE Level(FALSE, Before(addMonths(ExportDate(export), auth.discharge_period_months),
                           NonNull(s.ship_date, today)))

\* Amber, "cannot check yet", when the form is refused for any other reason.
IMP_DUTY_OVERRIDE(s, lines, form) ==
  Customs(s, Level(lines # {} /\ ~form.ok /\ form.error = "duty_override_claimed", ~form.ok))

IMP_MISDECLARATION_CHECK(s, lines, form) ==
  Customs(s,
    IF lines = {} \/ ~form.ok THEN "amber"
    ELSE Level(~form.misdeclaration.fully_acknowledged, form.misdeclaration.misdeclared # {}))

\* Only an unreviewed change of IMEI blocks; corrections is the latest of each line.
IMP_RETURN_LINE_REVIEW(s, corrections) ==
  LET flagged == { c \in corrections : c.requires_review }
      imei(c) == "imei_change" \in c.review_reasons
  IN  Customs(s, Level(\E c \in flagged : imei(c) /\ ~c.reviewed, \E c \in flagged : ~imei(c)))

\* balance is Unset but where a return is received.
IMP_RETURN_BALANCE(s, balance) ==
  IF Standard(s) \/ balance = Unset THEN "green"
  ELSE Level(\/ balance.returned > balance.exported
             \/ balance.returned < balance.exported /\ ~balance.declared,
             balance.returned < balance.exported)

runImportValidation(s, export, auth, lines, today, siblings, acks, corrections, balance) ==
  LET form == computeCe1154(s, export, auth, lines, Unset, siblings, acks) IN
  [IMP_HAS_LINES            |-> Level(lines = {}, FALSE),
   IMP_PROCEDURE_6121       |-> Customs(s, Level(s.procedure_code # "6121", FALSE)),
   IMP_CURRENCY_GBP         |-> Level(s.currency # "GBP", FALSE),
   IMP_RELATED_EXPORT       |-> IMP_RELATED_EXPORT(export),
   IMP_EXPORT_MRN           |-> IMP_EXPORT_MRN(s, export),
   IMP_REPAIR_COST          |-> Customs(s, IMP_REPAIR_COST(s)),
   IMP_DUTY_RATE            |-> Customs(s, IMP_DUTY_RATE(s)),
   IMP_OP_AUTH_NUMBER       |-> Customs(s, Level(auth = Unset \/ auth.op_authorisation_number = Unset, FALSE)),
   IMP_AUTH_VALID           |-> IMP_AUTH_VALID(s, auth, today),
   IMP_DISCHARGE_WINDOW     |-> IMP_DISCHARGE_WINDOW(s, export, auth, today),
   IMP_DUTY_OVERRIDE        |-> IMP_DUTY_OVERRIDE(s, lines, form),
   IMP_MISDECLARATION_CHECK |-> IMP_MISDECLARATION_CHECK(s, lines, form),
   IMP_RETURN_LINE_REVIEW   |-> IMP_RETURN_LINE_REVIEW(s, corrections),
   IMP_RETURN_BALANCE       |-> IMP_RETURN_BALANCE(s, balance)]

-----------------------------------------------------------------------------
(* A corrected line.  A model is a record with its generation, Unset when  *)
(* its name holds no number.                                               *)

parseModelGeneration(model) == IF model = Unset THEN Unset ELSE model.generation

compareGenerations(frozen, corrected) ==
  LET f == parseModelGeneration(frozen)
      c == parseModelGeneration(corrected)
  IN  [unparseable |-> Unset \in {f, c},
       boundary    |-> Unset \notin {f, c} /\ f # c]

\* More than a fifth apart, both sides priced from today's catalog.
compareCatalogValues(frozen, corrected) ==
  Unset \notin {frozen, corrected} /\ frozen # 0
    /\ (5 * (corrected - frozen) > frozen \/ 5 * (frozen - corrected) > frozen)

computeReturnLineReview(frozen, corrected, frozenValue, correctedValue) ==
  LET generations == compareGenerations(frozen.model, corrected.model) IN
  (IF corrected.imei # frozen.imei THEN {"imei_change"} ELSE {})
    \cup (IF generations.unparseable THEN {"generation_unparseable"} ELSE {})
    \cup (IF generations.boundary THEN {"generation_boundary"} ELSE {})
    \cup (IF compareCatalogValues(frozenValue, correctedValue) THEN {"catalog_value_diff"} ELSE {})

\* A row is a full snapshot: what a partial correction leaves out comes from the
\* row before it, or from the frozen line.
mergeCorrectionSnapshot(frozen, previous, partial) ==
  LET base == IF previous = Unset THEN [frozen EXCEPT !.grade = NonNull(@, "UG")] ELSE previous IN
  [f \in DOMAIN base |-> IF f \in DOMAIN partial THEN partial[f] ELSE base[f]]

-----------------------------------------------------------------------------
(* Box 47 of an entry: a sequence of tokens, each a tax code, an amount    *)
(* with its unit ("GBP", "rate" or "none"), or other text.                 *)

IsCode(t)   == t.kind = "code"
IsAmount(t) == t.kind = "amount"

\* The amounts that follow the code at i, at most four.
BlockOf(tokens, i) ==
  LET end == Max({ k \in i..Min({i + 4, Len(tokens)}) :
                     \A j \in (i + 1)..k : IsAmount(tokens[j]) })
  IN  SubSeq(tokens, i + 1, end)

RateAt(block) ==
  LET rates == { i \in DOMAIN block : block[i].unit = "rate" } IN
  IF rates = {} THEN 0 ELSE Min(rates)

TaxLine(tokens, i) ==
  LET block == BlockOf(tokens, i)
      n     == Len(block)
  IN  [tax_type |-> tokens[i].code,
       base     |-> IF n = 0 THEN Unset ELSE block[1].amount,
       rate     |-> IF RateAt(block) = 0 THEN Unset ELSE block[RateAt(block)].amount,
       total    |-> IF n <= 1 \/ RateAt(block) = n THEN Unset ELSE block[n].amount]

\* The first line of a tax type, Unset when the entry has none: never a zero.
FirstLine(tokens, type) ==
  LET at == { i \in DOMAIN tokens : IsCode(tokens[i]) /\ tokens[i].code = type } IN
  IF at = {} THEN Unset ELSE TaxLine(tokens, Min(at))

parseBox47(tokens) == [duty |-> FirstLine(tokens, "A00"), vat |-> FirstLine(tokens, "B00")]

\* Mutant: a tax that is not on the entry matches.
reconcileBox47_NilWhenAbsent(parsed, dutyBase, vatBase) ==
  [ok        |-> TRUE,
   duty_base |-> parsed.duty = Unset \/ parsed.duty.base = dutyBase,
   vat_base  |-> parsed.vat = Unset \/ parsed.vat.base = vatBase]

reconcileBox47(parsed, dutyBase, vatBase) ==
  IF Unset \in {parsed.duty, parsed.vat} THEN Refusal("tax type not found")
  ELSE [ok        |-> TRUE,
        duty_base |-> parsed.duty.base = dutyBase,
        vat_base  |-> parsed.vat.base = vatBase]
=============================================================================
