----------------------------- MODULE BillBuilder -----------------------------
(***************************************************************************)
(* lib/billBuilder.ts: the lines, serials and totals of a supplier's bill  *)
(* built from its header and the rows of its file, and the check that lets *)
(* a bill close; lib/manifestBillReconciliation.ts: a manifest against the *)
(* bill it is linked to.  Amounts are whole pence; a rate is foreign pence *)
(* per pound.                                                              *)
(*                                                                         *)
(* A row is a record [sku, price, qty, imei]: whether it has a SKU or a    *)
(* description, its price, declared quantity and serial.                   *)
(***************************************************************************)
EXTENDS Integers, FiniteSets, Sequences, FiniteSetsExt

CONSTANTS
  Blank,       \* an empty cell
  Unusable,    \* a price or a serial that does not parse
  GBP          \* no rate: the bill is in pounds

round2(num, den) == (2 * num + den) \div (2 * den)

\* An amount in the currency of a bill, in pence of a pound.
ToGbp(rate, amount) == IF rate = GBP THEN amount ELSE round2(100 * amount, rate)

-----------------------------------------------------------------------------
(* Grouping: a row with key columns leads a group, and the rows without    *)
(* them that follow carry further serials of its line.                     *)

HasKeyCols(row) == row.sku \/ row.price # Blank

Leads(rows) == { i \in DOMAIN rows : HasKeyCols(rows[i]) }

\* The row that leads the group of row j, 0 when there is none.
LeadOf(rows, j) == Max({ i \in Leads(rows) : i <= j } \cup {0})

\* Mutant: a continuation row with no group to attach to is skipped.
RowProblems_SkipOrphans(rows) ==
  { j \in DOMAIN rows : ~HasKeyCols(rows[j]) /\ rows[j].imei = Blank }

\* Rows that are neither a lead nor a continuation of one.
RowProblems(rows) ==
  { j \in DOMAIN rows : ~HasKeyCols(rows[j]) /\ (rows[j].imei = Blank \/ LeadOf(rows, j) = 0) }

Priced(row) == row.price \notin {Blank, Unusable}

\* The serials looked at: those of groups whose lead has a price.
Serials(rows) ==
  { j \in DOMAIN rows : rows[j].imei # Blank /\ LeadOf(rows, j) # 0
                        /\ Priced(rows[LeadOf(rows, j)]) }

Readable(rows) == { j \in Serials(rows) : rows[j].imei # Unusable }

Repeated(rows) ==
  { j \in Readable(rows) : \E k \in Readable(rows) : k < j /\ rows[k].imei = rows[j].imei }

SerialsOf(rows, i) == { j \in Readable(rows) \ Repeated(rows) : LeadOf(rows, j) = i }

QuantityFits(mode, rows, i) ==
  mode = "per_line" /\ rows[i].qty # Blank => rows[i].qty = Cardinality(SerialsOf(rows, i))

\* The leads that become lines.
Built(mode, rows) ==
  { i \in Leads(rows) :
      Priced(rows[i]) /\ SerialsOf(rows, i) # {} /\ QuantityFits(mode, rows, i) }

InvalidRows(mode, rows) ==
  RowProblems(rows) \cup (Serials(rows) \ Readable(rows)) \cup (Leads(rows) \ Built(mode, rows))

-----------------------------------------------------------------------------

Refused == [ok |-> FALSE, lines |-> {}, gbp_total |-> 0, declared |-> 0, invalid |-> {}]

HeaderLine(header) ==
  [no |-> 1, price |-> ToGbp(header.rate, header.declared), quantity |-> header.units, imeis |-> {}]

LineOf(header, rows, i) ==
  [no       |-> i,
   price    |-> ToGbp(header.rate, rows[i].price),
   quantity |-> Cardinality(SerialsOf(rows, i)),
   imeis    |-> { rows[j].imei : j \in SerialsOf(rows, i) }]

\* The sum of the lines' unit prices, whatever their quantities.
SumOfLines(lines) == MapThenSumSet(LAMBDA l : l.price, lines)

Bill(header, lines, invalid) ==
  [ok        |-> TRUE,
   lines     |-> lines,
   gbp_total |-> SumOfLines(lines),
   declared  |-> ToGbp(header.rate, header.declared),
   invalid   |-> invalid]

\* A serial twice in one file refuses the file; a bad row does not.
buildBill(header, rows) ==
  IF header.declared < 0 \/ (header.rate # GBP /\ header.rate <= 0) THEN Refused
  ELSE IF header.mode = "header" THEN Bill(header, {HeaderLine(header)}, {})
  ELSE IF Repeated(rows) # {} \/ Built(header.mode, rows) = {} THEN Refused
  ELSE Bill(header,
            { LineOf(header, rows, i) : i \in Built(header.mode, rows) },
            InvalidRows(header.mode, rows))

checkBillCloseable(gbpTotal, declaredGbp) == gbpTotal = declaredGbp

-----------------------------------------------------------------------------
(* A manifest is a sequence of [cost, currency] lines.                     *)

\* Mutant: only a line that states the bill's currency is converted.
Convertible_Stated(line, bill) ==
  bill.rate = GBP \/ line.currency = bill.currency

\* Lines quoted in the bill's currency, or in none, are converted; the others are left out
\* of the sum, but not of the count.  A bill in pounds takes every amount for pounds,
\* whatever its line states.
Convertible(line, bill) ==
  bill.rate = GBP \/ line.currency \in {Blank, bill.currency}

reconcileManifestAgainstBill(lines, bill) ==
  LET priced   == { i \in DOMAIN lines : lines[i].cost # Blank }
      summed   == { i \in priced : Convertible(lines[i], bill) }
      total    == ToGbp(bill.rate, MapThenSumSet(LAMBDA i : lines[i].cost, summed))
      variance == total - bill.declared
  IN  IF priced = {} THEN [verdict |-> "awaiting_manifest", variance |-> 0]
      ELSE IF variance = 0 /\ Cardinality(priced) = bill.units
        THEN [verdict |-> "balanced", variance |-> 0]
        ELSE [verdict |-> "variance", variance |-> variance]

-----------------------------------------------------------------------------

\* What a file that is accepted promises: every row is on exactly one line, or
\* it or the row that leads its group is reported invalid; no serial is on two
\* lines.
RowsAccountedFor(header, rows) ==
  LET bill == buildBill(header, rows) IN
  bill.ok /\ header.mode # "header" =>
    /\ \A j \in DOMAIN rows :
         \/ {j, LeadOf(rows, j)} \cap bill.invalid # {}
         \/ \E l \in bill.lines :
              /\ l.no = LeadOf(rows, j)
              /\ rows[j].imei # Blank => rows[j].imei \in l.imeis
    /\ \A l, m \in bill.lines : l.imeis \cap m.imeis # {} => l = m
=============================================================================
