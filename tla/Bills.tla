-------------------------------- MODULE Bills --------------------------------
(***************************************************************************)
(* Supplier bills and the costs posted from them: routes/bills.ts over     *)
(* lib/billBuilder.ts, the two writers of cost_ledger that need no bill    *)
(* (postPurchaseCostToLedger() of lib/costEntry.ts and                     *)
(* postRepairCostToLedger() of lib/repairWorkflow.ts), and the cost of a   *)
(* device as lib/acquisitionCost.ts reads it.                              *)
(*                                                                         *)
(* One await on the database is one action; req[r] holds the locals of a   *)
(* request.  cost_ledger is append-only: a bag of its rows.                *)
(***************************************************************************)
EXTENDS BillBuilder, Bags

CONSTANTS
  Bills,       \* submissions of a bill
  Header,      \* [Bills -> header], with its type and invoice
  Rows,        \* [Bills -> Seq(row)]
  Imeis,       \* serials; a received device is named by its serial

  Requests,
  Amounts,     \* amounts that managers post by hand
  AloneOps,    \* operations the staff run one at a time
  NoBill, NoImei,
  MaxManual    \* bound: rows of the ledger when a cost is posted by hand

VARIABLES
  received,    \* received_devices, as the serials that have a row
  bill,        \* bills and bill_lines: [Bills -> status, declared total, lines]
  linked,      \* [Bills -> serials whose row names a device]
  overrides,   \* bill_close_overrides: bag of <<bill, variance>>
  ledger,      \* cost_ledger: bag of rows
  req

vars == <<received, bill, linked, overrides, ledger, req>>

built == [b \in Bills |-> buildBill(Header[b], Rows[b])]

LineIds == { <<b, i>> : b \in Bills, i \in 1..(Max({ Len(Rows[b]) : b \in Bills } \cup {1})) }
NoLine  == <<NoBill, 0>>

Entry == [dev : Imeis, type : {"purchase", "repair"}, amount : Int, line : LineIds \cup {NoLine}]

Absent  == [status |-> "none", declared |-> 0, lines |-> {}]

\* rows and done are what POST /:id/write-cost-ledger has read.
Request == [pc : {"insert", "lines", "serials", "sum", "close", "force", "rows", "already",
                  "post", "insert_cost"},
            op : {"create", "close", "force", "post", "purchase", "repair"},
            bill : Bills \cup {NoBill}, dev : Imeis \cup {NoImei}, amount : Int,
            line : LineIds \cup {NoLine}, rows : SUBSET (LineIds \X Imeis), done : SUBSET LineIds]
Rest == [pc |-> "rest"]

Busy(r)     == req[r] # Rest
Finish(r)   == req' = [req EXCEPT ![r] = Rest]
Goto(r, pc) == req' = [req EXCEPT ![r].pc = pc]

Enter(r, pc, op, b, d, amount, l) ==
  /\ ~Busy(r)
  /\ op \in AloneOps => \A q \in Requests : Busy(q) => req[q].op # op
  /\ req' = [req EXCEPT ![r] = [pc |-> pc, op |-> op, bill |-> b, dev |-> d, amount |-> amount,
                                line |-> l, rows |-> {}, done |-> {}]]

Init ==
  /\ received = {}
  /\ bill = [b \in Bills |-> Absent]
  /\ linked = [b \in Bills |-> {}]
  /\ overrides = EmptyBag
  /\ ledger = EmptyBag
  /\ req = [r \in Requests |-> Rest]

Receive(i) ==
  /\ i \notin received
  /\ received' = received \cup {i}
  /\ UNCHANGED <<bill, linked, overrides, ledger, req>>

-----------------------------------------------------------------------------
(* POST /bills: the header, then the lines in one batch, then the serials  *)
(* in another.                                                             *)

NotCreating(b) == \A q \in Requests : Busy(q) => ~(req[q].op = "create" /\ req[q].bill = b)

\* Refused when the invoice is on record already, or the file does not build.
StartCreate(r, b) ==
  /\ bill[b] = Absent /\ NotCreating(b)
  /\ built[b].ok
  /\ \A c \in Bills : Header[c].invoice = Header[b].invoice => bill[c] = Absent
  /\ Enter(r, "insert", "create", b, NoImei, 0, NoLine)
  /\ UNCHANGED <<received, bill, linked, overrides, ledger>>

InsertBill(r) ==
  /\ req[r].pc = "insert"
  /\ bill' = [bill EXCEPT ![req[r].bill] = [@ EXCEPT !.status = "draft",
                                               !.declared = built[req[r].bill].declared]]
  /\ Goto(r, "lines")
  /\ UNCHANGED <<received, linked, overrides, ledger>>

InsertLines(r) ==
  /\ req[r].pc = "lines"
  /\ bill' = [bill EXCEPT ![req[r].bill].lines = built[req[r].bill].lines]
  /\ Goto(r, "serials")
  /\ UNCHANGED <<received, linked, overrides, ledger>>

\* A serial names the device that is received by now; nothing links it later.
AttachSerials(r) ==
  LET b == req[r].bill IN
  /\ req[r].pc = "serials"
  /\ linked' = [linked EXCEPT ![b] = UNION { l.imeis : l \in bill[b].lines } \cap received]
  /\ Finish(r)
  /\ UNCHANGED <<received, bill, overrides, ledger>>

-----------------------------------------------------------------------------
(* Closing.                                                                *)

StartClose(r, b) ==
  /\ bill[b].status = "draft"
  /\ Enter(r, "sum", "close", b, NoImei, 0, NoLine)
  /\ UNCHANGED <<received, bill, linked, overrides, ledger>>

SumOf(b) == SumOfLines(bill[b].lines)

\* Mutant: the sum is compared with bills.gbp_total, which is that sum.
SumLines_Circular(r) ==
  LET b == req[r].bill IN
  /\ req[r].pc = "sum"
  /\ IF req[r].op = "force"
       THEN req' = [req EXCEPT ![r].pc = "force", ![r].amount = SumOf(b) - bill[b].declared]
       ELSE IF bill[b].lines # {} THEN Goto(r, "close") ELSE Finish(r)
  /\ UNCHANGED <<received, bill, linked, overrides, ledger>>

SumLines(r) ==
  LET b == req[r].bill IN
  /\ req[r].pc = "sum"
  /\ IF req[r].op = "force"
       THEN req' = [req EXCEPT ![r].pc = "force", ![r].amount = SumOf(b) - bill[b].declared]
       ELSE IF checkBillCloseable(SumOf(b), bill[b].declared) THEN Goto(r, "close") ELSE Finish(r)
  /\ UNCHANGED <<received, bill, linked, overrides, ledger>>

CloseBill(r) ==
  /\ req[r].pc = "close"
  /\ bill' = [bill EXCEPT ![req[r].bill].status = "closed"]
  /\ Finish(r)
  /\ UNCHANGED <<received, linked, overrides, ledger>>

StartForceClose(r, b) ==
  /\ bill[b].status = "draft"
  /\ Enter(r, "sum", "force", b, NoImei, 0, NoLine)
  /\ UNCHANGED <<received, bill, linked, overrides, ledger>>

\* The override and the close are one batch.
ForceCloseBill(r) ==
  /\ req[r].pc = "force"
  /\ overrides' = overrides (+) SetToBag({<<req[r].bill, req[r].amount>>})
  /\ bill' = [bill EXCEPT ![req[r].bill].status = "closed"]
  /\ Finish(r)
  /\ UNCHANGED <<received, linked, ledger>>

-----------------------------------------------------------------------------
(* POST /bills/:id/write-cost-ledger.                                      *)

TypeOf(b) == Header[b].type

StartPost(r, b) ==
  /\ bill[b].status = "closed"
  /\ Enter(r, "rows", "post", b, NoImei, 0, NoLine)
  /\ UNCHANGED <<received, bill, linked, overrides, ledger>>

\* Mutant: the serials that name no device are read too.
PostReadsRows_Unlinked(r) ==
  LET b == req[r].bill IN
  /\ req[r].pc = "rows"
  /\ req' = [req EXCEPT ![r].pc = "already",
       ![r].rows = UNION { {<<b, l.no>>} \X { IF i \in linked[b] THEN i ELSE NoImei : i \in l.imeis }
                           : l \in bill[b].lines }]
  /\ UNCHANGED <<received, bill, linked, overrides, ledger>>

\* The serials of the bill's lines that name a device.
PostReadsRows(r) ==
  LET b == req[r].bill IN
  /\ req[r].pc = "rows"
  /\ req' = [req EXCEPT ![r].pc = "already",
       ![r].rows = UNION { {<<b, l.no>>} \X (l.imeis \cap linked[b]) : l \in bill[b].lines }]
  /\ UNCHANGED <<received, bill, linked, overrides, ledger>>

\* A line counts as posted when any row of the ledger names it, a repair cost
\* posted by hand included.
PostReadsLedger(r) ==
  /\ req[r].pc = "already"
  /\ req' = [req EXCEPT ![r].pc = "post",
                        ![r].done = { e.line : e \in BagToSet(ledger) } \ {NoLine}]
  /\ UNCHANGED <<received, bill, linked, overrides, ledger>>

PriceOf(line) == (CHOOSE l \in bill[line[1]].lines : l.no = line[2]).price

EntryOf(row, type) == [dev |-> row[2], type |-> type, amount |-> PriceOf(row[1]), line |-> row[1]]

\* Mutant: one row per line, as the lines are what is looked up.
PostInserts_PerLine(r) ==
  LET due   == { row \in req[r].rows : row[1] \notin req[r].done }
      first == { CHOOSE row \in due : row[1] = l : l \in { row[1] : row \in due } }
  IN
  /\ req[r].pc = "post"
  /\ ledger' = ledger (+) SetToBag({ EntryOf(row, TypeOf(req[r].bill)) : row \in first })
  /\ Finish(r)
  /\ UNCHANGED <<received, bill, linked, overrides>>

\* One batch: a row for each serial of the lines not posted yet.
PostInserts(r) ==
  LET due == { row \in req[r].rows : row[1] \notin req[r].done } IN
  /\ req[r].pc = "post"
  /\ ledger' = ledger (+) SetToBag({ EntryOf(row, TypeOf(req[r].bill)) : row \in due })
  /\ Finish(r)
  /\ UNCHANGED <<received, bill, linked, overrides>>

-----------------------------------------------------------------------------
(* Costs posted by hand.                                                   *)

MayPostByHand == BagCardinality(ledger) + Cardinality({ r \in Requests : Busy(r) }) < MaxManual

HasPurchase(i) == \E e \in BagToSet(ledger) : e.dev = i /\ e.type = "purchase"

\* A second positive amount is refused unless it is allowed explicitly; a
\* correction, zero or less, always passes.
StartPurchase(r, i, amount, allowDuplicate) ==
  /\ i \in received
  /\ MayPostByHand
  /\ amount > 0 /\ ~allowDuplicate => ~HasPurchase(i)
  /\ Enter(r, "insert_cost", "purchase", NoBill, i, amount, NoLine)
  /\ UNCHANGED <<received, bill, linked, overrides, ledger>>

\* A repair cost may name any line of any bill on record.
StartRepairCost(r, i, amount, line) ==
  /\ i \in received
  /\ MayPostByHand
  /\ line # NoLine => \E l \in bill[line[1]].lines : l.no = line[2]
  /\ Enter(r, "insert_cost", "repair", NoBill, i, amount, line)
  /\ UNCHANGED <<received, bill, linked, overrides, ledger>>

InsertCost(r) ==
  /\ req[r].pc = "insert_cost"
  /\ ledger' = ledger (+) SetToBag({[dev |-> req[r].dev, type |-> req[r].op,
                                     amount |-> req[r].amount, line |-> req[r].line]})
  /\ Finish(r)
  /\ UNCHANGED <<received, bill, linked, overrides>>

\* A worker dies between two statements.
Abandon(r) ==
  /\ Busy(r)
  /\ Finish(r)
  /\ UNCHANGED <<received, bill, linked, overrides, ledger>>

-----------------------------------------------------------------------------

Submission(r) ==
  \/ \E b \in Bills : StartCreate(r, b)
  \/ InsertBill(r)
  \/ InsertLines(r)
  \/ AttachSerials(r)

Closing(r) ==
  \/ \E b \in Bills : StartClose(r, b) \/ StartForceClose(r, b)
  \/ SumLines(r)
  \/ CloseBill(r)
  \/ ForceCloseBill(r)

Posting(r) ==
  \/ \E b \in Bills : StartPost(r, b)
  \/ PostReadsRows(r)
  \/ PostReadsLedger(r)
  \/ PostInserts(r)

Manual(r) ==
  \/ \E i \in Imeis, a \in Amounts, dup \in BOOLEAN : StartPurchase(r, i, a, dup)
  \/ \E i \in Imeis, a \in Amounts, l \in LineIds \cup {NoLine} : StartRepairCost(r, i, a, l)
  \/ InsertCost(r)

Next ==
  \/ \E i \in Imeis : Receive(i)
  \/ \E r \in Requests : Submission(r) \/ Closing(r) \/ Posting(r) \/ Manual(r) \/ Abandon(r)

Spec == Init /\ [][Next]_vars

-----------------------------------------------------------------------------

BillOk(b) ==
  /\ bill[b].status \in {"draft", "closed"}
  /\ bill[b].declared \in Nat
  /\ \A l \in bill[b].lines : <<b, l.no>> \in LineIds /\ l.imeis \subseteq Imeis

TypeOK ==
  /\ received \subseteq Imeis
  /\ \A b \in Bills : bill[b] = Absent \/ BillOk(b)
  /\ linked \in [Bills -> SUBSET Imeis]
  /\ BagToSet(overrides) \subseteq Bills \X Int
  /\ BagToSet(ledger) \subseteq Entry
  /\ \A r \in Requests : Busy(r) => req[r] \in Request

\* A closed bill that declares an amount either adds up to it or has an override
\* on record, whatever ran between the sum and the close.
ClosedIsAccountedFor ==
  \A b \in Bills :
    bill[b].status = "closed" /\ bill[b].declared # 0 =>
      \/ SumOf(b) = bill[b].declared
      \/ \E o \in BagToSet(overrides) : o[1] = b

\* How many rows of the ledger are e.
Copies(e) == IF BagIn(e, ledger) THEN ledger[e] ELSE 0

\* How often i was costed at the price of a line by a posting of its bill.
Costed(b, l, i) ==
  Copies([dev |-> i, type |-> TypeOf(b), amount |-> l.price, line |-> <<b, l.no>>])

\* A purchase line is costed once to each device that it was linked to when its bill
\* was entered, or to none of them, and never to another: a later posting skips the line
\* whole.  So a line stays costed in part when one of its serials is received after the
\* bill was entered (see ReceivedIsLinked).  (The staff post one bill at a time.)
CostedAsLinked ==
  \A b \in Bills : TypeOf(b) = "purchase" =>
    \A l \in bill[b].lines : \E n \in {0, 1} :
      \A i \in l.imeis : Costed(b, l, i) = IF i \in linked[b] THEN n ELSE 0

\* "received_device_id is populated once the serial is matched against an existing
\* received device (either direction: device received before the bill arrived, or bill
\* line entered before the device is scanned in)" (migration 0028): of a bill whose
\* serials are attached, those that are received name their device.
ReceivedIsLinked ==
  \A b \in Bills : linked[b] # {} =>
    \A l \in bill[b].lines : l.imeis \cap received \subseteq linked[b]
=============================================================================
