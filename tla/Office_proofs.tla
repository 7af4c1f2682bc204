----------------------------- MODULE Office_proofs -----------------------------
(***************************************************************************)
(* Proofs about the desks of the office, each for any requests and any     *)
(* data: the supplier's bills, the mail, the labels and the customs file.  *)
(* What is proved of the import of sales, of the repairs and of the map of *)
(* SKUs comes from modules of their own, SaleImport_proofs,                *)
(* RepairWorkflow_proofs and SkuMap_proofs.                                *)
(*                                                                         *)
(* Bills: a closed bill is accounted for, and a purchase line is costed to *)
(* the devices it was linked to, all of them or none.  A bill can be       *)
(* closed, by force, and even posted, before its lines and its serials are *)
(* inserted, and what a closing or a posting has read may be old when it   *)
(* writes.  Kept, Ledgered and Stage say why that does no harm: until its  *)
(* serials are attached a bill has no row in the ledger, from then on its  *)
(* lines and its serials stay as they are, a bill without lines adds up to *)
(* nothing but nought, and what a posting found not to be posted stays so  *)
(* until it writes.                                                        *)
(*                                                                         *)
(* Mail: the log of sends is honest, and a send is chased when it is due.  *)
(* Sound says what a request between Gmail's answer and its row owes.      *)
(*                                                                         *)
(* Labels: no label that is out of date is forgotten.  A job may be marked *)
(* as sent, or invalidated, long after it was read.  A request that is     *)
(* about to mark a job as sent relies on its device not needing that job   *)
(* (Spared), and a correction that is about to write on knowing every      *)
(* queued job of a device of which it knows any (Prepared); Undisturbed    *)
(* and Uncorrected say what a step must leave alone for the others to be   *)
(* able to rely on that.                                                   *)
(*                                                                         *)
(* Customs file: no variance is received that was not acknowledged as it   *)
(* stands.  From the moment the checks pass until the flip, and after it,  *)
(* the return is Signed; what acknowledgements, proofs and reconciled      *)
(* values write meanwhile is Gentle.                                       *)
(*                                                                         *)
(* Form and entry: what customs are told is honest, for any header whose   *)
(* figures are amounts (Figured) and any page of tokens.                   *)
(***************************************************************************)
EXTENDS Office, FiniteSetTheorems, TLAPS

\* The sentinel is not a bill.
NoBillIsNone == NoBill \notin Bills

\* The staff post one bill at a time.
OnePosting == "post" \in AloneOps

IsRequest(x) ==
  \E pc, op, b, d, a, l, rows, done :
    x = [pc |-> pc, op |-> op, bill |-> b, dev |-> d, amount |-> a, line |-> l,
         rows |-> rows, done |-> done]

\* The statements of each operation.
Kind(x) ==
  /\ IsRequest(x)
  /\ \/ x.pc \in {"insert", "lines", "serials"} /\ x.op = "create" /\ x.bill \in Bills
     \/ x.pc \in {"sum", "close", "force"} /\ x.op \in {"close", "force"} /\ x.bill \in Bills
     \/ x.pc \in {"rows", "already", "post"} /\ x.op = "post" /\ x.bill \in Bills
     \/ x.pc = "insert_cost" /\ x.op = "purchase" /\ x.line = NoLine
     \/ x.pc = "insert_cost" /\ x.op = "repair"

\* The serials of a line that name a device, and the rows that a posting inserts of a
\* bill that has none in the ledger.
On(b, l) == l.imeis \cap linked[b]
Full(b)  == UNION { {<<b, l.no>>} \X On(b, l) : l \in bill[b].lines }

\* The row of the ledger by which a device is costed at a line.
CostOf(b, l, i) == [dev |-> i, type |-> TypeOf(b), amount |-> l.price, line |-> <<b, l.no>>]

AddsUp(b) == bill[b].declared # 0 => bill[b].lines # {} /\ SumOf(b) = bill[b].declared

\* What a request has established at the statement it has reached.
Stage(x) ==
  /\ x.pc \in {"insert", "lines"} => built[x.bill].ok
  /\ x.pc = "insert" => bill[x.bill] = Absent
  /\ x.pc = "lines" => bill[x.bill].lines = {}
  /\ x.pc \in {"insert", "lines", "serials"} => linked[x.bill] = {}
  /\ x.pc \notin {"insert", "insert_cost"} => bill[x.bill] # Absent
  /\ x.pc = "close" => AddsUp(x.bill)
  /\ x.pc \in {"already", "post"} =>
       x.rows = {} \/ (linked[x.bill] # {} /\ x.rows = Full(x.bill))
  /\ OnePosting /\ x.pc = "post" /\ x.rows # {} /\ TypeOf(x.bill) = "purchase" =>
       \A l \in bill[x.bill].lines : <<x.bill, l.no>> \notin x.done =>
         \A i \in On(x.bill, l) : Costed(x.bill, l, i) = 0

\* One request creates a bill; and one posts, where the staff see to that.
Apart ==
  \A q, r \in Requests :
    q # r /\ Busy(q) /\ Busy(r) /\ req[q].op = req[r].op =>
      /\ req[q].op = "create" => req[q].bill # req[r].bill
      /\ OnePosting => req[q].op # "post"

\* A bill on record.
Kept(b) ==
  /\ \E s, d, l : bill[b] = [status |-> s, declared |-> d, lines |-> l]
  /\ bill[b] # Absent => bill[b].status \in {"draft", "closed"}
  /\ bill[b] = Absent => linked[b] = {}
  /\ \A l, m \in bill[b].lines : l.no = m.no => l = m
  /\ bill[b].status = "closed" => AddsUp(b) \/ \E o \in BagToSet(overrides) : o[1] = b

\* Of a bill whose serials name no device yet, the ledger has no purchase; a line is costed
\* to the devices it was linked to alone, and to all of them or to none.
Ledgered(b) ==
  OnePosting /\ TypeOf(b) = "purchase" =>
    /\ linked[b] = {} => \A e \in BagToSet(ledger) : e.type = "purchase" => \A n : e.line # <<b, n>>
    /\ \A l \in bill[b].lines :
         /\ \E n \in {0, 1} : \A i \in On(b, l) : Costed(b, l, i) = n
         /\ \A i \in l.imeis \ linked[b] : Costed(b, l, i) = 0

Tables ==
  /\ bill = [b \in Bills |-> bill[b]]
  /\ linked = [b \in Bills |-> linked[b]]
  /\ IsABag(ledger)
  /\ \A b \in Bills : Kept(b) /\ Ledgered(b)

\* The inductive invariant.
IInv ==
  /\ Tables
  /\ req = [r \in Requests |-> req[r]]
  /\ \A r \in Requests : Busy(r) => Kind(req[r]) /\ Stage(req[r])
  /\ Apart

-----------------------------------------------------------------------------

\* No lines add up to nought.
LEMMA NoLinesNoSum == SumOfLines({}) = 0
<1> DEFINE iter == CHOOSE g : g = [s \in SUBSET {} |->
                     IF s = {} THEN 0
                     ELSE (CHOOSE x \in s : TRUE).price + g[s \ {CHOOSE x \in s : TRUE}]]
<1>1. iter = [s \in SUBSET {} |->
                IF s = {} THEN 0
                ELSE (CHOOSE x \in s : TRUE).price + iter[s \ {CHOOSE x \in s : TRUE}]]
  <2>1. \A g : g = [s \in SUBSET {} |-> 0] =>
          g = [s \in SUBSET {} |->
                 IF s = {} THEN 0
                 ELSE (CHOOSE x \in s : TRUE).price + g[s \ {CHOOSE x \in s : TRUE}]]
    OBVIOUS
  <2> QED BY <2>1
<1>2. iter[{}] = 0
  BY <1>1
<1>3. SumOfLines({}) = iter[{}]
  BY DEF SumOfLines, MapThenSumSet, MapThenFoldSet
<1> QED BY <1>2, <1>3

\* The lines of a bill that builds have numbers of their own.
LEMMA LinesNumbered ==
  ASSUME NEW b \in Bills, built[b].ok
  PROVE  \A l, m \in built[b].lines : l.no = m.no => l = m
<1>1. built[b] = buildBill(Header[b], Rows[b])
  BY DEF built
<1>2. PICK h, rows : h = Header[b] /\ rows = Rows[b]
  OBVIOUS
<1>3. \/ built[b].lines = {HeaderLine(h)}
      \/ built[b].lines = { LineOf(h, rows, i) : i \in Built(h.mode, rows) }
  BY <1>1, <1>2 DEF buildBill, Refused, Bill
<1>4. \A i : LineOf(h, rows, i).no = i
  BY DEF LineOf
<1> QED BY <1>3, <1>4

\* What adding a row for each element of a set does to the ledger.
LEMMA BagGrows ==
  ASSUME NEW B, IsABag(B), NEW S
  PROVE  /\ IsABag(B (+) SetToBag(S))
         /\ BagToSet(B (+) SetToBag(S)) = BagToSet(B) \cup S
         /\ \A e : e \notin S /\ BagIn(e, B) => (B (+) SetToBag(S))[e] = B[e]
         /\ \A e \in S : (B (+) SetToBag(S))[e] = IF BagIn(e, B) THEN B[e] + 1 ELSE 1
<1>1. \A e \in DOMAIN B : B[e] \in Nat /\ B[e] > 0
  BY DEF IsABag
<1> DEFINE C == B (+) SetToBag(S)
<1>2. C = [e \in DOMAIN B \cup S |-> (IF e \in DOMAIN B THEN B[e] ELSE 0) + (IF e \in S THEN 1 ELSE 0)]
  BY DEF SetToBag, (+)
<1>3. \A e \in DOMAIN B \cup S : C[e] \in Nat /\ C[e] > 0
  BY <1>1, <1>2
<1>4. DOMAIN C = DOMAIN B \cup S
  BY <1>2
<1>5. IsABag(C)
  <2> HIDE DEF C
  <2>1. C = [e \in DOMAIN C |-> C[e]]
    BY <1>2
  <2> QED BY <1>3, <1>4, <2>1 DEF IsABag
<1>6. \A e : e \notin S /\ e \in DOMAIN B => C[e] = B[e]
  BY <1>1, <1>2
<1>7. \A e \in S : C[e] = IF e \in DOMAIN B THEN B[e] + 1 ELSE 1
  BY <1>1, <1>2
<1> HIDE DEF C
<1>8. IsABag(C) /\ BagToSet(C) = BagToSet(B) \cup S
  BY <1>4, <1>5 DEF BagToSet
<1> QED BY <1>6, <1>7, <1>8 DEF C, BagIn, BagToSet

\* How often a row is in the ledger, after such a step.
LEMMA CopiesGrow ==
  ASSUME IsABag(ledger), NEW S, ledger' = ledger (+) SetToBag(S)
  PROVE  /\ IsABag(ledger')
         /\ BagToSet(ledger') = BagToSet(ledger) \cup S
         /\ \A e : e \notin S => Copies(e)' = Copies(e)
         /\ \A e \in S : Copies(e) = 0 => Copies(e)' = 1
<1>1. PICK B : B = ledger
  OBVIOUS
<1>2. IsABag(B) /\ ledger' = B (+) SetToBag(S)
  BY <1>1
<1>3. PICK C : C = ledger'
  OBVIOUS
<1>4. /\ IsABag(C)
      /\ BagToSet(C) = BagToSet(B) \cup S
      /\ \A e : e \notin S /\ BagIn(e, B) => C[e] = B[e]
      /\ \A e \in S : C[e] = IF BagIn(e, B) THEN B[e] + 1 ELSE 1
  BY <1>2, <1>3, BagGrows
<1>5. \A e : BagIn(e, B) => B[e] \in Nat /\ B[e] > 0
  BY <1>2 DEF IsABag, BagIn, BagToSet
<1>6. \A e : Copies(e) = IF BagIn(e, B) THEN B[e] ELSE 0
  BY <1>1 DEF Copies
<1>7. \A e : Copies(e)' = IF BagIn(e, C) THEN C[e] ELSE 0
  BY <1>3 DEF Copies
<1>8. \A e : e \notin S => Copies(e)' = Copies(e)
  BY <1>4, <1>6, <1>7 DEF BagIn
<1>9. \A e \in S : Copies(e) = 0 => Copies(e)' = 1
  BY <1>4, <1>5, <1>6, <1>7 DEF BagIn
<1> QED BY <1>1, <1>3, <1>4, <1>8, <1>9

-----------------------------------------------------------------------------
(* Steps of a request.                                                     *)

\* A request is not at rest when it has the columns of one.
LEMMA KindIsBusy == \A x : Kind(x) => x # Rest
<1> SUFFICES ASSUME NEW x, Kind(x)
             PROVE  x # Rest
  OBVIOUS
<1>1. x.pc # "rest"
  BY DEF Kind
<1> QED BY <1>1 DEF Rest

\* Rewriting columns of a request.
LEMMA Columns ==
  ASSUME NEW x, IsRequest(x), NEW pc, NEW v
  PROVE  /\ IsRequest([x EXCEPT !.pc = pc])
         /\ [x EXCEPT !.pc = pc].pc = pc
         /\ [x EXCEPT !.pc = pc].op = x.op
         /\ [x EXCEPT !.pc = pc].bill = x.bill
         /\ [x EXCEPT !.pc = pc].line = x.line
         /\ [x EXCEPT !.pc = pc].rows = x.rows
         /\ [x EXCEPT !.pc = pc].done = x.done
<1>1. PICK a, op, b, d, n, l, rows, done :
        x = [pc |-> a, op |-> op, bill |-> b, dev |-> d, amount |-> n, line |-> l,
             rows |-> rows, done |-> done]
  BY DEF IsRequest
<1>2. PICK y : y = [x EXCEPT !.pc = pc]
  OBVIOUS
<1>3. y = [pc |-> pc, op |-> op, bill |-> b, dev |-> d, amount |-> n, line |-> l,
           rows |-> rows, done |-> done]
  BY <1>1, <1>2
<1>4. IsRequest(y)
  BY <1>3 DEF IsRequest
<1>5. y.pc = pc /\ y.op = x.op /\ y.bill = x.bill /\ y.line = x.line /\ y.rows = x.rows /\ y.done = x.done
  BY <1>1, <1>3
<1> QED BY <1>2, <1>4, <1>5

\* The same of the columns a statement fills in.
LEMMA Filled ==
  ASSUME NEW x, IsRequest(x), NEW v
  PROVE  /\ \A y : y = [x EXCEPT !.amount = v] =>
              IsRequest(y) /\ y.pc = x.pc /\ y.op = x.op /\ y.bill = x.bill
         /\ \A y : y = [x EXCEPT !.rows = v] =>
              IsRequest(y) /\ y.pc = x.pc /\ y.op = x.op /\ y.bill = x.bill /\ y.rows = v
         /\ \A y : y = [x EXCEPT !.done = v] =>
              IsRequest(y) /\ y.pc = x.pc /\ y.op = x.op /\ y.bill = x.bill
                /\ y.rows = x.rows /\ y.done = v
<1>1. PICK a, op, b, d, n, l, rows, done :
        x = [pc |-> a, op |-> op, bill |-> b, dev |-> d, amount |-> n, line |-> l,
             rows |-> rows, done |-> done]
  BY DEF IsRequest
<1>2. [x EXCEPT !.amount = v] = [pc |-> a, op |-> op, bill |-> b, dev |-> d, amount |-> v, line |-> l,
                                 rows |-> rows, done |-> done]
  BY <1>1
<1>3. [x EXCEPT !.rows = v] = [pc |-> a, op |-> op, bill |-> b, dev |-> d, amount |-> n, line |-> l,
                               rows |-> v, done |-> done]
  BY <1>1
<1>4. [x EXCEPT !.done = v] = [pc |-> a, op |-> op, bill |-> b, dev |-> d, amount |-> n, line |-> l,
                               rows |-> rows, done |-> v]
  BY <1>1
<1>5. IsRequest([x EXCEPT !.amount = v]) /\ IsRequest([x EXCEPT !.rows = v]) /\ IsRequest([x EXCEPT !.done = v])
  <2>1. \A pc, o, b2, d2, m, l2, ro, do :
          IsRequest([pc |-> pc, op |-> o, bill |-> b2, dev |-> d2, amount |-> m, line |-> l2,
                     rows |-> ro, done |-> do])
    BY DEF IsRequest
  <2> QED BY <1>2, <1>3, <1>4, <2>1
<1> QED BY <1>1, <1>2, <1>3, <1>4, <1>5

\* What the others need of a step of request r.
OthersStay(r) == \A q \in Requests \ {r} : \A y : Busy(q) /\ y = req[q] => Stage(y)'

\* A request that goes on to its next statement.
LEMMA GoesOn ==
  ASSUME IInv, NEW r \in Requests, Busy(r), NEW x, req' = [req EXCEPT ![r] = x],
         Kind(x), x.op = req[r].op, x.bill = req[r].bill, Stage(x)', Tables', OthersStay(r)
  PROVE  IInv'
<1>1. /\ req' = [q \in Requests |-> req'[q]]
      /\ req'[r] = x
      /\ \A q \in Requests : q # r => req'[q] = req[q]
  BY DEF IInv
<1>2. \A q \in Requests : /\ Busy(q)' <=> Busy(q)
                          /\ req'[q].op = req[q].op /\ req'[q].bill = req[q].bill
  BY <1>1, KindIsBusy DEF Busy
<1>3. Apart'
  BY <1>2 DEF IInv, Apart
<1>4. ASSUME NEW q \in Requests, Busy(q)'
      PROVE  Kind(req'[q]) /\ Stage(req[q])'
  <2>1. CASE q = r
    <3>1. Kind(req'[q])
      BY <1>1, <2>1
    <3>2. Stage(req[q])'
      BY <1>1, <2>1 DEF Stage, AddsUp, SumOf, Full, On, Costed, Copies, TypeOf
    <3> QED BY <3>1, <3>2
  <2>2. CASE q # r
    <3>1. PICK y : y = req[q]
      OBVIOUS
    <3>2. Stage(y)' /\ Kind(y) /\ req'[q] = y
      BY <1>1, <1>2, <1>4, <2>2, <3>1 DEF OthersStay, IInv
    <3> QED BY <3>2 DEF Stage, AddsUp, SumOf, Full, On, Costed, Copies, TypeOf
  <2> QED BY <2>1, <2>2
<1> QED BY <1>1, <1>3, <1>4 DEF IInv, Kind

\* A request that begins.
LEMMA Begins ==
  ASSUME IInv, NEW r \in Requests, ~Busy(r), NEW x, req' = [req EXCEPT ![r] = x],
         Kind(x), Stage(x)', Tables', OthersStay(r),
         \A q \in Requests : Busy(q) /\ req[q].op = x.op =>
           (x.op = "create" => req[q].bill # x.bill) /\ (OnePosting => x.op # "post")
  PROVE  IInv'
<1>1. /\ req' = [q \in Requests |-> req'[q]]
      /\ req'[r] = x
      /\ \A q \in Requests : q # r => req'[q] = req[q]
  BY DEF IInv
<1>2. \A q \in Requests : q # r => (Busy(q)' <=> Busy(q))
  BY <1>1 DEF Busy
<1>3. Apart'
  BY <1>1, <1>2 DEF IInv, Apart
<1>4. ASSUME NEW q \in Requests, Busy(q)'
      PROVE  Kind(req'[q]) /\ Stage(req[q])'
  <2>1. CASE q = r
    <3>1. Kind(req'[q])
      BY <1>1, <2>1
    <3>2. Stage(req[q])'
      BY <1>1, <2>1 DEF Stage, AddsUp, SumOf, Full, On, Costed, Copies, TypeOf
    <3> QED BY <3>1, <3>2
  <2>2. CASE q # r
    <3>1. PICK y : y = req[q]
      OBVIOUS
    <3>2. Stage(y)' /\ Kind(y) /\ req'[q] = y
      BY <1>1, <1>2, <1>4, <2>2, <3>1 DEF OthersStay, IInv
    <3> QED BY <3>2 DEF Stage, AddsUp, SumOf, Full, On, Costed, Copies, TypeOf
  <2> QED BY <2>1, <2>2
<1> QED BY <1>1, <1>3, <1>4 DEF IInv, Kind

\* A request that ends.
LEMMA Ends ==
  ASSUME IInv, NEW r \in Requests, Finish(r), Tables', OthersStay(r)
  PROVE  IInv'
<1>1. /\ req' = [q \in Requests |-> req'[q]]
      /\ req'[r] = Rest
      /\ \A q \in Requests : q # r => req'[q] = req[q]
  BY DEF IInv, Finish
<1>2. \A q \in Requests : Busy(q)' <=> q # r /\ Busy(q)
  BY <1>1 DEF Busy
<1>3. Apart'
  BY <1>1, <1>2 DEF IInv, Apart
<1>4. ASSUME NEW q \in Requests, Busy(q)'
      PROVE  Kind(req'[q]) /\ Stage(req[q])'
  <2>1. PICK y : y = req[q]
    OBVIOUS
  <2>2. Stage(y)' /\ Kind(y) /\ req'[q] = y
    BY <1>1, <1>2, <1>4, <2>1 DEF OthersStay, IInv
  <2> QED BY <2>2 DEF Stage, AddsUp, SumOf, Full, On, Costed, Copies, TypeOf
<1> QED BY <1>1, <1>3, <1>4 DEF IInv, Kind

\* A bill that a step leaves keeps what is known of it.
LEMMA BillStays ==
  ASSUME NEW b, bill'[b] = bill[b], linked'[b] = linked[b], ledger' = ledger,
         BagToSet(overrides) \subseteq BagToSet(overrides')
  PROVE  /\ Kept(b) => Kept(b)'
         /\ Ledgered(b) => Ledgered(b)'
         /\ \A y : y.bill = b /\ Stage(y) => Stage(y)'
<1>1. Kept(b) => Kept(b)'
  <2>1. SumOf(b)' = SumOf(b)
    BY DEF SumOf
  <2>2. AddsUp(b) => AddsUp(b)'
    BY <2>1 DEF AddsUp
  <2>3. ASSUME Kept(b), bill[b].status = "closed"
        PROVE  AddsUp(b)' \/ \E o \in BagToSet(overrides') : o[1] = b
    BY <2>2, <2>3 DEF Kept
  <2> DEFINE Row(x, serials) ==
               /\ \E s, d, l : x = [status |-> s, declared |-> d, lines |-> l]
               /\ x # Absent => x.status \in {"draft", "closed"}
               /\ x = Absent => serials = {}
               /\ \A l, m \in x.lines : l.no = m.no => l = m
  <2>4. Kept(b) => Row(bill[b], linked[b])
    BY DEF Kept
  <2>5. Row(bill[b], linked[b]) => Row(bill'[b], linked'[b])
    <3> HIDE DEF Row
    <3> QED OBVIOUS
  <2> QED BY <2>3, <2>4, <2>5 DEF Kept
<1>2. Ledgered(b) => Ledgered(b)'
  BY DEF Ledgered, On, Costed, Copies, TypeOf
<1>3. \A y : y.bill = b /\ Stage(y) => Stage(y)'
  BY DEF Stage, AddsUp, SumOf, Full, On, Costed, Copies, TypeOf
<1> QED BY <1>1, <1>2, <1>3

\* A step that changes no table.
LEMMA TablesStay ==
  ASSUME IInv, UNCHANGED <<bill, linked, overrides, ledger>>
  PROVE  /\ Tables'
         /\ \A y : Stage(y)' <=> Stage(y)
         /\ \A r \in Requests : OthersStay(r)
<1>1. \A y : Stage(y)' <=> Stage(y)
  BY DEF Stage, AddsUp, SumOf, Full, On, Costed, Copies, TypeOf
<1>2. \A b \in Bills : Kept(b)' /\ Ledgered(b)'
  BY BillStays DEF IInv, Tables
<1>3. Tables'
  BY <1>2 DEF IInv, Tables
<1>4. ASSUME NEW r \in Requests, NEW q \in Requests \ {r}, NEW y, Busy(q), y = req[q]
      PROVE  Stage(y)'
  BY <1>1, <1>4 DEF IInv
<1> QED BY <1>1, <1>3, <1>4 DEF OthersStay

\* A step on one bill: what is left to show is about that bill.
LEMMA OneBill ==
  ASSUME IInv, NEW b \in Bills, NEW r \in Requests,
         bill' = [c \in Bills |-> bill'[c]], linked' = [c \in Bills |-> linked'[c]],
         \A c \in Bills : c # b => bill'[c] = bill[c] /\ linked'[c] = linked[c],
         ledger' = ledger, BagToSet(overrides) \subseteq BagToSet(overrides'),
         Kept(b)', Ledgered(b)',
         \A q \in Requests \ {r} : \A y :
           Busy(q) /\ y = req[q] /\ y.bill = b /\ Kind(y) /\ Stage(y) => Stage(y)'
  PROVE  Tables' /\ OthersStay(r)
<1>1. \A c \in Bills : Kept(c)' /\ Ledgered(c)'
  BY BillStays DEF IInv, Tables
<1>2. Tables'
  BY <1>1 DEF IInv, Tables
<1>3. ASSUME NEW q \in Requests \ {r}, NEW y, Busy(q), y = req[q]
      PROVE  Stage(y)'
  <2>1. Kind(y) /\ Stage(y)
    BY <1>3 DEF IInv
  <2>2. CASE y.bill = b
    BY <1>3, <2>1, <2>2
  <2>3. CASE y.bill # b /\ y.bill \in Bills
    BY <2>1, <2>3, BillStays
  <2>4. CASE y.pc = "insert_cost"
    BY <2>4 DEF Stage
  <2> QED BY <2>1, <2>2, <2>3, <2>4 DEF Kind
<1> QED BY <1>2, <1>3 DEF OthersStay

-----------------------------------------------------------------------------
(* The statements.                                                         *)

\* At first there is no bill and no cost.
LEMMA InitOk == Init => IInv
<1> SUFFICES ASSUME Init
             PROVE  IInv
  OBVIOUS
<1>1. \A r \in Requests : ~Busy(r)
  BY DEF Init, Busy
<1>2. ledger = [e \in {} |-> 1]
  BY DEF Init, EmptyBag, SetToBag
<1>3. IsABag(ledger) /\ BagToSet(ledger) = {}
  BY <1>2 DEF IsABag, BagToSet
<1>4. \A b \in Bills : bill[b] = [status |-> "none", declared |-> 0, lines |-> {}] /\ linked[b] = {}
  BY DEF Init, Absent
<1>5. ASSUME NEW b \in Bills
      PROVE  Kept(b) /\ Ledgered(b)
  <2>1. \E s, d, l : bill[b] = [status |-> s, declared |-> d, lines |-> l]
    BY <1>4
  <2>2. bill[b].status = "none" /\ bill[b].lines = {} /\ bill[b] = Absent /\ linked[b] = {}
    BY <1>4 DEF Absent
  <2>3. Kept(b)
    BY <2>1, <2>2 DEF Kept
  <2>4. Ledgered(b)
    BY <1>3, <2>2 DEF Ledgered
  <2> QED BY <2>3, <2>4
<1>6. Tables
  BY <1>3, <1>5 DEF Init, Tables
<1> QED BY <1>1, <1>6 DEF Init, IInv, Apart

\* Enter, without its columns.
LEMMA Entered ==
  ASSUME NEW r \in Requests, NEW pc, NEW op, NEW b, NEW d, NEW amount, NEW l,
         Enter(r, pc, op, b, d, amount, l)
  PROVE  /\ ~Busy(r)
         /\ op \in AloneOps => \A q \in Requests : Busy(q) => req[q].op # op
         /\ \E x : /\ req' = [req EXCEPT ![r] = x]
                   /\ IsRequest(x)
                   /\ x.pc = pc /\ x.op = op /\ x.bill = b /\ x.line = l /\ x.rows = {}
<1>1. PICK x : x = [pc |-> pc, op |-> op, bill |-> b, dev |-> d, amount |-> amount, line |-> l,
                    rows |-> {}, done |-> {}]
  OBVIOUS
<1>2. IsRequest(x)
  BY <1>1 DEF IsRequest
<1>3. req' = [req EXCEPT ![r] = x]
  BY <1>1 DEF Enter
<1>4. x.pc = pc /\ x.op = op /\ x.bill = b /\ x.line = l /\ x.rows = {}
  BY <1>1
<1>5. ~Busy(r) /\ (op \in AloneOps => \A q \in Requests : Busy(q) => req[q].op # op)
  BY DEF Enter
<1> QED BY <1>2, <1>3, <1>4, <1>5

\* An operation that begins by reading what only it is about.
LEMMA EnterOk ==
  ASSUME IInv, NoBillIsNone, NEW r \in Requests, NEW pc, NEW op, NEW b, NEW d, NEW amount, NEW l,
         Enter(r, pc, op, b, d, amount, l), UNCHANGED <<bill, linked, overrides, ledger>>,
         \/ pc = "sum" /\ op \in {"close", "force"} /\ b \in Bills /\ bill[b] # Absent
         \/ pc = "rows" /\ op = "post" /\ b \in Bills /\ bill[b] # Absent
         \/ pc = "insert_cost" /\ op = "purchase" /\ l = NoLine
         \/ pc = "insert_cost" /\ op = "repair"
  PROVE  IInv'
<1>1. PICK x : /\ req' = [req EXCEPT ![r] = x]
               /\ IsRequest(x)
               /\ x.pc = pc /\ x.op = op /\ x.bill = b /\ x.line = l /\ x.rows = {}
  BY Entered
<1>2. ~Busy(r) /\ (OnePosting /\ op = "post" => \A q \in Requests : Busy(q) => req[q].op # op)
  BY Entered DEF OnePosting
<1>3. Kind(x)
  BY <1>1 DEF Kind
<1>4. Stage(x)
  BY <1>1 DEF Stage
<1>5. Tables' /\ Stage(x)' /\ OthersStay(r)
  BY <1>4, TablesStay
<1> QED BY <1>1, <1>2, <1>3, <1>5, Begins

\* A submission of a bill begins on nothing.
LEMMA StartCreateOk ==
  ASSUME IInv, NoBillIsNone, NEW r \in Requests, NEW b \in Bills, StartCreate(r, b)
  PROVE  IInv'
<1>1. PICK x : /\ req' = [req EXCEPT ![r] = x]
               /\ IsRequest(x)
               /\ x.pc = "insert" /\ x.op = "create" /\ x.bill = b /\ x.line = NoLine /\ x.rows = {}
  BY Entered DEF StartCreate
<1>2. ~Busy(r) /\ bill[b] = Absent /\ built[b].ok
  BY Entered DEF StartCreate
<1>3. Kind(x)
  BY <1>1 DEF Kind
<1>4. Stage(x)
  BY <1>1, <1>2 DEF Stage, IInv, Tables, Kept
<1>5. Tables' /\ Stage(x)' /\ OthersStay(r)
  BY <1>4, TablesStay DEF StartCreate
<1>6. \A q \in Requests : Busy(q) /\ req[q].op = x.op => req[q].bill # x.bill
  BY <1>1 DEF StartCreate, NotCreating
<1> QED BY <1>1, <1>2, <1>3, <1>5, <1>6, Begins

\* Where a request is after Goto.
LEMMA Gone ==
  ASSUME IInv, NEW r \in Requests, Busy(r), NEW pc, Goto(r, pc)
  PROVE  \E x : /\ req' = [req EXCEPT ![r] = x]
                /\ IsRequest(x)
                /\ x.pc = pc /\ x.op = req[r].op /\ x.bill = req[r].bill /\ x.line = req[r].line
                /\ x.rows = req[r].rows /\ x.done = req[r].done
<1>1. PICK y : y = req[r]
  OBVIOUS
<1>2. IsRequest(y)
  BY <1>1 DEF IInv, Kind
<1>3. PICK x : x = [y EXCEPT !.pc = pc]
  OBVIOUS
<1>4. req' = [req EXCEPT ![r] = x]
  BY <1>1, <1>3 DEF Goto, IInv
<1>5. /\ IsRequest(x)
      /\ x.pc = pc /\ x.op = y.op /\ x.bill = y.bill /\ x.line = y.line
      /\ x.rows = y.rows /\ x.done = y.done
  BY <1>2, <1>3, Columns
<1> QED BY <1>1, <1>4, <1>5

\* What is known of a request at one of its statements.
LEMMA AtStatement ==
  ASSUME IInv, NEW r \in Requests, req[r].pc # "rest"
  PROVE  Busy(r) /\ Kind(req[r]) /\ Stage(req[r])
BY DEF IInv, Busy, Rest

\* Another request about the bill that one creates does not create it.
LEMMA NotTwice ==
  ASSUME IInv, NEW r \in Requests, NEW q \in Requests \ {r}, Busy(r), Busy(q),
         req[r].op = "create", req[q].bill = req[r].bill
  PROVE  req[q].op # "create"
BY DEF IInv, Apart

\* A bill that is on record has a status.
LEMMA OnRecord ==
  ASSUME NEW x, x.status \in {"draft", "closed"}
  PROVE  x # Absent
BY DEF Absent

\* The header of a bill, whose lines follow.
LEMMA InsertBillOk ==
  ASSUME IInv, NEW r \in Requests, InsertBill(r)
  PROVE  IInv'
<1>1. Busy(r) /\ Kind(req[r]) /\ Stage(req[r]) /\ req[r].pc = "insert"
  BY AtStatement DEF InsertBill
<1>2. PICK b \in Bills : b = req[r].bill
  BY <1>1 DEF Kind
<1>3. /\ req[r].op = "create" /\ bill[b] = Absent /\ linked[b] = {} /\ built[b].ok
      /\ ledger' = ledger /\ overrides' = overrides /\ linked' = linked
  BY <1>1, <1>2 DEF Kind, Stage, InsertBill
<1>4. PICK new : new = [status |-> "draft", declared |-> built[b].declared, lines |-> {}]
  OBVIOUS
<1>5. bill' = [bill EXCEPT ![b] = new]
  <2>1. PICK n : n = built[b].declared
    OBVIOUS
  <2>2. bill' = [bill EXCEPT ![b] = [bill[b] EXCEPT !.status = "draft", !.declared = n]]
    BY <1>2, <2>1 DEF InsertBill
  <2>3. [Absent EXCEPT !.status = "draft", !.declared = n] = [status |-> "draft", declared |-> n, lines |-> {}]
    <3>1. PICK y : y = [Absent EXCEPT !.status = "draft"]
      OBVIOUS
    <3>2. y = [status |-> "draft", declared |-> 0, lines |-> {}]
      BY <3>1 DEF Absent
    <3>3. [y EXCEPT !.declared = n] = [status |-> "draft", declared |-> n, lines |-> {}]
      BY <3>2
    <3> QED BY <3>1, <3>3
  <2> QED BY <1>3, <1>4, <2>1, <2>2, <2>3
<1>6. /\ bill' = [c \in Bills |-> bill'[c]] /\ linked' = [c \in Bills |-> linked'[c]]
      /\ bill'[b] = new /\ linked'[b] = {}
      /\ \A c \in Bills : c # b => bill'[c] = bill[c] /\ linked'[c] = linked[c]
  BY <1>3, <1>5 DEF IInv, Tables
<1>7. Kept(b)'
  <2>1. \E st, d, l : bill'[b] = [status |-> st, declared |-> d, lines |-> l]
    <3>1. PICK n : n = built[b].declared
      OBVIOUS
    <3>2. bill'[b] = [status |-> "draft", declared |-> n, lines |-> {}]
      BY <1>4, <1>6, <3>1
    <3> QED BY <3>2
  <2>2. bill'[b].status = "draft" /\ bill'[b].lines = {} /\ linked'[b] = {}
    BY <1>4, <1>6
  <2>3. bill'[b] # Absent
    BY <2>2, OnRecord
  <2> QED BY <2>1, <2>2, <2>3 DEF Kept
<1>8. Ledgered(b)'
  <2>1. OnePosting /\ TypeOf(b) = "purchase" =>
          \A e \in BagToSet(ledger) : e.type = "purchase" => \A n : e.line # <<b, n>>
    BY <1>3 DEF IInv, Tables, Ledgered
  <2>2. bill'[b].lines = {}
    BY <1>4, <1>6
  <2> QED BY <1>3, <2>1, <2>2 DEF Ledgered, TypeOf
<1>9. PICK x : /\ req' = [req EXCEPT ![r] = x]
               /\ IsRequest(x)
               /\ x.pc = "lines" /\ x.op = req[r].op /\ x.bill = req[r].bill
  BY <1>1, Gone DEF InsertBill
<1>10. Kind(x)
  BY <1>2, <1>3, <1>9 DEF Kind
<1>11. Stage(x)'
  BY <1>2, <1>3, <1>4, <1>6, <1>9, OnRecord DEF Stage
<1>12. ASSUME NEW q \in Requests \ {r}, NEW y, Busy(q), y = req[q], y.bill = b, Kind(y), Stage(y)
       PROVE  Stage(y)'
  <2>1. y.op # "create"
    BY <1>1, <1>2, <1>3, <1>12, NotTwice
  <2>2. y.pc = "insert_cost"
    BY <1>3, <1>12, <2>1 DEF Kind, Stage
  <2> QED BY <2>2 DEF Stage
<1>13. Tables' /\ OthersStay(r)
  BY <1>3, <1>6, <1>7, <1>8, <1>12, OneBill
<1> QED BY <1>1, <1>9, <1>10, <1>11, <1>13, GoesOn

\* No device is costed at the lines of a bill whose serials name no device.
LEMMA NoneCosted ==
  ASSUME NEW b, Ledgered(b), linked[b] = {}, OnePosting, TypeOf(b) = "purchase"
  PROVE  \A l, i : Costed(b, l, i) = 0
<1> SUFFICES ASSUME NEW l, NEW i
             PROVE  Costed(b, l, i) = 0
  OBVIOUS
<1>1. PICK e : e = CostOf(b, l, i)
  OBVIOUS
<1>2. e.type = "purchase" /\ e.line = <<b, l.no>>
  BY <1>1 DEF CostOf
<1>3. ~BagIn(e, ledger)
  BY <1>2 DEF BagIn, Ledgered
<1>4. Costed(b, l, i) = IF BagIn(e, ledger) THEN ledger[e] ELSE 0
  BY <1>1 DEF Costed, Copies, CostOf
<1> QED BY <1>3, <1>4

\* The lines of a bill that may have been closed meanwhile: by force, or at nought.
LEMMA InsertLinesOk ==
  ASSUME IInv, NEW r \in Requests, InsertLines(r)
  PROVE  IInv'
<1>1. Busy(r) /\ Kind(req[r]) /\ Stage(req[r]) /\ req[r].pc = "lines"
  BY AtStatement DEF InsertLines
<1>2. PICK b \in Bills : b = req[r].bill
  BY <1>1 DEF Kind
<1>3. /\ req[r].op = "create" /\ bill[b] # Absent /\ bill[b].lines = {} /\ linked[b] = {} /\ built[b].ok
      /\ ledger' = ledger /\ overrides' = overrides /\ linked' = linked
  BY <1>1, <1>2 DEF Kind, Stage, InsertLines
<1>4. PICK ls : ls = built[b].lines
  OBVIOUS
<1>5. PICK s, d, l : bill[b] = [status |-> s, declared |-> d, lines |-> l]
  BY DEF IInv, Tables, Kept
<1>6. bill' = [bill EXCEPT ![b] = [status |-> s, declared |-> d, lines |-> ls]]
  <2>1. bill' = [bill EXCEPT ![b] = [bill[b] EXCEPT !.lines = ls]]
    BY <1>2, <1>4 DEF InsertLines, IInv, Tables
  <2>2. PICK y : y = bill[b]
    OBVIOUS
  <2>3. [y EXCEPT !.lines = ls] = [status |-> s, declared |-> d, lines |-> ls]
    BY <1>5, <2>2
  <2> QED BY <2>1, <2>2, <2>3
<1>7. /\ bill' = [c \in Bills |-> bill'[c]] /\ linked' = [c \in Bills |-> linked'[c]]
      /\ bill'[b] = [status |-> s, declared |-> d, lines |-> ls] /\ linked'[b] = {}
      /\ \A c \in Bills : c # b => bill'[c] = bill[c] /\ linked'[c] = linked[c]
  BY <1>3, <1>6 DEF IInv, Tables
<1>8. s \in {"draft", "closed"}
  BY <1>3, <1>5 DEF IInv, Tables, Kept
<1>9. AddsUp(b) => d = 0
  BY <1>3, <1>5 DEF AddsUp
<1>10. d = 0 => AddsUp(b)'
  BY <1>7 DEF AddsUp
<1>11. Kept(b)'
  <2>1. \A k, m \in ls : k.no = m.no => k = m
    BY <1>3, <1>4, LinesNumbered
  <2>2. s = "closed" => AddsUp(b) \/ \E o \in BagToSet(overrides) : o[1] = b
    BY <1>5 DEF IInv, Tables, Kept
  <2>3. bill'[b] # Absent /\ bill'[b].status = s /\ bill'[b].lines = ls
    BY <1>7, <1>8, OnRecord
  <2> QED BY <1>3, <1>7, <1>8, <1>9, <1>10, <2>1, <2>2, <2>3 DEF Kept
<1>12. Ledgered(b)'
  <2>1. OnePosting /\ TypeOf(b) = "purchase" => \A m, i : Costed(b, m, i) = 0
    BY <1>3, NoneCosted DEF IInv, Tables
  <2>2. \A m, i : Costed(b, m, i)' = Costed(b, m, i)
    BY <1>3 DEF Costed, Copies, TypeOf
  <2>3. OnePosting /\ TypeOf(b) = "purchase" =>
          \A e \in BagToSet(ledger) : e.type = "purchase" => \A n : e.line # <<b, n>>
    BY <1>3 DEF IInv, Tables, Ledgered
  <2> QED BY <1>3, <1>7, <2>1, <2>2, <2>3 DEF Ledgered, On, TypeOf
<1>13. PICK x : /\ req' = [req EXCEPT ![r] = x]
                /\ IsRequest(x)
                /\ x.pc = "serials" /\ x.op = req[r].op /\ x.bill = req[r].bill
  BY <1>1, Gone DEF InsertLines
<1>14. Kind(x)
  BY <1>2, <1>3, <1>13 DEF Kind
<1>15. Stage(x)'
  <2>1. bill'[b] # Absent
    BY <1>7, <1>8, OnRecord
  <2> QED BY <1>2, <1>7, <1>13, <2>1 DEF Stage
<1>16. ASSUME NEW q \in Requests \ {r}, NEW y, Busy(q), y = req[q], y.bill = b, Kind(y), Stage(y)
       PROVE  Stage(y)'
  <2>1. y.op # "create"
    BY <1>1, <1>2, <1>3, <1>16, NotTwice
  <2>2. y.pc \notin {"insert", "lines", "serials"}
    BY <1>16, <2>1 DEF Kind
  <2>3. bill'[b] # Absent
    BY <1>7, <1>8, OnRecord
  <2>4. y.pc = "close" => AddsUp(b)'
    BY <1>9, <1>10, <1>16 DEF Stage
  <2>5. y.pc \in {"already", "post"} => y.rows = {}
    BY <1>3, <1>16 DEF Stage
  <2> QED BY <1>16, <2>2, <2>3, <2>4, <2>5 DEF Stage
<1>17. Tables' /\ OthersStay(r)
  BY <1>3, <1>7, <1>11, <1>12, <1>16, OneBill
<1> QED BY <1>1, <1>13, <1>14, <1>15, <1>17, GoesOn

\* The serials are attached when no posting can have seen one.
LEMMA AttachSerialsOk ==
  ASSUME IInv, NEW r \in Requests, AttachSerials(r)
  PROVE  IInv'
<1>1. Busy(r) /\ Kind(req[r]) /\ Stage(req[r]) /\ req[r].pc = "serials"
  BY AtStatement DEF AttachSerials
<1>2. PICK b \in Bills : b = req[r].bill
  BY <1>1 DEF Kind
<1>3. /\ req[r].op = "create" /\ bill[b] # Absent /\ linked[b] = {}
      /\ ledger' = ledger /\ overrides' = overrides /\ bill' = bill /\ Finish(r)
  BY <1>1, <1>2 DEF Kind, Stage, AttachSerials
<1>4. PICK on : linked' = [linked EXCEPT ![b] = on]
  BY <1>2 DEF AttachSerials
<1>5. /\ bill' = [c \in Bills |-> bill'[c]] /\ linked' = [c \in Bills |-> linked'[c]]
      /\ \A c \in Bills : c # b => bill'[c] = bill[c] /\ linked'[c] = linked[c]
  BY <1>3, <1>4 DEF IInv, Tables
<1>6. Kept(b)'
  <2>1. Kept(b)
    BY DEF IInv, Tables
  <2>2. AddsUp(b)' <=> AddsUp(b)
    BY <1>3 DEF AddsUp, SumOf
  <2> QED BY <1>3, <2>1, <2>2 DEF Kept
<1>7. Ledgered(b)'
  <2>1. OnePosting /\ TypeOf(b) = "purchase" =>
          \A e \in BagToSet(ledger) : e.type = "purchase" => \A n : e.line # <<b, n>>
    BY <1>3 DEF IInv, Tables, Ledgered
  <2>2. OnePosting /\ TypeOf(b) = "purchase" => \A l, i : Costed(b, l, i) = 0
    BY <1>3, NoneCosted DEF IInv, Tables
  <2>3. \A l, i : Costed(b, l, i)' = Costed(b, l, i)
    BY <1>3 DEF Costed, Copies, TypeOf
  <2> QED BY <1>3, <2>1, <2>2, <2>3 DEF Ledgered, TypeOf
<1>8. ASSUME NEW q \in Requests \ {r}, NEW y, Busy(q), y = req[q], y.bill = b, Kind(y), Stage(y)
      PROVE  Stage(y)'
  <2>1. y.op # "create"
    BY <1>1, <1>2, <1>3, <1>8, NotTwice
  <2>2. y.pc \notin {"insert", "lines", "serials"}
    BY <1>8, <2>1 DEF Kind
  <2>3. y.pc \in {"already", "post"} => y.rows = {}
    BY <1>3, <1>8 DEF Stage
  <2>4. AddsUp(b)' <=> AddsUp(b)
    BY <1>3 DEF AddsUp, SumOf
  <2> QED BY <1>3, <1>8, <2>2, <2>3, <2>4 DEF Stage
<1>9. Tables' /\ OthersStay(r)
  BY <1>3, <1>5, <1>6, <1>7, <1>8, OneBill
<1> QED BY <1>3, <1>9, Ends

\* A bill that is closed says so, and its lines, its serials and its total stay.
LEMMA ClosedOk ==
  ASSUME IInv, NEW r \in Requests, NEW b \in Bills, bill[b] # Absent,
         bill' = [bill EXCEPT ![b].status = "closed"],
         linked' = linked, ledger' = ledger,
         BagToSet(overrides) \subseteq BagToSet(overrides'),
         AddsUp(b) \/ \E o \in BagToSet(overrides') : o[1] = b,
         Finish(r)
  PROVE  IInv'
<1>1. PICK s, d, l : bill[b] = [status |-> s, declared |-> d, lines |-> l]
  BY DEF IInv, Tables, Kept
<1>2. bill' = [bill EXCEPT ![b] = [status |-> "closed", declared |-> d, lines |-> l]]
  <2>1. PICK y : y = bill[b]
    OBVIOUS
  <2>2. [y EXCEPT !.status = "closed"] = [status |-> "closed", declared |-> d, lines |-> l]
    BY <1>1, <2>1
  <2>3. bill' = [bill EXCEPT ![b] = [y EXCEPT !.status = "closed"]]
    BY <2>1 DEF IInv, Tables
  <2> QED BY <2>2, <2>3
<1>3. /\ bill' = [c \in Bills |-> bill'[c]] /\ linked' = [c \in Bills |-> linked'[c]]
      /\ bill'[b] = [status |-> "closed", declared |-> d, lines |-> l]
      /\ \A c \in Bills : c # b => bill'[c] = bill[c] /\ linked'[c] = linked[c]
  BY <1>2 DEF IInv, Tables
<1>4. /\ bill'[b].status = "closed" /\ bill'[b].lines = bill[b].lines
      /\ bill'[b].declared = bill[b].declared
  BY <1>1, <1>3
<1>5. bill'[b] # Absent
  BY <1>4 DEF Absent
<1>6. AddsUp(b)' <=> AddsUp(b)
  BY <1>4 DEF AddsUp, SumOf
<1>7. Kept(b)'
  <2>1. \A k, m \in bill[b].lines : k.no = m.no => k = m
    BY DEF IInv, Tables, Kept
  <2> QED BY <1>3, <1>4, <1>5, <1>6, <2>1 DEF Kept
<1>8. Ledgered(b)'
  <2>1. Ledgered(b)
    BY DEF IInv, Tables
  <2> QED BY <1>4, <2>1 DEF Ledgered, On, Costed, Copies, TypeOf
<1>9. ASSUME NEW q \in Requests \ {r}, NEW y, Busy(q), y = req[q], y.bill = b, Kind(y), Stage(y)
      PROVE  Stage(y)'
  <2>1. y.pc # "insert"
    BY <1>9 DEF Stage
  <2> QED BY <1>4, <1>5, <1>6, <1>9, <2>1 DEF Stage, Full, On, Costed, Copies, TypeOf
<1>10. Tables' /\ OthersStay(r)
  BY <1>3, <1>7, <1>8, <1>9, OneBill
<1> QED BY <1>10, Ends

\* The sum of the lines, against what the supplier declares.
LEMMA SumLinesOk ==
  ASSUME IInv, NEW r \in Requests, SumLines(r)
  PROVE  IInv'
<1>1. Busy(r) /\ Kind(req[r]) /\ Stage(req[r]) /\ req[r].pc = "sum"
  BY AtStatement DEF SumLines
<1>2. PICK b \in Bills : b = req[r].bill
  BY <1>1 DEF Kind
<1>3. /\ req[r].op \in {"close", "force"} /\ bill[b] # Absent
      /\ UNCHANGED <<bill, linked, overrides, ledger>>
  BY <1>1, <1>2 DEF Kind, Stage, SumLines
<1>4. CASE req[r].op = "force"
  <2>1. PICK v : v = SumOf(b) - bill[b].declared
    OBVIOUS
  <2>2. PICK y : y = req[r]
    OBVIOUS
  <2>3. PICK x : x = [y EXCEPT !.pc = "force"]
    OBVIOUS
  <2>4. PICK z : z = [x EXCEPT !.amount = v]
    OBVIOUS
  <2>5. req' = [req EXCEPT ![r] = z]
    <3>1. req' = [req EXCEPT ![r] = [y EXCEPT !.pc = "force", !.amount = v]]
      BY <1>2, <1>4, <2>1, <2>2 DEF SumLines, IInv
    <3> QED BY <2>3, <2>4, <3>1
  <2>6. IsRequest(y)
    BY <1>1, <2>2 DEF Kind
  <2>7. IsRequest(x) /\ x.pc = "force" /\ x.op = y.op /\ x.bill = y.bill
    BY <2>3, <2>6, Columns
  <2>8. IsRequest(z) /\ z.pc = "force" /\ z.op = y.op /\ z.bill = y.bill
    BY <2>4, <2>7, Filled
  <2>9. Kind(z) /\ Stage(z)
    BY <1>2, <1>3, <1>4, <2>2, <2>8 DEF Kind, Stage
  <2>10. Tables' /\ Stage(z)' /\ OthersStay(r)
    BY <1>3, <2>9, TablesStay
  <2> QED BY <1>1, <2>2, <2>5, <2>8, <2>9, <2>10, GoesOn
<1>5. CASE req[r].op # "force" /\ checkBillCloseable(SumOf(b), bill[b].declared)
  <2>1. Goto(r, "close")
    BY <1>2, <1>5 DEF SumLines
  <2>2. PICK x : /\ req' = [req EXCEPT ![r] = x]
                 /\ IsRequest(x)
                 /\ x.pc = "close" /\ x.op = req[r].op /\ x.bill = req[r].bill
    BY <1>1, <2>1, Gone
  <2>3. AddsUp(b)
    <3>1. SumOf(b) = bill[b].declared
      BY <1>5 DEF checkBillCloseable
    <3>2. bill[b].lines = {} => SumOf(b) = 0
      BY NoLinesNoSum DEF SumOf
    <3> QED BY <3>1, <3>2 DEF AddsUp
  <2>4. Kind(x) /\ Stage(x)
    BY <1>2, <1>3, <2>2, <2>3 DEF Kind, Stage
  <2>5. Tables' /\ Stage(x)' /\ OthersStay(r)
    BY <1>3, <2>4, TablesStay
  <2> QED BY <1>1, <2>2, <2>4, <2>5, GoesOn
<1>6. CASE req[r].op # "force" /\ ~checkBillCloseable(SumOf(b), bill[b].declared)
  <2>1. Finish(r)
    BY <1>2, <1>6 DEF SumLines
  <2> QED BY <1>3, <2>1, TablesStay, Ends
<1> QED BY <1>4, <1>5, <1>6

\* What added up still does.
LEMMA CloseBillOk ==
  ASSUME IInv, NEW r \in Requests, CloseBill(r)
  PROVE  IInv'
<1>1. Busy(r) /\ Kind(req[r]) /\ Stage(req[r]) /\ req[r].pc = "close"
  BY AtStatement DEF CloseBill
<1>2. PICK b \in Bills : b = req[r].bill
  BY <1>1 DEF Kind
<1>3. bill[b] # Absent /\ AddsUp(b)
  BY <1>1, <1>2 DEF Stage
<1>4. /\ bill' = [bill EXCEPT ![b].status = "closed"] /\ Finish(r)
      /\ linked' = linked /\ ledger' = ledger /\ overrides' = overrides
  BY <1>2 DEF CloseBill
<1> QED BY <1>3, <1>4, ClosedOk

\* A forced close leaves its override.
LEMMA ForceCloseBillOk ==
  ASSUME IInv, NEW r \in Requests, ForceCloseBill(r)
  PROVE  IInv'
<1>1. Busy(r) /\ Kind(req[r]) /\ Stage(req[r]) /\ req[r].pc = "force"
  BY AtStatement DEF ForceCloseBill
<1>2. PICK b \in Bills : b = req[r].bill
  BY <1>1 DEF Kind
<1>3. bill[b] # Absent
  BY <1>1, <1>2 DEF Stage
<1>4. /\ bill' = [bill EXCEPT ![b].status = "closed"] /\ Finish(r)
      /\ linked' = linked /\ ledger' = ledger
  BY <1>2 DEF ForceCloseBill
<1>5. PICK o : o = <<b, req[r].amount>>
  OBVIOUS
<1>6. overrides' = overrides (+) SetToBag({o})
  BY <1>2, <1>5 DEF ForceCloseBill
<1>7. BagToSet(overrides') = BagToSet(overrides) \cup {o}
  BY <1>6 DEF BagToSet, SetToBag, (+)
<1>8. o[1] = b
  BY <1>5
<1> QED BY <1>3, <1>4, <1>7, <1>8, ClosedOk

\* What a posting reads of a bill is all there is of it, or nothing.
LEMMA PostReadsRowsOk ==
  ASSUME IInv, NEW r \in Requests, PostReadsRows(r)
  PROVE  IInv'
<1>1. Busy(r) /\ Kind(req[r]) /\ Stage(req[r]) /\ req[r].pc = "rows"
  BY AtStatement DEF PostReadsRows
<1>2. PICK b \in Bills : b = req[r].bill
  BY <1>1 DEF Kind
<1>3. /\ req[r].op = "post" /\ bill[b] # Absent
      /\ UNCHANGED <<bill, linked, overrides, ledger>>
  BY <1>1, <1>2 DEF Kind, Stage, PostReadsRows
<1>4. PICK v : v = Full(b)
  OBVIOUS
<1>5. PICK y : y = req[r]
  OBVIOUS
<1>6. PICK x : x = [y EXCEPT !.pc = "already"]
  OBVIOUS
<1>7. PICK z : z = [x EXCEPT !.rows = v]
  OBVIOUS
<1>8. req' = [req EXCEPT ![r] = z]
  <2>1. v = UNION { {<<b, l.no>>} \X (l.imeis \cap linked[b]) : l \in bill[b].lines }
    BY <1>4 DEF Full, On
  <2>2. req' = [req EXCEPT ![r] = [y EXCEPT !.pc = "already", !.rows = v]]
    <3>1. req' = [req EXCEPT ![r].pc = "already", ![r].rows = v]
      BY <1>2, <2>1 DEF PostReadsRows
    <3> QED BY <1>5, <3>1 DEF IInv
  <2> QED BY <1>6, <1>7, <2>2
<1>9. IsRequest(y)
  BY <1>1, <1>5 DEF Kind
<1>10. IsRequest(x) /\ x.pc = "already" /\ x.op = y.op /\ x.bill = y.bill
  BY <1>6, <1>9, Columns
<1>11. IsRequest(z) /\ z.pc = "already" /\ z.op = y.op /\ z.bill = y.bill /\ z.rows = v
  BY <1>7, <1>10, Filled
<1>12. linked[b] = {} => v = {}
  BY <1>4 DEF Full, On
<1>13. Kind(z) /\ Stage(z)
  BY <1>2, <1>3, <1>4, <1>5, <1>11, <1>12 DEF Kind, Stage
<1>14. Tables' /\ Stage(z)' /\ OthersStay(r)
  BY <1>3, <1>13, TablesStay
<1> QED BY <1>1, <1>5, <1>8, <1>11, <1>13, <1>14, GoesOn

\* A line that no row of the ledger names is a line nothing was costed at.
LEMMA PostReadsLedgerOk ==
  ASSUME IInv, NoBillIsNone, NEW r \in Requests, PostReadsLedger(r)
  PROVE  IInv'
<1>1. Busy(r) /\ Kind(req[r]) /\ Stage(req[r]) /\ req[r].pc = "already"
  BY AtStatement DEF PostReadsLedger
<1>2. PICK b \in Bills : b = req[r].bill
  BY <1>1 DEF Kind
<1>3. /\ req[r].op = "post" /\ bill[b] # Absent
      /\ UNCHANGED <<bill, linked, overrides, ledger>>
  BY <1>1, <1>2 DEF Kind, Stage, PostReadsLedger
<1>4. PICK v : v = { e.line : e \in BagToSet(ledger) } \ {NoLine}
  OBVIOUS
<1>5. PICK y : y = req[r]
  OBVIOUS
<1>6. PICK x : x = [y EXCEPT !.pc = "post"]
  OBVIOUS
<1>7. PICK z : z = [x EXCEPT !.done = v]
  OBVIOUS
<1>8. req' = [req EXCEPT ![r] = z]
  <2>1. req' = [req EXCEPT ![r] = [y EXCEPT !.pc = "post", !.done = v]]
    BY <1>4, <1>5 DEF PostReadsLedger, IInv
  <2> QED BY <1>6, <1>7, <2>1
<1>9. IsRequest(y)
  BY <1>1, <1>5 DEF Kind
<1>10. IsRequest(x) /\ x.pc = "post" /\ x.op = y.op /\ x.bill = y.bill /\ x.rows = y.rows
  BY <1>6, <1>9, Columns
<1>11. IsRequest(z) /\ z.pc = "post" /\ z.op = y.op /\ z.bill = y.bill /\ z.rows = y.rows /\ z.done = v
  BY <1>7, <1>10, Filled
<1>12. ASSUME NEW l \in bill[b].lines, <<b, l.no>> \notin v, NEW i
       PROVE  Costed(b, l, i) = 0
  <2>1. PICK e : e = CostOf(b, l, i)
    OBVIOUS
  <2>2. e.line = <<b, l.no>>
    BY <2>1 DEF CostOf
  <2>3. <<b, l.no>> # NoLine
    BY DEF NoLine, NoBillIsNone
  <2>4. ~BagIn(e, ledger)
    BY <1>4, <1>12, <2>2, <2>3 DEF BagIn
  <2> QED BY <2>1, <2>4 DEF Costed, Copies, CostOf
<1>13. Kind(z)
  BY <1>2, <1>3, <1>5, <1>11 DEF Kind
<1>14. Stage(z)
  <2>1. y.rows = {} \/ (linked[b] # {} /\ y.rows = Full(b))
    BY <1>1, <1>2, <1>5 DEF Stage
  <2> QED BY <1>2, <1>3, <1>5, <1>11, <1>12, <2>1 DEF Stage
<1>15. Tables' /\ Stage(z)' /\ OthersStay(r)
  BY <1>3, <1>14, TablesStay
<1> QED BY <1>1, <1>5, <1>8, <1>11, <1>13, <1>15, GoesOn

\* Rows of the ledger that are no purchase of a line of b.
Foreign(S, b) == \A e \in S : e.type = "purchase" => \A n : e.line # <<b, n>>

\* Such rows are nothing to the bill.
LEMMA ForeignRows ==
  ASSUME IsABag(ledger), NEW S, ledger' = ledger (+) SetToBag(S), NEW b, Foreign(S, b),
         bill'[b] = bill[b], linked'[b] = linked[b]
  PROVE  /\ Ledgered(b) => Ledgered(b)'
         /\ TypeOf(b) = "purchase" => \A l, i : Costed(b, l, i)' = Costed(b, l, i)
<1>1. ASSUME TypeOf(b) = "purchase", NEW l, NEW i
      PROVE  Costed(b, l, i)' = Costed(b, l, i)
  <2>1. PICK e : e = CostOf(b, l, i)
    OBVIOUS
  <2>2. e.type = "purchase" /\ e.line = <<b, l.no>>
    BY <1>1, <2>1 DEF CostOf
  <2>3. e \notin S
    BY <2>2 DEF Foreign
  <2>4. Copies(e)' = Copies(e)
    BY <2>3, CopiesGrow
  <2>5. Costed(b, l, i) = Copies(e)
    BY <2>1 DEF Costed, CostOf
  <2>6. Costed(b, l, i)' = Copies(e)'
    BY <2>1 DEF Costed, CostOf, Copies, TypeOf
  <2> QED BY <2>4, <2>5, <2>6
<1>2. BagToSet(ledger') = BagToSet(ledger) \cup S
  BY CopiesGrow
<1>3. Ledgered(b) => Ledgered(b)'
  BY <1>1, <1>2 DEF Ledgered, Foreign, On, TypeOf
<1> QED BY <1>1, <1>3

\* Nor are they to any request, but to another posting of that bill.
LEMMA ForeignStage ==
  ASSUME IsABag(ledger), NEW S, ledger' = ledger (+) SetToBag(S), UNCHANGED <<bill, linked>>,
         NEW y, Stage(y), OnePosting /\ y.pc = "post" => Foreign(S, y.bill)
  PROVE  Stage(y)'
<1>1. OnePosting /\ y.pc = "post" /\ TypeOf(y.bill) = "purchase" =>
        \A l, i : Costed(y.bill, l, i)' = Costed(y.bill, l, i)
  BY ForeignRows
<1>2. PICK b : b = y.bill
  OBVIOUS
<1>3. AddsUp(b)' = AddsUp(b) /\ Full(b)' = Full(b) /\ \A l : On(b, l)' = On(b, l)
  BY DEF AddsUp, SumOf, Full, On
<1> QED BY <1>1, <1>2, <1>3 DEF Stage, TypeOf

\* One batch: a line of the bill is costed to every device it names, or is skipped.
LEMMA PostInsertsOk ==
  ASSUME IInv, NoBillIsNone, NEW r \in Requests, PostInserts(r)
  PROVE  IInv'
<1>1. Busy(r) /\ Kind(req[r]) /\ Stage(req[r]) /\ req[r].pc = "post"
  BY AtStatement DEF PostInserts
<1>2. PICK b \in Bills : b = req[r].bill
  BY <1>1 DEF Kind
<1>3. /\ req[r].op = "post" /\ bill[b] # Absent /\ Finish(r)
      /\ bill' = bill /\ linked' = linked /\ overrides' = overrides
  BY <1>1, <1>2 DEF Kind, Stage, PostInserts
<1>4. PICK rows, done : rows = req[r].rows /\ done = req[r].done
  OBVIOUS
<1>5. PICK S : S = { EntryOf(cost, TypeOf(b)) : cost \in { x \in rows : x[1] \notin done } }
  OBVIOUS
<1>6. ledger' = ledger (+) SetToBag(S)
  BY <1>2, <1>4, <1>5 DEF PostInserts
<1>7. rows = {} \/ (linked[b] # {} /\ rows = Full(b))
  BY <1>1, <1>2, <1>4 DEF Stage
<1>8. IsABag(ledger) /\ IsABag(ledger')
  BY <1>6, CopiesGrow DEF IInv, Tables
<1>9. \A e \in S : \E cost \in rows : cost[1] \notin done /\ e = EntryOf(cost, TypeOf(b))
  BY <1>5
<1>10. \A cost \in rows : \E l \in bill[b].lines : \E i \in On(b, l) : cost = <<<<b, l.no>>, i>>
  BY <1>7 DEF Full
<1>11. \A e \in S : \E l \in bill[b].lines : e.line = <<b, l.no>> /\ <<b, l.no>> \notin done
  <2>1. ASSUME NEW e \in S
        PROVE  \E l \in bill[b].lines : e.line = <<b, l.no>> /\ <<b, l.no>> \notin done
    <3>1. PICK cost \in rows : cost[1] \notin done /\ e = EntryOf(cost, TypeOf(b))
      BY <1>9
    <3>2. PICK l \in bill[b].lines : \E i \in On(b, l) : cost = <<<<b, l.no>>, i>>
      BY <1>10
    <3>3. PICK i \in On(b, l) : cost = <<<<b, l.no>>, i>>
      BY <3>2
    <3>4. cost[1] = <<b, l.no>> /\ e.line = cost[1]
      BY <3>1, <3>3 DEF EntryOf
    <3> QED BY <3>1, <3>4
  <2> QED BY <2>1
<1>12. \A c \in Bills : c # b => Foreign(S, c)
  <2>1. ASSUME NEW e \in S, NEW c, c # b, NEW n, e.line = <<c, n>>
        PROVE  FALSE
    <3>1. PICK m : e.line = <<b, m>>
      BY <1>11
    <3>2. <<b, m>>[1] = <<c, n>>[1]
      BY <2>1, <3>1
    <3> QED BY <2>1, <3>2
  <2> QED BY <2>1 DEF Foreign
<1>13. ASSUME OnePosting, TypeOf(b) = "purchase", NEW l \in bill[b].lines, linked[b] # {}
       PROVE  \E n \in {0, 1} : \A i \in On(b, l) : Costed(b, l, i)' = n
  <2>1. PICK n \in {0, 1} : \A i \in On(b, l) : Costed(b, l, i) = n
    BY <1>13 DEF IInv, Tables, Ledgered
  <2>2. \A i : /\ CostOf(b, l, i).line = <<b, l.no>>
               /\ Costed(b, l, i) = Copies(CostOf(b, l, i))
    BY DEF CostOf, Costed
  <2>3. \A i : Costed(b, l, i)' = Copies(CostOf(b, l, i))'
    BY DEF CostOf, Costed, Copies, TypeOf
  <2>4. CASE <<b, l.no>> \in done \/ rows = {}
    <3>1. \A i : CostOf(b, l, i) \notin S
      BY <1>9, <1>11, <2>2, <2>4
    <3>2. \A e : e \notin S => Copies(e)' = Copies(e)
      BY <1>6, <1>8, CopiesGrow
    <3>3. \A i : Copies(CostOf(b, l, i))' = Copies(CostOf(b, l, i))
      <4> SUFFICES ASSUME NEW i
                   PROVE  Copies(CostOf(b, l, i))' = Copies(CostOf(b, l, i))
        OBVIOUS
      <4>1. PICK e : e = CostOf(b, l, i)
        OBVIOUS
      <4>2. Copies(e)' = Copies(e)
        BY <3>1, <3>2, <4>1
      <4> QED BY <4>1, <4>2 DEF Copies, CostOf, TypeOf
    <3> QED BY <2>1, <2>2, <2>3, <3>3
  <2>5. CASE <<b, l.no>> \notin done /\ rows # {}
    <3>1. \A i \in On(b, l) : Costed(b, l, i) = 0
      BY <1>1, <1>2, <1>4, <1>13, <2>5 DEF Stage
    <3>2. ASSUME NEW i \in On(b, l)
          PROVE  CostOf(b, l, i) \in S
      <4>1. PICK cost : cost = <<<<b, l.no>>, i>>
        OBVIOUS
      <4>2. cost \in rows /\ cost[1] = <<b, l.no>> /\ cost[2] = i
        BY <1>7, <2>5, <4>1 DEF Full
      <4>3. PriceOf(<<b, l.no>>) = l.price
        <5>1. \A m \in bill[b].lines : m.no = l.no => m = l
          BY DEF IInv, Tables, Kept
        <5>2. (CHOOSE m \in bill[b].lines : m.no = l.no) = l
          BY <5>1
        <5> QED BY <5>2 DEF PriceOf
      <4>4. EntryOf(cost, TypeOf(b)) = CostOf(b, l, i)
        BY <4>2, <4>3 DEF EntryOf, CostOf
      <4> QED BY <1>5, <2>5, <4>2, <4>4
    <3>3. \A e \in S : Copies(e) = 0 => Copies(e)' = 1
      BY <1>6, <1>8, CopiesGrow
    <3>4. ASSUME NEW i \in On(b, l)
          PROVE  Costed(b, l, i)' = 1
      <4>1. PICK e : e = CostOf(b, l, i)
        OBVIOUS
      <4>2. Copies(e)' = 1
        BY <2>2, <3>1, <3>2, <3>3, <4>1
      <4> QED BY <4>1, <4>2 DEF Costed, Copies, CostOf, TypeOf
    <3> QED BY <3>4
  <2> QED BY <2>4, <2>5
<1>14. ASSUME OnePosting, TypeOf(b) = "purchase", NEW l \in bill[b].lines, NEW i \in l.imeis \ linked[b]
       PROVE  Costed(b, l, i)' = 0
  <2>1. PICK e : e = CostOf(b, l, i)
    OBVIOUS
  <2>2. e.dev = i /\ e.line = <<b, l.no>>
    BY <2>1 DEF CostOf
  <2>3. ASSUME e \in S
        PROVE  FALSE
    <3>1. PICK cost \in rows : e = EntryOf(cost, TypeOf(b))
      BY <1>9, <2>3
    <3>2. PICK m \in bill[b].lines : \E j \in On(b, m) : cost = <<<<b, m.no>>, j>>
      BY <1>10
    <3>3. PICK j \in On(b, m) : cost = <<<<b, m.no>>, j>>
      BY <3>2
    <3>4. j = i /\ <<b, m.no>> = <<b, l.no>>
      BY <2>2, <3>1, <3>3 DEF EntryOf
    <3>5. m = l
      BY <3>4 DEF IInv, Tables, Kept
    <3> QED BY <1>14, <3>3, <3>4, <3>5 DEF On
  <2>4. Copies(e)' = Copies(e)
    BY <1>6, <1>8, <2>3, CopiesGrow
  <2>5. Costed(b, l, i) = Copies(e) /\ Costed(b, l, i)' = Copies(e)'
    BY <2>1 DEF Costed, Copies, CostOf, TypeOf
  <2>6. Costed(b, l, i) = 0
    BY <1>14 DEF IInv, Tables, Ledgered
  <2> QED BY <2>4, <2>5, <2>6
<1>15. Ledgered(b)'
  <2>1. CASE linked[b] = {}
    <3>1. S = {}
      BY <1>7, <1>9, <2>1
    <3>2. Foreign(S, b)
      BY <3>1 DEF Foreign
    <3> QED BY <1>3, <1>6, <1>8, <3>2, ForeignRows DEF IInv, Tables
  <2>2. CASE linked[b] # {}
    BY <1>3, <1>13, <1>14, <2>2 DEF Ledgered, On, TypeOf
  <2> QED BY <2>1, <2>2
<1>16. ASSUME NEW c \in Bills
       PROVE  Kept(c)' /\ Ledgered(c)'
  <2>1. Kept(c)'
    BY <1>3 DEF IInv, Tables, Kept, AddsUp, SumOf
  <2>2. Ledgered(c)'
    BY <1>3, <1>6, <1>8, <1>12, <1>15, ForeignRows DEF IInv, Tables
  <2> QED BY <2>1, <2>2
<1>17. Tables'
  BY <1>3, <1>8, <1>16 DEF IInv, Tables
<1>18. ASSUME NEW q \in Requests \ {r}, NEW y, Busy(q), y = req[q]
       PROVE  Stage(y)'
  <2>1. Kind(y) /\ Stage(y)
    BY <1>18 DEF IInv
  <2>2. OnePosting => y.op # "post"
    BY <1>1, <1>3, <1>18 DEF IInv, Apart
  <2>3. OnePosting => y.pc # "post"
    BY <2>1, <2>2 DEF Kind
  <2> QED BY <1>3, <1>6, <1>8, <2>1, <2>3, ForeignStage
<1>19. OthersStay(r)
  BY <1>18 DEF OthersStay
<1> QED BY <1>3, <1>17, <1>19, Ends

\* A cost by hand is no purchase of a line.
LEMMA InsertCostOk ==
  ASSUME IInv, NoBillIsNone, NEW r \in Requests, InsertCost(r)
  PROVE  IInv'
<1>1. Busy(r) /\ Kind(req[r]) /\ req[r].pc = "insert_cost"
  BY AtStatement DEF InsertCost
<1>2. /\ Finish(r)
      /\ bill' = bill /\ linked' = linked /\ overrides' = overrides
  BY DEF InsertCost
<1>3. PICK e : e = [dev |-> req[r].dev, type |-> req[r].op, amount |-> req[r].amount, line |-> req[r].line]
  OBVIOUS
<1>4. ledger' = ledger (+) SetToBag({e})
  BY <1>3 DEF InsertCost
<1>5. e.type = "purchase" => e.line = NoLine
  BY <1>1, <1>3 DEF Kind
<1>6. \A b \in Bills : Foreign({e}, b)
  BY <1>5 DEF Foreign, NoLine, NoBillIsNone
<1>7. IsABag(ledger) /\ IsABag(ledger')
  <2>1. PICK S : S = {e}
    OBVIOUS
  <2> QED BY <1>4, <2>1, CopiesGrow DEF IInv, Tables
<1>8. ASSUME NEW c \in Bills
      PROVE  Kept(c)' /\ Ledgered(c)'
  <2>1. Kept(c)'
    BY <1>2 DEF IInv, Tables, Kept, AddsUp, SumOf
  <2>2. PICK S : S = {e}
    OBVIOUS
  <2>3. Ledgered(c)'
    BY <1>2, <1>4, <1>6, <1>7, <2>2, ForeignRows DEF IInv, Tables
  <2> QED BY <2>1, <2>3
<1>9. Tables'
  BY <1>2, <1>7, <1>8 DEF IInv, Tables
<1>10. ASSUME NEW q \in Requests \ {r}, NEW y, Busy(q), y = req[q]
       PROVE  Stage(y)'
  <2>1. Kind(y) /\ Stage(y)
    BY <1>10 DEF IInv
  <2>2. y.pc = "post" => Foreign({e}, y.bill)
    BY <1>6, <2>1 DEF Kind
  <2>3. PICK S : S = {e}
    OBVIOUS
  <2> QED BY <1>2, <1>4, <1>7, <2>1, <2>2, <2>3, ForeignStage
<1>11. OthersStay(r)
  BY <1>10 DEF OthersStay
<1> QED BY <1>2, <1>9, <1>11, Ends

\* Every step keeps the invariant.
LEMMA NextOk ==
  ASSUME NoBillIsNone, IInv, [Next]_vars
  PROVE  IInv'
<1>1. ASSUME NEW i \in Imeis, Receive(i)
      PROVE  IInv'
  <2>1. UNCHANGED <<bill, linked, overrides, ledger, req>>
    BY <1>1 DEF Receive
  <2>2. Tables' /\ \A y : Stage(y)' <=> Stage(y)
    BY <2>1, TablesStay
  <2>3. \A r \in Requests : Stage(req[r])' <=> Stage(req[r])
    BY <2>1 DEF Stage, AddsUp, SumOf, Full, On, Costed, Copies, TypeOf
  <2> QED BY <2>1, <2>2, <2>3 DEF IInv, Kind, Apart, Busy
<1>2. ASSUME NEW r \in Requests, Submission(r)
      PROVE  IInv'
  BY <1>2, StartCreateOk, InsertBillOk, InsertLinesOk, AttachSerialsOk DEF Submission
<1>3. ASSUME NEW r \in Requests, Closing(r)
      PROVE  IInv'
  <2>1. ASSUME NEW b \in Bills, StartClose(r, b) \/ StartForceClose(r, b)
        PROVE  IInv'
    <3>1. bill[b] # Absent
      BY <2>1, OnRecord DEF StartClose, StartForceClose
    <3> QED BY <2>1, <3>1, EnterOk DEF StartClose, StartForceClose
  <2> QED BY <1>3, <2>1, SumLinesOk, CloseBillOk, ForceCloseBillOk DEF Closing
<1>4. ASSUME NEW r \in Requests, Posting(r)
      PROVE  IInv'
  <2>1. ASSUME NEW b \in Bills, StartPost(r, b)
        PROVE  IInv'
    <3>1. bill[b] # Absent
      BY <2>1, OnRecord DEF StartPost
    <3> QED BY <2>1, <3>1, EnterOk DEF StartPost
  <2> QED BY <1>4, <2>1, PostReadsRowsOk, PostReadsLedgerOk, PostInsertsOk DEF Posting
<1>5. ASSUME NEW r \in Requests, Manual(r)
      PROVE  IInv'
  <2>1. ASSUME NEW i \in Imeis, NEW a \in Amounts, NEW dup \in BOOLEAN, StartPurchase(r, i, a, dup)
        PROVE  IInv'
    BY <2>1, EnterOk DEF StartPurchase
  <2>2. ASSUME NEW i \in Imeis, NEW a \in Amounts, NEW l \in LineIds \cup {NoLine}, StartRepairCost(r, i, a, l)
        PROVE  IInv'
    BY <2>2, EnterOk DEF StartRepairCost
  <2> QED BY <1>5, <2>1, <2>2, InsertCostOk DEF Manual
<1>6. ASSUME NEW r \in Requests, Abandon(r)
      PROVE  IInv'
  BY <1>6, TablesStay, Ends DEF Abandon
<1>7. CASE UNCHANGED vars
  <2>1. UNCHANGED <<bill, linked, overrides, ledger, req>>
    BY <1>7 DEF vars
  <2>2. Tables'
    BY <2>1, TablesStay
  <2>3. \A r \in Requests : Stage(req[r])' <=> Stage(req[r])
    BY <2>1 DEF Stage, AddsUp, SumOf, Full, On, Costed, Copies, TypeOf
  <2> QED BY <2>1, <2>2, <2>3 DEF IInv, Kind, Apart, Busy
<1> QED BY <1>1, <1>2, <1>3, <1>4, <1>5, <1>6, <1>7 DEF Next

\* The invariant above holds of every behaviour, whichever requests overlap and whichever
\* workers die between two statements; what it says of the ledger, of those in which the
\* staff post one bill at a time.
THEOREM BillsInductive ==
  ASSUME NoBillIsNone
  PROVE  Spec => []IInv
<1>1. IInv /\ [Next]_vars => IInv'
  BY NextOk
<1> QED BY <1>1, InitOk, PTL DEF Spec

\* A closed bill that declares an amount adds up to it or was closed by force, although
\* its lines may be inserted between the sum and the close, or after the close.
THEOREM ClosedBillsAccountedFor ==
  ASSUME NoBillIsNone
  PROVE  Spec => []ClosedIsAccountedFor
<1>1. IInv => ClosedIsAccountedFor
  BY DEF IInv, Tables, Kept, AddsUp, ClosedIsAccountedFor
<1> QED BY <1>1, BillsInductive, PTL

\* A purchase line is costed once to each device that it was linked to when its bill was
\* entered, or to none of them, and never to a device received later, whichever costs are
\* posted by hand meanwhile, and however often the bill is posted.
THEOREM LinesCostedAsLinked ==
  ASSUME NoBillIsNone, OnePosting
  PROVE  Spec => []CostedAsLinked
<1>1. IInv => CostedAsLinked
  BY DEF IInv, Tables, Ledgered, On, CostedAsLinked
<1> QED BY <1>1, BillsInductive, PTL

-----------------------------------------------------------------------------
(* The mail.                                                               *)

\* Stamps of the forms, and rows of the log; all are stamped by CURRENT_TIMESTAMP.
Stamps(forms) == [day : Nat, form : forms]

Email ==
  [ship : Shipments, kind : {"prealert", "clearance", "correspondence"},
   status : {"sent", "failed", "manual"}, provider : {"gmail", "manual"},
   at : Stamps({2}), by : Senders \cup {Nothing}]

\* A request of the mail, by its statement.
Mailing ==
  {Mail!Rest} \cup [pc : {"gmail"}, ship : Shipments]
    \cup [pc : {"record"}, ship : Shipments, status : {"sent", "failed"}]

\* The calendar has days.
HasDays == MaxDay \in Nat

\* A request has no row until its last statement, and what it is about to write is what
\* Gmail answered.
Sound(r) ==
  Mail!Busy(r) /\ r # Nothing =>
    /\ \A i \in DOMAIN emails : emails[i].by # r
    /\ sender[r].pc = "gmail" => r \notin accepted
    /\ sender[r].pc = "record" => sender[r].status = (IF r \in accepted THEN "sent" ELSE "failed")

\* The mail's inductive invariant.
MailInv ==
  /\ now \in Nat /\ (HasDays => now <= MaxDay)
  /\ emails \in Seq(Email)
  /\ \A i \in DOMAIN emails :
       /\ emails[i].at.day <= now
       /\ emails[i].kind \in {"correspondence", Mail!KindOf(emails[i].ship)}
  /\ replies \subseteq [ship : Shipments, at : Stamps(1..3)]
  /\ \A reply \in replies : reply.at.day <= now
  /\ checklist \in [Shipments -> SUBSET Mail!Fields]
  /\ \A s \in Shipments : Direction[s] = "export" => checklist[s] = {}
  /\ sender \in [Senders -> Mailing]
  /\ \A r \in Senders : Sound(r)
  /\ LogIsHonest

\* What the properties look at has changed in nothing but these.
LEMMA MailSame ==
  ASSUME MailInv, now' = now, emails' = emails, accepted' = accepted, sender' = sender,
         replies' = replies, checklist' = checklist
  PROVE  MailInv'
<1>1. \A r \in Senders : Sound(r)'
  BY DEF MailInv, Sound, Mail!Busy, Mail!Rest
<1>2. LogIsHonest'
  BY DEF MailInv, LogIsHonest, Mail!LogIsHonest
<1> QED BY <1>1, <1>2 DEF MailInv, Mail!Fields, Mail!KindOf

\* At first there is no mail.
LEMMA MailInit == Mail!Init => MailInv
<1> SUFFICES ASSUME Mail!Init PROVE MailInv
  OBVIOUS
<1>1. emails = << >> /\ replies = {} /\ now = 0 /\ checklist = [s \in Shipments |-> {}]
      /\ sender = [r \in Senders |-> Mail!Rest]
  BY DEF Mail!Init, Mail!Rest
<1>2. emails \in Seq(Email) /\ DOMAIN emails = {}
  BY <1>1
<1>3. sender \in [Senders -> Mailing] /\ \A r \in Senders : ~Mail!Busy(r)
  BY <1>1 DEF Mailing, Mail!Busy
<1> QED BY <1>1, <1>2, <1>3 DEF MailInv, Sound, HasDays, LogIsHonest, Mail!LogIsHonest

\* A row is added to the log.
LEMMA EmailAdded ==
  ASSUME MailInv, NEW s \in Shipments, NEW kind \in {"correspondence", Mail!KindOf(s)},
         NEW status \in {"sent", "failed", "manual"}, NEW provider \in {"gmail", "manual"},
         NEW by \in Senders \cup {Nothing}, Mail!recordEmail(s, kind, status, provider, by)
  PROVE  /\ emails' \in Seq(Email)
         /\ \A i \in DOMAIN emails' :
              \/ i \in DOMAIN emails /\ emails'[i] = emails[i]
              \/ emails'[i].by = by /\ emails'[i].status = status /\ emails'[i].ship = s
                 /\ emails'[i].kind = kind /\ emails'[i].at.day = now
<1> DEFINE e == [ship |-> s, kind |-> kind, status |-> status, provider |-> provider,
                 at |-> [day |-> now, form |-> 2], by |-> by]
<1>1. emails' = Append(emails, e)
  BY DEF Mail!recordEmail, Mail!CURRENT_TIMESTAMP, Mail!Stamp
<1>2. e.at \in Stamps({2})
  BY DEF Stamps, MailInv
<1>3. kind \in {"prealert", "clearance", "correspondence"}
  BY DEF Mail!KindOf
<1>4. e \in Email
  <2>1. e.at = [day |-> now, form |-> 2]
    OBVIOUS
  <2> QED BY <1>2, <1>3, <2>1 DEF Email
<1>5. e.by = by /\ e.status = status /\ e.ship = s /\ e.kind = kind /\ e.at.day = now
  OBVIOUS
<1>6. emails \in Seq(Email)
  BY DEF MailInv
<1> HIDE DEF e
<1>7. emails' \in Seq(Email) /\ Len(emails') = Len(emails) + 1 /\ Len(emails) \in Nat
  BY <1>1, <1>4, <1>6
<1>8. \A i \in 1..Len(emails) : emails'[i] = emails[i]
  BY <1>1, <1>4, <1>6
<1>9. emails'[Len(emails) + 1] = e
  BY <1>1, <1>4, <1>6
<1>10. DOMAIN emails' = 1..(Len(emails) + 1) /\ DOMAIN emails = 1..Len(emails)
  BY <1>6, <1>7
<1>11. ASSUME NEW i \in DOMAIN emails', i \notin DOMAIN emails PROVE i = Len(emails) + 1
  BY <1>10, <1>11, <1>7
<1> QED BY <1>5, <1>7, <1>8, <1>9, <1>10, <1>11

\* The rows of the log, one by one.
LEMMA RowsAreEmails ==
  ASSUME MailInv
  PROVE  \A i \in DOMAIN emails : emails[i] \in Email
<1>1. emails \in Seq(Email)
  BY DEF MailInv
<1> QED BY <1>1

\* A row that no request of the system's wrote, or that tells what Gmail answered, keeps
\* the log honest.
LEMMA EmailKeeps ==
  ASSUME MailInv, NEW s \in Shipments, NEW kind \in {"correspondence", Mail!KindOf(s)},
         NEW status \in {"sent", "failed", "manual"}, NEW provider \in {"gmail", "manual"},
         NEW by \in Senders \cup {Nothing}, Mail!recordEmail(s, kind, status, provider, by),
         by # Nothing => status = (IF by \in accepted THEN "sent" ELSE "failed"),
         \/ by \in Senders /\ sender' = [sender EXCEPT ![by] = Mail!Rest]
         \/ by = Nothing /\ sender' = sender,
         UNCHANGED <<now, replies, checklist, accepted>>
  PROVE  MailInv'
<1>1. now' = now /\ replies' = replies /\ checklist' = checklist /\ accepted' = accepted
  OBVIOUS
<1>2. /\ emails' \in Seq(Email)
      /\ \A i \in DOMAIN emails' :
           \/ i \in DOMAIN emails /\ emails'[i] = emails[i]
           \/ emails'[i].by = by /\ emails'[i].status = status /\ emails'[i].ship = s
              /\ emails'[i].kind = kind /\ emails'[i].at.day = now
  BY EmailAdded
<1>3. \A i \in DOMAIN emails' :
        emails'[i].at.day <= now' /\ emails'[i].kind \in {"correspondence", Mail!KindOf(emails'[i].ship)}
  BY <1>1, <1>2 DEF MailInv
<1>4. LogIsHonest'
  BY <1>1, <1>2 DEF MailInv, LogIsHonest, Mail!LogIsHonest
<1>5. sender' \in [Senders -> Mailing]
  <2>1. Mail!Rest \in Mailing
    BY DEF Mailing
  <2> QED BY <2>1 DEF MailInv
<1>6. ASSUME NEW r \in Senders PROVE Sound(r)'
  <2> SUFFICES ASSUME Mail!Busy(r)', r # Nothing PROVE Sound(r)'
    BY DEF Sound
  <2>1. r # by /\ sender'[r] = sender[r]
    BY DEF Mail!Busy, MailInv
  <2>2. Sound(r) /\ Mail!Busy(r)
    BY <2>1 DEF MailInv, Mail!Busy, Mail!Rest
  <2> QED BY <1>1, <1>2, <2>1, <2>2 DEF Sound
<1> QED BY <1>1, <1>2, <1>3, <1>4, <1>5, <1>6 DEF MailInv, Mail!Fields, Mail!KindOf

\* A request of the mail moves on.
LEMMA RequestMoves ==
  ASSUME MailInv, NEW r \in Senders, NEW x \in Mailing, sender' = [sender EXCEPT ![r] = x],
         Sound(r)',
         \A q \in Senders \ {r} : q \in accepted' <=> q \in accepted,
         \/ \A i \in DOMAIN emails : emails[i].by # r
         \/ accepted' = accepted \/ r = Nothing,
         UNCHANGED <<now, emails, replies, checklist>>
  PROVE  MailInv'
<1>1. now' = now /\ emails' = emails /\ replies' = replies /\ checklist' = checklist
  OBVIOUS
<1>2. sender' \in [Senders -> Mailing]
  BY DEF MailInv
<1>3. ASSUME NEW q \in Senders PROVE Sound(q)'
  <2>1. CASE q # r
    <3>1. sender'[q] = sender[q] /\ Sound(q)
      BY <2>1 DEF MailInv
    <3> QED BY <1>1, <2>1, <3>1 DEF Sound, Mail!Busy, Mail!Rest
  <2> QED BY <2>1
<1>4. LogIsHonest'
  <2>1. \A i \in DOMAIN emails : emails[i].by \in Senders \cup {Nothing}
    BY RowsAreEmails DEF Email
  <2> QED BY <1>1, <2>1 DEF MailInv, LogIsHonest, Mail!LogIsHonest
<1> QED BY <1>1, <1>2, <1>3, <1>4 DEF MailInv, Mail!Fields, Mail!KindOf

\* A request that starts to send has no row yet, and Gmail has taken nothing of it.
LEMMA StartSendKeeps ==
  ASSUME MailInv, NEW r \in Senders, NEW s \in Shipments, Mail!StartSend(r, s)
  PROVE  MailInv'
<1> DEFINE x == [pc |-> "gmail", ship |-> s]
<1>1. x \in Mailing
  BY DEF Mailing
<1>2. sender' = [sender EXCEPT ![r] = x] /\ r \notin accepted /\ \A i \in DOMAIN emails : emails[i].by # r
  BY DEF Mail!StartSend
<1>3. UNCHANGED <<now, emails, replies, checklist, accepted>>
  BY DEF Mail!StartSend
<1>4. sender'[r] = x /\ x.pc = "gmail"
  BY <1>2 DEF MailInv
<1>5. Sound(r)'
  BY <1>2, <1>3, <1>4 DEF Sound
<1> QED BY <1>1, <1>2, <1>3, <1>5, RequestMoves

\* Gmail answers with the status of the row, or the request has ended.
LEMMA SendGmailKeeps ==
  ASSUME MailInv, NEW r \in Senders, Mail!sendGmail(r)
  PROVE  MailInv'
<1>1. PICK answer \in {"taken", "refused", "lost"}, taken \in BOOLEAN :
        /\ (answer = "taken" => taken) /\ (answer = "refused" => ~taken)
        /\ accepted' = IF taken THEN accepted \cup {r} ELSE accepted
        /\ sender' = [sender EXCEPT ![r] =
              IF Mail!Outcomes(answer) = {} THEN Mail!Rest
              ELSE [pc |-> "record", ship |-> @.ship, status |-> CHOOSE o \in Mail!Outcomes(answer) : TRUE]]
  BY DEF Mail!sendGmail
<1>2. UNCHANGED <<now, emails, replies, checklist>> /\ Mail!Busy(r) /\ sender[r].pc = "gmail"
  BY DEF Mail!sendGmail
<1>3. sender[r] \in [pc : {"gmail"}, ship : Shipments]
  BY <1>2 DEF MailInv, Mailing, Mail!Busy
<1> DEFINE status == IF answer = "taken" THEN "sent" ELSE "failed"
           x == IF answer = "lost" THEN Mail!Rest
                ELSE [pc |-> "record", ship |-> sender[r].ship, status |-> status]
<1>4. /\ answer = "lost" <=> Mail!Outcomes(answer) = {}
      /\ answer # "lost" => (CHOOSE o \in Mail!Outcomes(answer) : TRUE) = status
  BY DEF Mail!Outcomes
<1>5. sender' = [sender EXCEPT ![r] = x]
  BY <1>1, <1>4 DEF MailInv
<1>6. x \in Mailing
  BY <1>3 DEF Mailing
<1>7. \A q \in Senders \ {r} : q \in accepted' <=> q \in accepted
  BY <1>1
<1>8. r # Nothing => r \notin accepted /\ \A i \in DOMAIN emails : emails[i].by # r
  BY <1>2 DEF MailInv, Sound
<1>9. sender'[r] = x
  BY <1>5 DEF MailInv
<1>10. Sound(r)'
  <2>1. CASE answer = "lost"
    BY <1>9, <2>1 DEF Sound, Mail!Busy
  <2>2. CASE answer # "lost"
    <3>1. x.pc = "record" /\ x.status = status
      BY <2>2
    <3>2. r # Nothing => (r \in accepted' <=> answer = "taken")
      BY <1>1, <1>8, <2>2
    <3>3. DOMAIN emails' = DOMAIN emails /\ \A i \in DOMAIN emails : emails'[i] = emails[i]
      BY <1>2
    <3> HIDE DEF x
    <3> QED BY <1>8, <1>9, <3>1, <3>2, <3>3 DEF Sound
  <2> QED BY <2>1, <2>2
<1> HIDE DEF x
<1> QED BY <1>2, <1>5, <1>6, <1>7, <1>8, <1>10, RequestMoves

\* The row is written that a request was about to write, and the request has ended.
LEMMA RecordOutcomeKeeps ==
  ASSUME MailInv, NEW r \in Senders, Mail!RecordOutcome(r)
  PROVE  MailInv'
<1>1. sender[r] \in [pc : {"record"}, ship : Shipments, status : {"sent", "failed"}] /\ Mail!Busy(r)
  BY DEF Mail!RecordOutcome, MailInv, Mailing, Mail!Busy
<1> DEFINE s == sender[r].ship
<1>2. s \in Shipments /\ sender[r].status \in {"sent", "failed", "manual"} /\ sender[r].pc = "record"
  BY <1>1
<1>3. Mail!recordEmail(s, Mail!KindOf(s), sender[r].status, "gmail", r)
  BY DEF Mail!RecordOutcome
<1>4. /\ sender' = [sender EXCEPT ![r] = Mail!Rest]
      /\ UNCHANGED <<now, replies, checklist, accepted>>
  BY DEF Mail!RecordOutcome
<1>5. r # Nothing => sender[r].status = (IF r \in accepted THEN "sent" ELSE "failed")
  BY <1>1, <1>2 DEF MailInv, Sound
<1>6. Mail!KindOf(s) \in {"correspondence", Mail!KindOf(s)} /\ "gmail" \in {"gmail", "manual"}
  OBVIOUS
<1>7. r \in Senders \cup {Nothing}
  OBVIOUS
<1> HIDE DEF s
<1> DEFINE kind == Mail!KindOf(s)
           status == sender[r].status
<1>8. /\ status \in {"sent", "failed", "manual"} /\ kind \in {"correspondence", Mail!KindOf(s)}
      /\ Mail!recordEmail(s, kind, status, "gmail", r)
  BY <1>2, <1>3, <1>6
<1>9. r # Nothing => status = (IF r \in accepted THEN "sent" ELSE "failed")
  BY <1>5
<1> HIDE DEF kind, status
<1> QED BY <1>2, <1>4, <1>6, <1>7, <1>8, <1>9, EmailKeeps

\* Of what others do, only the chase and the checklist are kept.
LEMMA LogReplyKeeps ==
  ASSUME MailInv, NEW s \in Shipments, NEW form \in DOMAIN Mail!Forms, NEW day \in 0..now,
         Mail!logReply(s, Mail!Stamp(form, day))
  PROVE  MailInv'
<1>1. now \in Nat
  BY DEF MailInv
<1>2. now' = now /\ emails' = emails /\ accepted' = accepted /\ sender' = sender /\ checklist' = checklist
  BY DEF Mail!logReply
<1> DEFINE reply == [ship |-> s, at |-> [day |-> day, form |-> form]]
<1>3. form \in 1..3
  BY DEF Mail!Forms
<1>4. [day |-> day, form |-> form] \in Stamps(1..3)
  BY <1>1, <1>3 DEF Stamps
<1>5. replies' = replies \cup {reply}
  BY DEF Mail!logReply, Mail!Stamp
<1>6. reply \in [ship : Shipments, at : Stamps(1..3)] /\ reply.at.day <= now
  BY <1>1, <1>4
<1> HIDE DEF reply
<1>7. replies' \subseteq [ship : Shipments, at : Stamps(1..3)] /\ \A p \in replies' : p.at.day <= now'
  BY <1>2, <1>5, <1>6 DEF MailInv
<1>8. \A r \in Senders : Sound(r)'
  BY <1>2 DEF MailInv, Sound, Mail!Busy, Mail!Rest
<1>9. LogIsHonest'
  BY <1>2 DEF MailInv, LogIsHonest, Mail!LogIsHonest
<1> QED BY <1>2, <1>7, <1>8, <1>9 DEF MailInv, Mail!Fields, Mail!KindOf

\* A day passes.
LEMMA TickKeeps ==
  ASSUME MailInv, Mail!Tick
  PROVE  MailInv'
<1>1. now' = now + 1 /\ now < MaxDay
  BY DEF Mail!Tick
<1>2. /\ emails' = emails /\ accepted' = accepted /\ sender' = sender
      /\ checklist' = checklist /\ replies' = replies
  BY DEF Mail!Tick
<1>3. now' \in Nat /\ (HasDays => now' <= MaxDay)
  BY <1>1 DEF MailInv, HasDays
<1>4. \A i \in DOMAIN emails : emails[i].at.day <= now'
  <2>1. \A i \in DOMAIN emails : emails[i].at.day \in Nat /\ emails[i].at.day <= now
    BY RowsAreEmails DEF Email, Stamps, MailInv
  <2> QED BY <1>1, <2>1 DEF MailInv
<1>5. \A reply \in replies : reply.at.day <= now'
  <2>1. \A reply \in replies : reply.at.day \in Nat /\ reply.at.day <= now
    BY DEF MailInv, Stamps
  <2> QED BY <1>1, <2>1 DEF MailInv
<1>6. \A r \in Senders : Sound(r)'
  BY <1>2 DEF MailInv, Sound, Mail!Busy, Mail!Rest
<1>7. LogIsHonest'
  BY <1>2 DEF MailInv, LogIsHonest, Mail!LogIsHonest
<1> QED BY <1>2, <1>3, <1>4, <1>5, <1>6, <1>7 DEF MailInv, Mail!Fields, Mail!KindOf, HasDays

\* A checklist is a return's.
LEMMA ChecklistKeeps ==
  ASSUME MailInv, Mail!ChecklistNext
  PROVE  MailInv'
<1>1. PICK s \in Shipments :
        \/ \E filled, cleared \in SUBSET (Mail!Fields \ {"import_mrn"}) : Mail!postChecklist(s, filled, cleared)
        \/ Mail!importProof(s)
  BY DEF Mail!ChecklistNext
<1>2. /\ Direction[s] = "import"
      /\ now' = now /\ emails' = emails /\ accepted' = accepted /\ sender' = sender /\ replies' = replies
  BY <1>1 DEF Mail!postChecklist, Mail!importProof
<1>3. \E fields \in SUBSET Mail!Fields : checklist' = [checklist EXCEPT ![s] = fields]
  <2>1. checklist[s] \in SUBSET Mail!Fields
    BY DEF MailInv
  <2>2. CASE Mail!importProof(s)
    BY <2>1, <2>2 DEF Mail!importProof, Mail!Fields
  <2>3. ASSUME NEW filled \in SUBSET (Mail!Fields \ {"import_mrn"}), NEW cleared, Mail!postChecklist(s, filled, cleared)
        PROVE  \E fields \in SUBSET Mail!Fields : checklist' = [checklist EXCEPT ![s] = fields]
    BY <2>1, <2>3 DEF Mail!postChecklist
  <2> QED BY <1>1, <2>2, <2>3
<1>4. /\ checklist' \in [Shipments -> SUBSET Mail!Fields]
      /\ \A c \in Shipments : Direction[c] = "export" => checklist'[c] = {}
  BY <1>2, <1>3 DEF MailInv
<1>5. \A r \in Senders : Sound(r)'
  BY <1>2 DEF MailInv, Sound, Mail!Busy, Mail!Rest
<1>6. LogIsHonest'
  BY <1>2 DEF MailInv, LogIsHonest, Mail!LogIsHonest
<1> QED BY <1>2, <1>4, <1>5, <1>6 DEF MailInv, Mail!Fields, Mail!KindOf

\* What is done about one shipment.
LEMMA MailKeeps ==
  ASSUME MailInv, NEW s \in Shipments, Mail!Mail(s)
  PROVE  MailInv'
<1>1. CASE Mail!SetLines(s)
  BY <1>1, MailSame DEF Mail!SetLines
<1>2. ASSUME NEW r \in Senders, Mail!StartSend(r, s) PROVE MailInv'
  BY <1>2, StartSendKeeps
<1>3. CASE Mail!markSent(s)
  <2>1. Mail!recordEmail(s, Mail!KindOf(s), "manual", "manual", Nothing)
    BY <1>3 DEF Mail!markSent
  <2>2. sender' = sender /\ UNCHANGED <<now, replies, checklist, accepted>>
    BY <1>3 DEF Mail!markSent
  <2> QED BY <2>1, <2>2, EmailKeeps
<1>4. ASSUME NEW status \in {"sent", "failed", "manual"}, Mail!correspondence(s, status) PROVE MailInv'
  <2>1. PICK provider \in {"gmail", "manual"} :
          Mail!recordEmail(s, "correspondence", status, provider, Nothing)
    BY <1>4 DEF Mail!correspondence
  <2>2. sender' = sender /\ UNCHANGED <<now, replies, checklist, accepted>>
    BY <1>4 DEF Mail!correspondence
  <2> QED BY <2>1, <2>2, EmailKeeps
<1>5. ASSUME NEW form \in DOMAIN Mail!Forms, NEW day \in 0..now, Mail!logReply(s, Mail!Stamp(form, day))
      PROVE  MailInv'
  BY <1>5, LogReplyKeeps
<1> QED BY <1>1, <1>2, <1>3, <1>4, <1>5 DEF Mail!Mail

\* No step of the mail disturbs its invariant.
LEMMA MailNextKeeps == MailInv /\ [Mail!Next]_(Mail!vars) => MailInv'
<1> SUFFICES ASSUME MailInv, [Mail!Next]_(Mail!vars) PROVE MailInv'
  OBVIOUS
<1>1. ASSUME NEW r \in Senders, Mail!Abandon(r) PROVE MailInv'
  <2>1. sender' = [sender EXCEPT ![r] = Mail!Rest] /\ accepted' = accepted
        /\ UNCHANGED <<now, emails, replies, checklist>>
    BY <1>1 DEF Mail!Abandon
  <2>2. Mail!Rest \in Mailing
    BY DEF Mailing
  <2>3. Sound(r)'
    BY <2>1 DEF MailInv, Sound, Mail!Busy
  <2> QED BY <2>1, <2>2, <2>3, RequestMoves
<1>2. CASE Mail!Next
  <2>1. CASE Mail!MailNext
    BY <2>1, <1>1, TickKeeps, MailKeeps, SendGmailKeeps, RecordOutcomeKeeps DEF Mail!MailNext, Mail!Sending
  <2> QED BY <1>2, <2>1, ChecklistKeeps DEF Mail!Next
<1>3. CASE UNCHANGED Mail!vars
  BY <1>3, MailSame DEF Mail!vars
<1> QED BY <1>2, <1>3

\* The mail's invariant holds whatever the order in which requests send, record their
\* outcome and die, managers enter correspondence and replies, and days pass.
THEOREM MailInductive == Mail!Spec => []MailInv
BY MailInit, MailNextKeeps, PTL DEF Mail!Spec

\* A send that the system has on record as sent was taken by Gmail, and one on record as
\* failed never was, for any number of requests and shipments (recordEmail after
\* sendGmail, routes/opr.ts).
THEOREM MailLogIsHonest == Mail!Spec => []LogIsHonest
<1>1. MailInv => LogIsHonest
  BY DEF MailInv
<1> QED BY <1>1, MailInductive, PTL

\* The log, the replies and the checklists have their types: no row is of the wrong kind
\* for the direction of its shipment, no reply is of a later day than today, and no
\* checklist of an export is ever complete.
THEOREM MailTypes ==
  ASSUME HasDays
  PROVE  Mail!Spec => []Mail!TypeOK
<1>1. ASSUME MailInv PROVE Mail!TypeOK
  <2>1. now \in 0..MaxDay
    BY <1>1 DEF MailInv, HasDays
  <2>2. \A i \in DOMAIN emails : emails[i].status \in {"sent", "failed", "manual"}
    BY <1>1, RowsAreEmails DEF Email
  <2>3. \A s \in Shipments : Direction[s] = "export" => ~Mail!Complete(s)
    BY <1>1 DEF MailInv, Mail!Complete, Mail!Outstanding, Mail!Fields
  <2>4. \A s \in Shipments : Mail!Outstanding(s) \in SUBSET Mail!Fields
    BY DEF Mail!Outstanding
  <2> QED BY <1>1, <2>1, <2>2, <2>3, <2>4 DEF MailInv, Mail!TypeOK
<1> QED BY <1>1, MailInductive, PTL

-----------------------------------------------------------------------------
(* The chase.                                                              *)

\* Of five days in a row three are working days.
LEMMA ThreeWorkingDays ==
  ASSUME NEW last \in Nat
  PROVE  \E a, b, c \in (last + 1)..(last + 5) :
           /\ a < b /\ b < c
           /\ Mail!isWorkingDay(a) /\ Mail!isWorkingDay(b) /\ Mail!isWorkingDay(c)
<1> DEFINE w == last % 7
<1>1. w \in 0..6 /\ \E k \in Nat : last = 7 * k + w
  OBVIOUS
<1>2. PICK k \in Nat : last = 7 * k + w
  BY <1>1
<1> HIDE DEF w
<1>3. CASE w \in 0..1
  <2>1. /\ Mail!isWorkingDay(last + 1) /\ Mail!isWorkingDay(last + 2) /\ Mail!isWorkingDay(last + 3)
    BY <1>2, <1>3 DEF Mail!isWorkingDay
  <2> QED BY <2>1
<1>4. CASE w = 2
  <2>1. /\ Mail!isWorkingDay(last + 1) /\ Mail!isWorkingDay(last + 2) /\ Mail!isWorkingDay(last + 5)
    BY <1>2, <1>4 DEF Mail!isWorkingDay
  <2> QED BY <2>1
<1>5. CASE w = 3
  <2>1. /\ Mail!isWorkingDay(last + 1) /\ Mail!isWorkingDay(last + 4) /\ Mail!isWorkingDay(last + 5)
    BY <1>2, <1>5 DEF Mail!isWorkingDay
  <2> QED BY <2>1
<1>6. CASE w \in 4..6
  <2>1. /\ Mail!isWorkingDay(last + 3) /\ Mail!isWorkingDay(last + 4) /\ Mail!isWorkingDay(last + 5)
    BY <1>2, <1>6 DEF Mail!isWorkingDay
  <2> QED BY <2>1
<1> QED BY <1>1, <1>3, <1>4, <1>5, <1>6

\* Three different elements are three.
LEMMA ThreeAre ==
  ASSUME NEW S, IsFiniteSet(S), NEW a \in S, NEW b \in S, NEW c \in S, a # b, b # c, a # c
  PROVE  Cardinality(S) \in Nat /\ Cardinality(S) >= 3
<1>1. IsFiniteSet({a}) /\ Cardinality({a}) = 1
  BY FS_Singleton
<1>2. IsFiniteSet({a} \cup {b}) /\ Cardinality({a} \cup {b}) = 2
  <2>1. b \notin {a}
    OBVIOUS
  <2> DEFINE A == {a}
  <2> HIDE DEF A
  <2>2. IsFiniteSet(A \cup {b}) /\ Cardinality(A \cup {b}) = Cardinality(A) + 1
    BY <1>1, <2>1, FS_AddElement DEF A
  <2> QED BY <1>1, <2>2 DEF A
<1>3. IsFiniteSet(({a} \cup {b}) \cup {c}) /\ Cardinality(({a} \cup {b}) \cup {c}) = 3
  <2>1. c \notin {a} \cup {b}
    OBVIOUS
  <2> DEFINE A == {a} \cup {b}
  <2> HIDE DEF A
  <2>2. IsFiniteSet(A \cup {c}) /\ Cardinality(A \cup {c}) = Cardinality(A) + 1
    BY <1>2, <2>1, FS_AddElement DEF A
  <2> QED BY <1>2, <2>2 DEF A
<1>4. (({a} \cup {b}) \cup {c}) \in SUBSET S
  OBVIOUS
<1>5. Cardinality(S) \in Nat
  BY FS_CardinalityType
<1> QED BY <1>3, <1>4, <1>5, FS_Subset

\* Three working days pass in any five days, and in no less than three.
LEMMA WorkingDaysCount ==
  ASSUME NEW from \in Nat, NEW to \in Nat
  PROVE  LET n == Mail!workingDaysBetween(from, to) IN
         /\ to - from >= 5 => n >= 3
         /\ n >= 3 => to - from >= 3
<1> DEFINE D == { day \in (from + 1)..to : Mail!isWorkingDay(day) }
<1>1. Mail!workingDaysBetween(from, to) = Cardinality(D)
  BY DEF Mail!workingDaysBetween, Mail!Cardinality, Cardinality
<1>2. D \in SUBSET ((from + 1)..to)
  OBVIOUS
<1>3. IsFiniteSet((from + 1)..to) /\ Cardinality((from + 1)..to) = IF from + 1 > to THEN 0 ELSE to - from
  <2>1. from + 1 \in Int /\ to \in Int /\ to - (from + 1) + 1 = to - from
    OBVIOUS
  <2> QED BY <2>1, FS_Interval
<1>4. IsFiniteSet(D) /\ Cardinality(D) <= Cardinality((from + 1)..to) /\ Cardinality(D) \in Nat
  BY <1>2, <1>3, FS_Subset, FS_CardinalityType
<1>5. Cardinality(D) >= 3 => to - from >= 3
  BY <1>3, <1>4
<1>6. ASSUME to - from >= 5 PROVE Cardinality(D) >= 3
  <2>1. PICK a, b, c \in (from + 1)..(from + 5) :
          /\ a < b /\ b < c
          /\ Mail!isWorkingDay(a) /\ Mail!isWorkingDay(b) /\ Mail!isWorkingDay(c)
    BY ThreeWorkingDays
  <2>2. a \in D /\ b \in D /\ c \in D /\ a # b /\ b # c /\ a # c
    BY <1>6, <2>1
  <2> HIDE DEF D
  <2> QED BY <1>4, <2>2, ThreeAre
<1> HIDE DEF D
<1> QED BY <1>1, <1>5, <1>6

\* Of the days up to a day one is the last.
LEMMA LastOf ==
  ASSUME NEW last \in Nat, NEW D \in SUBSET (0..last), D # {}
  PROVE  \E d \in D : \A e \in D : e <= d
<1> DEFINE gaps == { last - d : d \in D }
<1>1. \A x \in 0..last : last - x \in Nat
  OBVIOUS
<1>2. gaps \in SUBSET Nat /\ gaps # {}
  BY <1>1
<1>3. PICK n \in gaps : \A m \in gaps : n <= m
  <2> HIDE DEF gaps
  <2>1. \E n \in gaps : \A m \in gaps : <<m, n>> \notin OpToRel(<, Nat)
    BY <1>2, NatLessThanWellFounded, WFMin
  <2>2. PICK n \in gaps : \A m \in gaps : ~(m < n)
    BY <1>2, <2>1 DEF OpToRel
  <2>3. \A m \in gaps : n <= m
    BY <1>2, <2>2
  <2> QED BY <2>3
<1>4. PICK d \in D : n = last - d
  BY <1>3
<1>5. ASSUME NEW e \in D PROVE e <= d
  <2>1. n <= last - e
    BY <1>3
  <2> QED BY <1>4, <2>1
<1> QED BY <1>5

\* The last send of a shipment is of the last of the days of its sends: all stamps of the
\* log have one form.
LEMMA LastSendIsLast ==
  ASSUME MailInv, NEW s \in Shipments, Mail!Sends(s) # {}
  PROVE  /\ Mail!LastSend(s).day = Mail!Max({ at.day : at \in Mail!Sends(s) })
         /\ Mail!LastSend(s) \in Stamps({2})
         /\ Mail!LastSend(s).day <= now
<1> DEFINE S == Mail!Sends(s)
           D == { at.day : at \in S }
<1>1. \A at \in S : at \in Stamps({2}) /\ at.day \in 0..now
  <2>1. \A i \in DOMAIN emails : emails[i].at \in Stamps({2}) /\ emails[i].at.day <= now
    BY RowsAreEmails DEF MailInv, Email
  <2>2. now \in Nat
    BY DEF MailInv
  <2> QED BY <2>1, <2>2 DEF Mail!Sends, Stamps
<1>2. D \in SUBSET (0..now) /\ D # {} /\ now \in Nat
  BY <1>1 DEF MailInv
<1> HIDE DEF S
<1>3. PICK d \in D : \A e \in D : e <= d
  <2> HIDE DEF D
  <2> QED BY <1>2, LastOf
<1>4. \A e \in D : (\A f \in D : e >= f) => e = d
  <2>1. D \in SUBSET Nat
    BY <1>2
  <2> HIDE DEF D
  <2> QED BY <2>1, <1>3
<1>5. Mail!Max(D) = d
  <2>1. D \in SUBSET Nat
    BY <1>2
  <2> HIDE DEF D
  <2>2. \A f \in D : d >= f
    BY <1>3, <2>1
  <2> QED BY <1>3, <1>4, <2>2 DEF Mail!Max
<1>6. \A a, b \in S : Mail!Later(b, a) <=> b.day > a.day
  BY <1>1 DEF Mail!Later, Stamps
<1>7. PICK a \in S : a.day = d
  BY <1>3
<1>8. \A b \in S : ~Mail!Later(b, a)
  <2>1. \A b \in S : b.day \in D /\ b.day \in Nat
    BY <1>1
  <2>2. a.day \in Nat /\ \A b \in S : b.day <= a.day
    BY <2>1, <1>3, <1>7
  <2> QED BY <2>1, <2>2, <1>6
<1>9. /\ Mail!LastSend(s) \in S
      /\ \A b \in S : ~Mail!Later(b, Mail!LastSend(s))
  BY <1>7, <1>8 DEF Mail!LastSend, S
<1>10. Mail!LastSend(s).day = d
  <2>1. Mail!LastSend(s).day \in Nat /\ a.day \in Nat
    BY <1>1, <1>9
  <2>2. ~(d > Mail!LastSend(s).day)
    BY <1>6, <1>7, <1>9
  <2>3. Mail!LastSend(s).day <= d
    BY <1>3, <1>9
  <2> QED BY <1>7, <2>1, <2>2, <2>3
<1> QED BY <1>1, <1>5, <1>9, <1>10 DEF S

\* A send that nothing was entered about for five days is flagged, and none is flagged
\* before the third day nor once a reply of a later day is entered, for every calendar
\* (computeFollowUpStatus and workingDaysBetween, lib/oprComms.ts).
THEOREM MailChasedWhenDue == Mail!Spec => []ChasedWhenDue
<1>1. ASSUME MailInv PROVE ChasedWhenDue
  <2> SUFFICES ASSUME NEW s \in Shipments, Mail!Sends(s) # {}
               PROVE  LET from(day) == { reply \in replies : reply.ship = s /\ reply.at.day >= day }
                          last == Mail!Max({ at.day : at \in Mail!Sends(s) })
                      IN  /\ now - last >= 5 /\ from(last) = {} => Mail!Flagged(s)
                          /\ Mail!Flagged(s) => now - last >= 3 /\ from(last + 1) = {}
    BY DEF ChasedWhenDue, Mail!ChasedWhenDue
  <2> DEFINE last == Mail!Max({ at.day : at \in Mail!Sends(s) })
  <2>1. /\ Mail!LastSend(s).day = last /\ Mail!LastSend(s).form = 2
        /\ last \in Nat /\ now \in Nat
    BY <1>1, LastSendIsLast DEF Stamps, MailInv
  <2> HIDE DEF last
  <2>2. Mail!Flagged(s) <=> ~Mail!ReplySince(s) /\ Mail!workingDaysBetween(last, now) >= 3
    BY <2>1 DEF Mail!Flagged, Mail!FOLLOW_UP_THRESHOLD_WORKING_DAYS
  <2>3. \A reply \in replies : reply.at.day \in Nat /\ reply.at.form \in 1..3
    BY <1>1 DEF MailInv, Stamps
  <2>4. Mail!ReplySince(s) =>
          \E reply \in replies : reply.ship = s /\ reply.at.day >= last
    BY <2>1, <2>3 DEF Mail!ReplySince, Mail!Later
  <2>5. \A reply \in replies : reply.ship = s /\ reply.at.day >= last + 1 => Mail!ReplySince(s)
    BY <2>1, <2>3 DEF Mail!ReplySince, Mail!Later
  <2>6. /\ now - last >= 5 => Mail!workingDaysBetween(last, now) >= 3
        /\ Mail!workingDaysBetween(last, now) >= 3 => now - last >= 3
    BY <2>1, WorkingDaysCount
  <2> QED BY <2>2, <2>4, <2>5, <2>6 DEF last
<1> QED BY <1>1, MailInductive, PTL

-----------------------------------------------------------------------------
(* The labels: what holds of the tables and of the requests.               *)

LabelRow(x) ==
  \E s, g, t, p, q : x = [sku |-> s, grade |-> g, status |-> t, pushed |-> p, printed |-> q]

\* There are finitely many devices, NULL is no row, and corrections are made one at a time.
LabelsAtWork ==
  /\ IsFiniteSet(Devices)
  /\ ~LabelRow(Nothing)
  /\ OneCorrection

Job == [dev : Devices, status : {"queued", "sent", "invalidated"}]

JobsOf(d) == { j \in DOMAIN jobs : jobs[j].dev = d }

\* The label is that of the SKU, or comes, or is not looked for.
Settled(d) == label[d] = row[d].sku \/ spool[d] > 0 \/ d \in excused

\* A device that may do without the job j.
Spared(d, j) == Settled(d) \/ \E k \in Label!Queued(d) : k # j

CaughtUp(d) == JobsOf(d) # {} => Settled(d) \/ Label!Queued(d) # {}

\* The requests, by what they carry.
Regrade(x) ==
  /\ \E pc, grade, sku, regraded, flagged, looks, todo, read :
       x = [op |-> "grade", pc |-> pc, grade |-> grade, sku |-> sku, regraded |-> regraded,
            flagged |-> flagged, looks |-> looks, todo |-> todo, jobs |-> read]
  /\ x.pc \in {"jobs", "write"}
Correct(x) ==
  /\ \E pc, grade, sku, looks, todo, read, cascade :
       x = [op |-> "correct", pc |-> pc, grade |-> grade, sku |-> sku, looks |-> looks,
            todo |-> todo, jobs |-> read, cascade |-> cascade]
  /\ x.pc \in {"jobs", "write", "line"}
Send(x) ==
  /\ \E pc, todo : x = [op |-> "send", pc |-> pc, todo |-> todo]
  /\ x.pc \in {"dispatch", "mark"}
Mark(x) == \E todo : x = [op |-> "mark", pc |-> "by_hand", todo |-> todo]

PrintRequest(x) == Regrade(x) \/ Correct(x) \/ Send(x) \/ Mark(x)

\* A correction that is to be written knows every queued job of a device of which it
\* knows any; and the SKU stays of a device whose jobs it did not look for.
Prepared(x) ==
  /\ x.jobs = [d \in DOMAIN x.sku |-> x.jobs[d]]
  /\ DOMAIN x.sku \subseteq Label!Here
  /\ x.todo \subseteq DOMAIN x.sku
  /\ \A d \in DOMAIN x.sku :
       /\ x.jobs[d] \subseteq JobsOf(d)
       /\ x.jobs[d] # {} => Label!Queued(d) \subseteq x.jobs[d]
       /\ d \notin x.looks => x.sku[d] = row[d].sku

FirstJob(x) == CHOOSE j \in x.todo : \A k \in x.todo : j <= k

\* What a request relies on: that the job it is about to mark as sent is not needed.
Stands(x) ==
  /\ x.pc \in {"jobs", "write"} => Prepared(x)
  /\ x.op \in {"send", "mark"} => x.todo # {} /\ x.todo \subseteq DOMAIN jobs
  /\ x.pc = "mark" => Spared(jobs[FirstJob(x)].dev, FirstJob(x))

LabelTables ==
  /\ row = [d \in Devices |-> row[d]]
  /\ \A d \in Devices : row[d] = Nothing \/ LabelRow(row[d])
  /\ spool \in [Devices -> {0, 1}]
  /\ label = [d \in Devices |-> label[d]]
  /\ jobs \in Seq(Job)
  /\ queuing \subseteq Devices
  /\ \A j \in DOMAIN jobs : row[jobs[j].dev] # Nothing
  /\ \A d \in queuing : row[d] # Nothing /\ JobsOf(d) = {}
  /\ \A d \in Devices : \A j, k \in Label!Queued(d) : j = k
  /\ \A d \in Devices : CaughtUp(d)

OneAtWork ==
  \A q, r \in Requests :
    /\ Label!Busy(q) /\ printer[q].op \in {"grade", "correct"}
    /\ Label!Busy(r) /\ printer[r].op \in {"grade", "correct"}
    => q = r

\* The labels' inductive invariant.
LabelInv ==
  /\ LabelTables
  /\ printer = [r \in Requests |-> printer[r]]
  /\ \A r \in Requests : \A x : Label!Busy(r) /\ x = printer[r] => PrintRequest(x) /\ Stands(x)
  /\ OneAtWork

\* The labels' invariant holds what is claimed of them.
LEMMA LabelInvGives == LabelInv => LabelsCatchUp
<1> SUFFICES ASSUME LabelInv, NEW d \in Label!Here, \E j \in DOMAIN jobs : jobs[j].dev = d,
                    label[d] # row[d].sku
             PROVE  Label!Queued(d) # {} \/ spool[d] > 0 \/ d \in excused
  BY DEF LabelsCatchUp, Label!LabelsCatchUp
<1> QED BY DEF LabelInv, LabelTables, CaughtUp, JobsOf, Settled, Label!Here

\* At first nothing is received and no job is queued.
LEMMA LabelInit == Label!Init => LabelInv
<1> SUFFICES ASSUME Label!Init PROVE LabelInv
  OBVIOUS
<1>1. jobs \in Seq(Job) /\ DOMAIN jobs = {}
  BY DEF Label!Init
<1>2. \A r \in Requests : ~Label!Busy(r)
  BY DEF Label!Init, Label!Busy
<1>3. \A d \in Devices : JobsOf(d) = {} /\ Label!Queued(d) = {}
  BY <1>1 DEF JobsOf, Label!Queued
<1>4. LabelTables
  BY <1>1, <1>3 DEF Label!Init, LabelTables, CaughtUp
<1> QED BY <1>2, <1>4 DEF Label!Init, LabelInv, OneAtWork

\* The print jobs one by one, and which are queued for a device.
LEMMA JobFacts ==
  ASSUME LabelTables
  PROVE  /\ DOMAIN jobs = 1..Len(jobs) /\ Len(jobs) \in Nat
         /\ \A j \in DOMAIN jobs : jobs[j] \in Job
         /\ \A d : Label!Queued(d) = { j \in DOMAIN jobs : jobs[j].dev = d /\ jobs[j].status = "queued" }
<1>1. jobs \in Seq(Job)
  BY DEF LabelTables
<1>2. DOMAIN jobs = 1..Len(jobs) /\ Len(jobs) \in Nat /\ \A j \in DOMAIN jobs : jobs[j] \in Job
  BY <1>1
<1>3. \A d : \A x \in Job : x = [dev |-> d, status |-> "queued"] <=> x.dev = d /\ x.status = "queued"
  BY DEF Job
<1> QED BY <1>2, <1>3 DEF Label!Queued, Label!NewJob

\* The sequence of a finite set's elements has each of them at one place.
LEMMA SeqOfSet ==
  ASSUME NEW S, IsFiniteSet(S)
  PROVE  /\ Label!SetToSeq(S) \in Seq(S)
         /\ \A x \in S : \E i \in DOMAIN Label!SetToSeq(S) : Label!SetToSeq(S)[i] = x
         /\ \A i, j \in DOMAIN Label!SetToSeq(S) : Label!SetToSeq(S)[i] = Label!SetToSeq(S)[j] => i = j
<1> DEFINE n == Cardinality(S)
           f == Label!SetToSeq(S)
<1>1. n \in Nat /\ Bijection(1..n, S) # {}
  BY FS_CardinalityType DEF ExistsBijection
<1>2. f = CHOOSE g \in [1..n -> S] : \A a, b \in DOMAIN g : g[a] = g[b] => a = b
  BY DEF Label!SetToSeq, Label!IsInjective, Label!Cardinality, Cardinality
<1>3. \E g \in [1..n -> S] : \A a, b \in DOMAIN g : g[a] = g[b] => a = b
  BY <1>1 DEF Bijection, Injection, IsInjective
<1>4. f \in [1..n -> S] /\ \A a, b \in DOMAIN f : f[a] = f[b] => a = b
  <2> HIDE DEF f, n
  <2> QED BY <1>2, <1>3
<1>5. f \in Injection(1..n, S)
  <2> HIDE DEF f, n
  <2> QED BY <1>4 DEF Injection, IsInjective
<1>6. IsFiniteSet(1..n) /\ Cardinality(1..n) = n
  <2>1. IsFiniteSet(1..n) /\ Cardinality(1..n) = IF 1 > n THEN 0 ELSE n - 1 + 1
    <3> HIDE DEF n
    <3> QED BY <1>1, FS_Interval
  <2> HIDE DEF n
  <2> QED BY <1>1, <2>1
<1>7. f \in Surjection(1..n, S)
  <2> HIDE DEF f
  <2> QED BY <1>5, <1>6, FS_Injection
<1> HIDE DEF f, n
<1>8. f \in Seq(S) /\ DOMAIN f = 1..n
  BY <1>1, <1>4
<1>9. \A x \in S : \E i \in DOMAIN f : f[i] = x
  BY <1>7, <1>8 DEF Surjection
<1> QED BY <1>4, <1>8, <1>9 DEF f

\* The jobs after a correction's batch: those it knew of are invalid, the others as they
\* were, and one is queued for each device of which it knew any.
LEMMA Requeue ==
  ASSUME LabelsAtWork, LabelTables, NEW r \in Requests, Prepared(printer[r]), jobs' = Label!Requeued(r)
  PROVE  LET x == printer[r]
             E == { d \in DOMAIN x.sku : x.jobs[d] # {} }
         IN
         /\ jobs' \in Seq(Job)
         /\ DOMAIN jobs \subseteq DOMAIN jobs'
         /\ \A j \in DOMAIN jobs :
              /\ jobs'[j].dev = jobs[j].dev
              /\ jobs[j].dev \notin E => jobs'[j].status = jobs[j].status
              /\ jobs[j].dev \in E => jobs'[j].status # "queued"
         /\ \A d \in E : \E j \in DOMAIN jobs' \ DOMAIN jobs : jobs'[j] = Label!NewJob(d)
         /\ \A j \in DOMAIN jobs' \ DOMAIN jobs : \E d \in E : jobs'[j] = Label!NewJob(d)
         /\ \A j, k \in DOMAIN jobs' \ DOMAIN jobs : jobs'[j] = jobs'[k] => j = k
<1> DEFINE x == printer[r]
           E == { d \in DOMAIN x.sku : x.jobs[d] # {} }
           S == { Label!NewJob(d) : d \in E }
           outdated == UNION { x.jobs[d] : d \in DOMAIN x.jobs }
           kept == [ j \in DOMAIN jobs |->
                       IF j \in outdated THEN [jobs[j] EXCEPT !.status = "invalidated"] ELSE jobs[j] ]
           anew == Label!SetToSeq(S)
<1>1. DOMAIN x.jobs = DOMAIN x.sku /\ DOMAIN x.sku \subseteq Devices
  BY DEF Prepared, Label!Here
<1>2. jobs' = kept \o anew
  BY <1>1 DEF Label!Requeued
<1>3. IsFiniteSet(E) /\ E \in SUBSET Devices
  <2>1. E \in SUBSET Devices
    BY <1>1
  <2> QED BY <2>1, FS_Subset DEF LabelsAtWork
<1>4. IsFiniteSet(S)
  <2> HIDE DEF E
  <2> DEFINE f == [d \in E |-> Label!NewJob(d)]
  <2>1. f \in Surjection(E, S)
    BY DEF Surjection
  <2> HIDE DEF f, S
  <2> QED BY <1>3, <2>1, FS_Surjection
<1>5. S \subseteq Job
  BY <1>3 DEF Job, Label!NewJob
<1>6. /\ anew \in Seq(S)
      /\ \A y \in S : \E i \in DOMAIN anew : anew[i] = y
      /\ \A i, j \in DOMAIN anew : anew[i] = anew[j] => i = j
  <2> HIDE DEF S
  <2> QED BY <1>4, SeqOfSet
<1>7. DOMAIN jobs = 1..Len(jobs) /\ Len(jobs) \in Nat /\ \A j \in DOMAIN jobs : jobs[j] \in Job
  BY JobFacts
<1>8. \A j \in DOMAIN jobs : kept[j] \in Job /\ kept[j].dev = jobs[j].dev
  BY <1>7 DEF Job
<1>9. kept \in Seq(Job) /\ Len(kept) = Len(jobs)
  <2>1. kept \in [1..Len(jobs) -> Job]
    BY <1>7, <1>8
  <2> HIDE DEF kept
  <2> QED BY <1>7, <2>1
<1>10. \A j \in DOMAIN jobs :
         /\ jobs[j].dev \notin E => kept[j].status = jobs[j].status
         /\ jobs[j].dev \in E => kept[j].status # "queued"
  <2> SUFFICES ASSUME NEW j \in DOMAIN jobs
               PROVE  /\ jobs[j].dev \notin E => kept[j].status = jobs[j].status
                      /\ jobs[j].dev \in E => kept[j].status # "queued"
    OBVIOUS
  <2>1. j \in outdated => jobs[j].dev \in E
    <3>1. \A d \in DOMAIN x.sku : x.jobs[d] \subseteq JobsOf(d)
      BY DEF Prepared
    <3> QED BY <1>1, <3>1 DEF JobsOf
  <2>2. jobs[j].dev \in E /\ jobs[j].status = "queued" => j \in outdated
    <3>1. \A d \in DOMAIN x.sku : x.jobs[d] # {} => Label!Queued(d) \subseteq x.jobs[d]
      BY DEF Prepared
    <3>2. jobs[j].status = "queued" => j \in Label!Queued(jobs[j].dev)
      BY JobFacts
    <3> QED BY <1>1, <3>1, <3>2
  <2> HIDE DEF outdated, E
  <2> QED BY <1>7, <2>1, <2>2 DEF Job
<1> HIDE DEF kept, anew, outdated, S
<1>11. anew \in Seq(Job) /\ DOMAIN anew = 1..Len(anew) /\ Len(anew) \in Nat
  BY <1>5, <1>6
<1>12. /\ jobs' \in Seq(Job) /\ DOMAIN jobs' = 1..(Len(jobs) + Len(anew))
       /\ \A j \in DOMAIN jobs : jobs'[j] = kept[j]
       /\ \A i \in DOMAIN anew : jobs'[Len(jobs) + i] = anew[i]
  <2>1. kept \in Seq(Job) /\ anew \in Seq(Job)
    BY <1>9, <1>11
  <2>2. kept \o anew \in Seq(Job) /\ Len(kept \o anew) = Len(kept) + Len(anew)
    BY <2>1
  <2>3. \A i \in 1..Len(kept) : (kept \o anew)[i] = kept[i]
    BY <2>1
  <2>4. \A i \in 1..Len(anew) : (kept \o anew)[Len(kept) + i] = anew[i]
    BY <2>1
  <2> QED BY <1>2, <1>7, <1>9, <1>11, <2>2, <2>3, <2>4
<1>13. \A j \in DOMAIN jobs' \ DOMAIN jobs : \E i \in DOMAIN anew : j = Len(jobs) + i
  <2> SUFFICES ASSUME NEW j \in DOMAIN jobs' \ DOMAIN jobs PROVE \E i \in DOMAIN anew : j = Len(jobs) + i
    OBVIOUS
  <2>1. j - Len(jobs) \in DOMAIN anew /\ j = Len(jobs) + (j - Len(jobs))
    BY <1>7, <1>11, <1>12
  <2> QED BY <2>1
<1>14. \A i \in DOMAIN anew : Len(jobs) + i \in DOMAIN jobs' \ DOMAIN jobs /\ anew[i] \in S
  BY <1>6, <1>7, <1>11, <1>12
<1>15. DOMAIN jobs \subseteq DOMAIN jobs'
  BY <1>7, <1>11, <1>12
<1>16. \A d \in E : \E j \in DOMAIN jobs' \ DOMAIN jobs : jobs'[j] = Label!NewJob(d)
  <2> SUFFICES ASSUME NEW d \in E PROVE \E j \in DOMAIN jobs' \ DOMAIN jobs : jobs'[j] = Label!NewJob(d)
    OBVIOUS
  <2>1. PICK i \in DOMAIN anew : anew[i] = Label!NewJob(d)
    BY <1>6 DEF S
  <2> QED BY <2>1, <1>12, <1>14
<1>17. \A j \in DOMAIN jobs' \ DOMAIN jobs : \E d \in E : jobs'[j] = Label!NewJob(d)
  <2> SUFFICES ASSUME NEW j \in DOMAIN jobs' \ DOMAIN jobs PROVE \E d \in E : jobs'[j] = Label!NewJob(d)
    OBVIOUS
  <2>1. PICK i \in DOMAIN anew : j = Len(jobs) + i
    BY <1>13
  <2>2. jobs'[j] \in S
    BY <1>12, <1>14, <2>1
  <2> QED BY <2>2 DEF S
<1>18. \A j, k \in DOMAIN jobs' \ DOMAIN jobs : jobs'[j] = jobs'[k] => j = k
  BY <1>6, <1>12, <1>13
<1> HIDE DEF E
<1> QED BY <1>8, <1>10, <1>12, <1>15, <1>16, <1>17, <1>18 DEF E

\* What a step that is not a correction's batch leaves as it is.
Undisturbed ==
  /\ DOMAIN jobs \subseteq DOMAIN jobs'
  /\ \A j \in DOMAIN jobs : jobs'[j].dev = jobs[j].dev
  /\ \A d \in Devices : row[d] # Nothing => row'[d] # Nothing
  /\ \A d \in Devices : \A j \in JobsOf(d) : Spared(d, j) => Spared(d, j)'

Uncorrected ==
  /\ \A d \in Devices : row[d] # Nothing => row'[d].sku = row[d].sku
  /\ \A d \in Devices : JobsOf(d) # {} => Label!Queued(d)' \subseteq Label!Queued(d)

\* A set of numbers that is not empty has a least one.
LEMMA NumbersHaveALeast ==
  ASSUME NEW N \in SUBSET Nat, N # {}
  PROVE  \E n \in N : \A m \in N : n <= m
<1>1. \E n \in N : \A m \in N : <<m, n>> \notin OpToRel(<, Nat)
  BY NatLessThanWellFounded, WFMin
<1>2. PICK n \in N : \A m \in N : ~(m < n)
  BY <1>1 DEF OpToRel
<1>3. \A m \in N : n <= m
  BY <1>2
<1> QED BY <1>3

\* The first job of a request that has some is one of them.
LEMMA FirstJobIs ==
  ASSUME LabelTables, NEW x, x.todo # {}, x.todo \subseteq DOMAIN jobs
  PROVE  FirstJob(x) \in x.todo /\ FirstJob(x) \in DOMAIN jobs /\ jobs[FirstJob(x)].dev \in Devices
<1>1. x.todo \in SUBSET Nat
  BY JobFacts
<1>2. \E j \in x.todo : \A k \in x.todo : j <= k
  BY <1>1, NumbersHaveALeast
<1>3. FirstJob(x) \in x.todo
  BY <1>2 DEF FirstJob
<1> QED BY <1>3, JobFacts DEF Job

\* The kinds of requests and where they stand.
LEMMA PrintKinds ==
  ASSUME NEW x, PrintRequest(x)
  PROVE  /\ Regrade(x) => x.op = "grade"
         /\ Correct(x) => x.op = "correct"
         /\ Send(x) => x.op = "send"
         /\ Mark(x) => x.op = "mark" /\ x.pc = "by_hand"
         /\ x.pc \in {"jobs", "write", "line"} <=> x.op \in {"grade", "correct"}
         /\ x.pc = "mark" => x.op = "send"
         /\ x.pc # "rest"
         /\ x.pc \in {"dispatch", "mark"} => Send(x)
         /\ x.pc = "by_hand" => Mark(x)
<1>1. Regrade(x) => x.op = "grade" /\ x.pc \in {"jobs", "write"}
  BY DEF Regrade
<1>2. Correct(x) => x.op = "correct" /\ x.pc \in {"jobs", "write", "line"}
  BY DEF Correct
<1>3. Send(x) => x.op = "send" /\ x.pc \in {"dispatch", "mark"}
  BY DEF Send
<1>4. Mark(x) => x.op = "mark" /\ x.pc = "by_hand"
  BY DEF Mark
<1> QED BY <1>1, <1>2, <1>3, <1>4 DEF PrintRequest

\* A request stands through what the others do: one that marks through whatever leaves
\* the spared devices spared, a correction if no other correction writes.
LEMMA StandsStill ==
  ASSUME LabelTables, NEW x, PrintRequest(x), Stands(x), Undisturbed,
         x.op \in {"grade", "correct"} => Uncorrected
  PROVE  Stands(x)'
<1>1. ASSUME x.pc \in {"jobs", "write"}
      PROVE  Prepared(x)'
  <2>1. Prepared(x) /\ Uncorrected
    BY <1>1, PrintKinds DEF Stands
  <2>2. DOMAIN x.sku \subseteq Devices /\ \A d \in DOMAIN x.sku : row[d] # Nothing
    BY <2>1 DEF Prepared, Label!Here
  <2>3. DOMAIN x.sku \subseteq Label!Here'
    BY <2>2 DEF Undisturbed, Label!Here
  <2>4. \A d \in DOMAIN x.sku : x.jobs[d] \subseteq JobsOf(d)'
    BY <2>1 DEF Prepared, Undisturbed, JobsOf
  <2>5. \A d \in DOMAIN x.sku : x.jobs[d] # {} => Label!Queued(d)' \subseteq x.jobs[d]
    <3> SUFFICES ASSUME NEW d \in DOMAIN x.sku, x.jobs[d] # {} PROVE Label!Queued(d)' \subseteq x.jobs[d]
      OBVIOUS
    <3>1. JobsOf(d) # {} /\ Label!Queued(d) \subseteq x.jobs[d]
      BY <2>1 DEF Prepared
    <3> QED BY <2>1, <2>2, <3>1 DEF Uncorrected
  <2>6. \A d \in DOMAIN x.sku : d \notin x.looks => x.sku[d] = row'[d].sku
    BY <2>1, <2>2 DEF Prepared, Uncorrected
  <2> QED BY <2>1, <2>3, <2>4, <2>5, <2>6 DEF Prepared
<1>2. x.op \in {"send", "mark"} => x.todo # {} /\ x.todo \subseteq DOMAIN jobs'
  BY DEF Stands, Undisturbed
<1>3. ASSUME x.pc = "mark"
      PROVE  Spared(jobs[FirstJob(x)].dev, FirstJob(x))'
  <2>1. x.todo # {} /\ x.todo \subseteq DOMAIN jobs
    BY <1>3, PrintKinds DEF Stands
  <2>2. PICK j \in DOMAIN jobs, d \in Devices : j = FirstJob(x) /\ d = jobs[j].dev
    BY <2>1, FirstJobIs
  <2>3. Spared(d, j)
    BY <1>3, <2>2 DEF Stands
  <2>4. Spared(d, j)' /\ jobs'[j].dev = d
    BY <2>2, <2>3 DEF Undisturbed, JobsOf
  <2> QED BY <2>2, <2>4 DEF Spared, Settled, FirstJob, Label!Queued
<1> QED BY <1>1, <1>2, <1>3 DEF Stands

\* What the others need of a step of request r.
OthersStand(r) == \A q \in Requests \ {r} : \A y : Label!Busy(q) /\ y = printer[q] => Stands(y)'

CorrectingAt(r) == Label!Busy(r) /\ printer[r].op \in {"grade", "correct"}

\* A step of one request, through which the others stand.
LEMMA RequestSteps ==
  ASSUME LabelInv, LabelTables', NEW r \in Requests, NEW x, printer' = [printer EXCEPT ![r] = x],
         x = Label!Rest \/ (PrintRequest(x) /\ Stands(x)'), OthersStand(r),
         x # Label!Rest /\ x.op \in {"grade", "correct"} =>
           CorrectingAt(r) \/ \A q \in Requests : ~CorrectingAt(q)
  PROVE  LabelInv'
<1>1. /\ printer' = [q \in Requests |-> printer'[q]]
      /\ printer'[r] = x /\ \A q \in Requests \ {r} : printer'[q] = printer[q]
  BY DEF LabelInv
<1>2. ASSUME NEW q \in Requests, NEW y, Label!Busy(q)', y = printer'[q]
      PROVE  PrintRequest(y) /\ Stands(y)'
  <2>1. CASE q = r
    BY <1>1, <1>2, <2>1 DEF Label!Busy, Label!Rest
  <2>2. CASE q # r
    <3>1. y = printer[q] /\ Label!Busy(q)
      BY <1>1, <1>2, <2>2 DEF Label!Busy, Label!Rest
    <3> QED BY <3>1, <2>2 DEF LabelInv, OthersStand
  <2> QED BY <2>1, <2>2
<1>3. \A q \in Requests : CorrectingAt(q)' =>
        IF q = r THEN x # Label!Rest /\ x.op \in {"grade", "correct"} ELSE CorrectingAt(q)
  BY <1>1 DEF CorrectingAt, Label!Busy, Label!Rest
<1>4. \A p, q \in Requests : CorrectingAt(p) /\ CorrectingAt(q) => p = q
  BY DEF LabelInv, OneAtWork, CorrectingAt
<1>5. \A p, q \in Requests : CorrectingAt(p)' /\ CorrectingAt(q)' => p = q
  BY <1>3, <1>4
<1>6. OneAtWork'
  BY <1>5 DEF OneAtWork, CorrectingAt
<1> QED BY <1>1, <1>2, <1>6 DEF LabelInv, PrintRequest, Regrade, Correct, Send, Mark

\* A step of no request.
LEMMA RequestsStay ==
  ASSUME LabelInv, LabelTables', printer' = printer, Undisturbed, Uncorrected
  PROVE  LabelInv'
<1>1. ASSUME NEW q \in Requests, NEW y, Label!Busy(q)', y = printer'[q]
      PROVE  PrintRequest(y) /\ Stands(y)'
  <2>1. y = printer[q] /\ Label!Busy(q)
    BY <1>1 DEF Label!Busy, Label!Rest
  <2>2. PrintRequest(y) /\ Stands(y) /\ LabelTables
    BY <2>1 DEF LabelInv
  <2> QED BY <2>2, StandsStill
<1>2. OneAtWork'
  BY DEF LabelInv, OneAtWork, Label!Busy, Label!Rest
<1> QED BY <1>1, <1>2 DEF LabelInv, PrintRequest, Regrade, Correct, Send, Mark

\* The others stand through a step that leaves alone what they rely on.
LEMMA OthersUndisturbed ==
  ASSUME LabelInv, NEW r \in Requests, Undisturbed,
         Uncorrected \/ \A q \in Requests \ {r} : ~CorrectingAt(q)
  PROVE  OthersStand(r)
<1> SUFFICES ASSUME NEW q \in Requests \ {r}, NEW y, Label!Busy(q), y = printer[q] PROVE Stands(y)'
  BY DEF OthersStand
<1>1. PrintRequest(y) /\ Stands(y) /\ LabelTables
  BY DEF LabelInv
<1>2. y.op \in {"grade", "correct"} => Uncorrected
  BY DEF CorrectingAt
<1> QED BY <1>1, <1>2, StandsStill

\* A step that leaves the tables leaves everything that is said of them.
LEMMA TablesUnmoved ==
  ASSUME LabelTables, UNCHANGED <<row, jobs, queuing, spool, label, excused>>
  PROVE  LabelTables' /\ Undisturbed /\ Uncorrected
<1>1. \A d : JobsOf(d)' = JobsOf(d) /\ Label!Queued(d)' = Label!Queued(d)
  BY DEF JobsOf, Label!Queued
<1>2. \A d : Settled(d)' <=> Settled(d)
  BY DEF Settled
<1>3. \A d \in Devices : CaughtUp(d)'
  BY <1>1, <1>2 DEF CaughtUp, LabelTables
<1>4. \A d : \A j : Spared(d, j) => Spared(d, j)'
  BY <1>1, <1>2 DEF Spared
<1>5. LabelTables'
  BY <1>1, <1>3 DEF LabelTables
<1> QED BY <1>1, <1>4, <1>5 DEF Undisturbed, Uncorrected

\* A label printed, a page that PrintNode has, or a device that is excused.
LEMMA SettledMore ==
  ASSUME LabelTables, UNCHANGED <<row, jobs, queuing>>,
         spool' \in [Devices -> {0, 1}], label' = [d \in Devices |-> label'[d]],
         \A d \in Devices : Settled(d) => Settled(d)'
  PROVE  LabelTables' /\ Undisturbed /\ Uncorrected
<1>1. \A d : JobsOf(d)' = JobsOf(d) /\ Label!Queued(d)' = Label!Queued(d)
  BY DEF JobsOf, Label!Queued
<1>2. \A d \in Devices : CaughtUp(d)'
  BY <1>1 DEF CaughtUp, LabelTables
<1>3. \A d \in Devices : \A j : Spared(d, j) => Spared(d, j)'
  BY <1>1 DEF Spared
<1>4. LabelTables'
  BY <1>1, <1>2 DEF LabelTables
<1> QED BY <1>1, <1>3, <1>4 DEF Undisturbed, Uncorrected

\* A row arrives, or moves, and its SKU stays.
LEMMA RowMoved ==
  ASSUME LabelTables, NEW d \in Devices, NEW x, LabelRow(x), x # Nothing, row' = [row EXCEPT ![d] = x],
         row[d] # Nothing => x.sku = row[d].sku,
         \/ queuing' \subseteq queuing
         \/ queuing' = queuing \cup {d} /\ row[d] = Nothing,
         UNCHANGED <<jobs, spool, label, excused>>
  PROVE  LabelTables' /\ Undisturbed /\ Uncorrected
<1>1. \A e : JobsOf(e)' = JobsOf(e) /\ Label!Queued(e)' = Label!Queued(e)
  BY DEF JobsOf, Label!Queued
<1>2. row'[d] = x /\ \A e \in Devices \ {d} : row'[e] = row[e]
  BY DEF LabelTables
<1>3. row[d] = Nothing => JobsOf(d) = {}
  BY DEF LabelTables, JobsOf
<1>4. \A e \in Devices : JobsOf(e) # {} => (Settled(e)' <=> Settled(e))
  BY <1>2, <1>3 DEF Settled
<1>5. \A e \in Devices : CaughtUp(e)'
  BY <1>1, <1>4 DEF CaughtUp, LabelTables
<1>6. \A e \in Devices : \A j \in JobsOf(e) : Spared(e, j) => Spared(e, j)'
  BY <1>1, <1>4 DEF Spared
<1>7. \A e \in queuing' : row'[e] # Nothing /\ JobsOf(e)' = {}
  BY <1>1, <1>2, <1>3 DEF LabelTables
<1>8. \A j \in DOMAIN jobs : row'[jobs[j].dev] # Nothing
  <2>1. \A j \in DOMAIN jobs : jobs[j].dev \in Devices /\ row[jobs[j].dev] # Nothing
    BY JobFacts DEF LabelTables, Job
  <2> QED BY <1>2, <2>1
<1>9. LabelTables'
  BY <1>1, <1>2, <1>5, <1>7, <1>8 DEF LabelTables
<1> QED BY <1>1, <1>2, <1>6, <1>9 DEF Undisturbed, Uncorrected

\* A device received has no job yet.
LEMMA ReceiveKeeps ==
  ASSUME LabelsAtWork, LabelInv, NEW d \in Devices, Label!Receive(d)
  PROVE  LabelInv'
<1>1. PICK a \in Arrivals : row' = [row EXCEPT ![d] =
        [sku |-> a.sku, grade |-> a.grade, status |-> "RECEIVED", pushed |-> FALSE, printed |-> FALSE]]
  BY DEF Label!Receive
<1> DEFINE x == [sku |-> a.sku, grade |-> a.grade, status |-> "RECEIVED", pushed |-> FALSE, printed |-> FALSE]
<1>2. LabelRow(x) /\ x # Nothing
  BY DEF LabelRow, LabelsAtWork
<1>3. row' = [row EXCEPT ![d] = x]
  BY <1>1
<1> HIDE DEF x
<1>4. /\ row[d] = Nothing /\ queuing' = queuing \cup {d} /\ printer' = printer
      /\ UNCHANGED <<jobs, spool, label, excused>>
  BY DEF Label!Receive
<1>5. LabelTables
  BY DEF LabelInv
<1>6. LabelTables' /\ Undisturbed /\ Uncorrected
  BY <1>2, <1>3, <1>4, <1>5, RowMoved
<1> QED BY <1>4, <1>6, RequestsStay

\* A record with the columns of a row is a row.
LEMMA ARow ==
  ASSUME NEW y, NEW s, NEW g, NEW t, NEW p, NEW q,
         y = [sku |-> s, grade |-> g, status |-> t, pushed |-> p, printed |-> q]
  PROVE  LabelRow(y) /\ y.sku = s
<1>1. LabelRow(y)
  BY Zenon DEF LabelRow
<1> QED BY <1>1

\* A row with another status, mark, flag or grade is a row with the same SKU.
LEMMA RowEdited ==
  ASSUME NEW x, LabelRow(x), NEW v, NEW y,
         \/ y = [x EXCEPT !.status = v] \/ y = [x EXCEPT !.pushed = v]
         \/ y = [x EXCEPT !.printed = v] \/ y = [x EXCEPT !.grade = v]
  PROVE  LabelRow(y) /\ y.sku = x.sku
<1>1. PICK s, g, t, p, q : x = [sku |-> s, grade |-> g, status |-> t, pushed |-> p, printed |-> q]
  BY DEF LabelRow
<1>2. x.sku = s
  BY <1>1
<1>3. CASE y = [x EXCEPT !.status = v]
  <2>1. y = [sku |-> s, grade |-> g, status |-> v, pushed |-> p, printed |-> q]
    BY <1>1, <1>3
  <2> QED BY <1>2, <2>1, ARow
<1>4. CASE y = [x EXCEPT !.pushed = v]
  <2>1. y = [sku |-> s, grade |-> g, status |-> t, pushed |-> v, printed |-> q]
    BY <1>1, <1>4
  <2> QED BY <1>2, <2>1, ARow
<1>5. CASE y = [x EXCEPT !.printed = v]
  <2>1. y = [sku |-> s, grade |-> g, status |-> t, pushed |-> p, printed |-> v]
    BY <1>1, <1>5
  <2> QED BY <1>2, <2>1, ARow
<1>6. CASE y = [x EXCEPT !.grade = v]
  <2>1. y = [sku |-> s, grade |-> v, status |-> t, pushed |-> p, printed |-> q]
    BY <1>1, <1>6
  <2> QED BY <1>2, <2>1, ARow
<1> QED BY <1>3, <1>4, <1>5, <1>6

\* A row with another SKU is a row.
LEMMA SkuEdited ==
  ASSUME NEW x, LabelRow(x), NEW v, NEW y, y = [x EXCEPT !.sku = v]
  PROVE  LabelRow(y) /\ y.sku = v
<1>1. PICK s, g, t, p, q : x = [sku |-> s, grade |-> g, status |-> t, pushed |-> p, printed |-> q]
  BY DEF LabelRow
<1>2. y = [sku |-> v, grade |-> g, status |-> t, pushed |-> p, printed |-> q]
  BY <1>1
<1> QED BY <1>2, ARow

\* A device that changes its status keeps its SKU.
LEMMA MoveKeeps ==
  ASSUME LabelsAtWork, LabelInv, NEW d \in Devices, NEW to, Label!Move(d, to)
  PROVE  LabelInv'
<1>1. LabelTables /\ row[d] # Nothing /\ LabelRow(row[d])
  BY DEF Label!Move, Label!Here, LabelInv, LabelTables
<1>2. PICK b : row' = [row EXCEPT ![d] = [row[d] EXCEPT !.status = to, !.pushed = b]]
  <2> DEFINE b == row[d].pushed \/ (row[d].status = "READY_FOR_ZOHO" /\ to = "ACTIVE_INVENTORY")
  <2>1. row[d].pushed = [row[d] EXCEPT !.status = to].pushed
    BY <1>1 DEF LabelRow
  <2>2. row' = [row EXCEPT ![d] = [row[d] EXCEPT !.status = to, !.pushed = b]]
    BY <1>1, <2>1 DEF Label!Move, LabelTables
  <2> HIDE DEF b
  <2> QED BY <2>2
<1>3. PICK x : x = row[d]
  OBVIOUS
<1>4. PICK y : y = [x EXCEPT !.status = to]
  OBVIOUS
<1>5. PICK z : z = [y EXCEPT !.pushed = b]
  OBVIOUS
<1>6. LabelRow(z) /\ z.sku = row[d].sku
  <2>1. LabelRow(y) /\ y.sku = x.sku
    BY <1>1, <1>3, <1>4, RowEdited
  <2>2. LabelRow(z) /\ z.sku = y.sku
    BY <1>5, <2>1, RowEdited
  <2> QED BY <1>3, <2>1, <2>2
<1>7. row' = [row EXCEPT ![d] = z]
  BY <1>2, <1>3, <1>4, <1>5
<1>8. z # Nothing
  BY <1>6 DEF LabelsAtWork
<1>9. queuing' \subseteq queuing /\ printer' = printer /\ UNCHANGED <<jobs, spool, label, excused>>
  BY DEF Label!Move
<1>10. LabelTables' /\ Undisturbed /\ Uncorrected
  BY <1>1, <1>6, <1>7, <1>8, <1>9, RowMoved
<1> QED BY <1>9, <1>10, RequestsStay

\* The first job of a device is its only queued one.
LEMMA QueueLabelKeeps ==
  ASSUME LabelInv, NEW d \in Devices, Label!QueueLabel(d)
  PROVE  LabelInv'
<1>1. /\ d \in queuing /\ jobs' = Append(jobs, [dev |-> d, status |-> "queued"])
      /\ queuing' = queuing \ {d} /\ printer' = printer
      /\ row' = row /\ spool' = spool /\ label' = label /\ excused' = excused
  BY DEF Label!QueueLabel, Label!NewJob
<1>2. LabelTables /\ row[d] # Nothing /\ JobsOf(d) = {}
  BY <1>1 DEF LabelInv, LabelTables
<1> DEFINE e == [dev |-> d, status |-> "queued"]
           n == Len(jobs) + 1
<1>3. e \in Job
  BY DEF Job
<1>4. jobs' = Append(jobs, e) /\ e.dev = d /\ e.status = "queued"
  BY <1>1
<1> HIDE DEF e
<1>5. jobs \in Seq(Job) /\ DOMAIN jobs = 1..Len(jobs) /\ Len(jobs) \in Nat
  BY <1>2, JobFacts DEF LabelTables
<1>6. /\ jobs' \in Seq(Job) /\ Len(jobs') = n /\ jobs'[n] = e
      /\ \A j \in 1..Len(jobs) : jobs'[j] = jobs[j]
  BY <1>3, <1>4, <1>5
<1>7. /\ DOMAIN jobs' = DOMAIN jobs \cup {n} /\ n \notin DOMAIN jobs
      /\ \A j \in DOMAIN jobs : jobs'[j] = jobs[j]
  BY <1>5, <1>6
<1> HIDE DEF n
<1>8. \A c : JobsOf(c)' = IF c = d THEN {n} ELSE JobsOf(c)
  <2>1. \A c : JobsOf(c)' = JobsOf(c) \cup IF c = d THEN {n} ELSE {}
    BY <1>4, <1>6, <1>7 DEF JobsOf
  <2> QED BY <1>2, <2>1
<1>9. \A c : Label!Queued(c)' = IF c = d THEN {n} ELSE Label!Queued(c)
  <2>1. \A c : Label!Queued(c) = { j \in DOMAIN jobs : jobs[j].dev = c /\ jobs[j].status = "queued" }
    BY <1>2, JobFacts
  <2>2. \A c : Label!Queued(c)' = { j \in DOMAIN jobs' : jobs'[j].dev = c /\ jobs'[j].status = "queued" }
    <3>1. \A j \in DOMAIN jobs' : jobs'[j] \in Job
      BY <1>6
    <3>2. \A c : \A y \in Job : y = [dev |-> c, status |-> "queued"] <=> y.dev = c /\ y.status = "queued"
      BY DEF Job
    <3> QED BY <3>1, <3>2 DEF Label!Queued, Label!NewJob
  <2>3. \A c : Label!Queued(c)' = Label!Queued(c) \cup IF c = d THEN {n} ELSE {}
    BY <1>4, <1>6, <1>7, <2>1, <2>2
  <2>4. Label!Queued(d) = {}
    BY <1>2, <2>1 DEF JobsOf
  <2> QED BY <2>3, <2>4
<1>10. \A c : Settled(c)' <=> Settled(c)
  BY <1>1 DEF Settled
<1>11. \A c \in Devices : CaughtUp(c)'
  BY <1>2, <1>8, <1>9, <1>10 DEF CaughtUp, LabelTables
<1>12. \A c \in Devices : \A j \in JobsOf(c) : Spared(c, j) => Spared(c, j)'
  BY <1>2, <1>9, <1>10 DEF Spared
<1>13. \A j \in DOMAIN jobs' : row'[jobs'[j].dev] # Nothing
  BY <1>1, <1>2, <1>4, <1>6, <1>7 DEF LabelTables
<1>14. LabelTables'
  <2>1. \A c \in queuing' : row'[c] # Nothing /\ JobsOf(c)' = {}
    BY <1>1, <1>2, <1>8 DEF LabelTables
  <2>2. \A c \in Devices : \A j, k \in Label!Queued(c)' : j = k
    BY <1>2, <1>9 DEF LabelTables
  <2> QED BY <1>1, <1>2, <1>6, <1>11, <1>13, <2>1, <2>2 DEF LabelTables
<1>15. Undisturbed
  BY <1>1, <1>7, <1>12 DEF Undisturbed
<1>16. Uncorrected
  BY <1>1, <1>2, <1>9 DEF Uncorrected
<1> QED BY <1>1, <1>14, <1>15, <1>16, RequestsStay

\* PrintNode prints the label of the row as it is now, or loses it.
LEMMA PrintSpooledKeeps ==
  ASSUME LabelInv, NEW d \in Devices, Label!PrintSpooled(d)
  PROVE  LabelInv'
<1>1. /\ row' = row /\ jobs' = jobs /\ queuing' = queuing /\ printer' = printer
      /\ spool' = [spool EXCEPT ![d] = 0]
      /\ \/ label' = [label EXCEPT ![d] = row[d].sku] /\ excused' = excused
         \/ excused' = excused \cup {d} /\ label' = label
  BY DEF Label!PrintSpooled
<1>2. LabelTables
  BY DEF LabelInv
<1>3. /\ spool' \in [Devices -> {0, 1}] /\ label' = [e \in Devices |-> label'[e]]
      /\ \A e \in Devices \ {d} : spool'[e] = spool[e] /\ label'[e] = label[e]
  BY <1>1, <1>2 DEF LabelTables
<1>4. Settled(d)'
  BY <1>1, <1>2 DEF LabelTables, Settled
<1>5. \A e \in Devices : Settled(e) => Settled(e)'
  BY <1>1, <1>3, <1>4 DEF Settled
<1>6. LabelTables' /\ Undisturbed /\ Uncorrected
  BY <1>1, <1>2, <1>3, <1>5, SettledMore
<1> QED BY <1>1, <1>6, RequestsStay

\* A page shows the SKU of the row as it is now.
LEMMA OpenPageKeeps ==
  ASSUME LabelInv, NEW j \in DOMAIN jobs, Label!OpenPage(j)
  PROVE  LabelInv'
<1>1. LabelTables
  BY DEF LabelInv
<1>2. PICK d \in Devices : d = jobs[j].dev
  BY <1>1, JobFacts DEF Job
<1>3. /\ row' = row /\ jobs' = jobs /\ queuing' = queuing /\ printer' = printer
      /\ spool' = spool /\ excused' = excused /\ label' = [label EXCEPT ![d] = row[d].sku]
  BY <1>2 DEF Label!OpenPage
<1>4. /\ spool' \in [Devices -> {0, 1}] /\ label' = [e \in Devices |-> label'[e]]
      /\ label'[d] = row[d].sku /\ \A e \in Devices \ {d} : label'[e] = label[e]
  BY <1>1, <1>3 DEF LabelTables
<1>5. \A e \in Devices : Settled(e) => Settled(e)'
  BY <1>3, <1>4 DEF Settled
<1>6. LabelTables' /\ Undisturbed /\ Uncorrected
  BY <1>1, <1>3, <1>4, <1>5, SettledMore
<1> QED BY <1>3, <1>6, RequestsStay

\* A request that ends, or goes on to what only names jobs.
LEMMA Harmless ==
  ASSUME LabelInv, NEW r \in Requests, NEW x, printer' = [printer EXCEPT ![r] = x],
         LabelTables', Undisturbed, Uncorrected,
         \/ x = Label!Rest
         \/ /\ (Send(x) /\ x.pc = "dispatch") \/ Mark(x)
            /\ x.todo # {} /\ x.todo \subseteq DOMAIN jobs
         \/ /\ Correct(x) /\ x.pc = "line" /\ CorrectingAt(r)
  PROVE  LabelInv'
<1>1. OthersStand(r)
  BY OthersUndisturbed
<1>2. x = Label!Rest \/ (PrintRequest(x) /\ Stands(x)')
  <2>1. ASSUME (Send(x) /\ x.pc = "dispatch") \/ Mark(x), x.todo # {}, x.todo \subseteq DOMAIN jobs
        PROVE  PrintRequest(x) /\ Stands(x)'
    <3>1. PrintRequest(x) /\ x.op \in {"send", "mark"} /\ x.pc \in {"dispatch", "by_hand"}
      BY <2>1, PrintKinds DEF PrintRequest
    <3> QED BY <2>1, <3>1 DEF Stands, Undisturbed
  <2>2. ASSUME Correct(x), x.pc = "line"
        PROVE  PrintRequest(x) /\ Stands(x)'
    <3>1. PrintRequest(x) /\ x.op = "correct"
      BY <2>2, PrintKinds DEF PrintRequest
    <3> QED BY <2>2, <3>1 DEF Stands
  <2> QED BY <2>1, <2>2
<1>3. x # Label!Rest /\ x.op \in {"grade", "correct"} =>
        CorrectingAt(r) \/ \A q \in Requests : ~CorrectingAt(q)
  BY PrintKinds DEF PrintRequest
<1> QED BY <1>1, <1>2, <1>3, RequestSteps

\* A step of a request that touches no table.
LEMMA PrinterOnly ==
  ASSUME LabelInv, UNCHANGED <<row, jobs, queuing, spool, label, excused>>
  PROVE  LabelTables' /\ Undisturbed /\ Uncorrected
BY TablesUnmoved DEF LabelInv

\* A worker that dies leaves the tables as they are.
LEMMA AbandonKeeps ==
  ASSUME LabelInv, NEW r \in Requests, Label!Abandon(r)
  PROVE  LabelInv'
<1>1. printer' = [printer EXCEPT ![r] = Label!Rest] /\ UNCHANGED <<row, jobs, queuing, spool, label, excused>>
  BY DEF Label!Abandon
<1>2. LabelTables' /\ Undisturbed /\ Uncorrected
  BY <1>1, PrinterOnly
<1> QED BY <1>1, <1>2, Harmless

\* The manifest line is no concern of the labels.
LEMMA CascadeKeeps ==
  ASSUME LabelInv, NEW r \in Requests, Label!CascadeToLine(r)
  PROVE  LabelInv'
<1>1. printer' = [printer EXCEPT ![r] = Label!Rest] /\ UNCHANGED <<row, jobs, queuing, spool, label, excused>>
  BY DEF Label!CascadeToLine
<1>2. LabelTables' /\ Undisturbed /\ Uncorrected
  BY <1>1, PrinterOnly
<1> QED BY <1>1, <1>2, Harmless

\* A request to send names jobs, and no more.
LEMMA SendStarts ==
  ASSUME LabelInv, NEW r \in Requests, NEW js \in SUBSET DOMAIN jobs, Label!StartSend(r, js)
  PROVE  LabelInv'
<1> DEFINE x == [op |-> "send", pc |-> "dispatch", todo |-> js]
<1>1. /\ printer' = [printer EXCEPT ![r] = x] /\ js # {}
      /\ UNCHANGED <<row, jobs, queuing, spool, label, excused>>
  BY DEF Label!StartSend
<1>2. LabelTables' /\ Undisturbed /\ Uncorrected
  BY <1>1, PrinterOnly
<1>3. Send(x) /\ x.pc = "dispatch" /\ x.todo = js
  BY DEF Send
<1> HIDE DEF x
<1> QED BY <1>1, <1>2, <1>3, Harmless

\* A request to mark names those jobs that are not sent.
LEMMA MarkStarts ==
  ASSUME LabelInv, NEW r \in Requests, NEW js \in SUBSET DOMAIN jobs, Label!StartMark(r, js)
  PROVE  LabelInv'
<1> DEFINE unsent == { j \in js : jobs[j].status # "sent" }
           x == [op |-> "mark", pc |-> "by_hand", todo |-> unsent]
<1>1. /\ printer' = [printer EXCEPT ![r] = x] /\ unsent # {}
      /\ UNCHANGED <<row, jobs, queuing, spool, label, excused>>
  BY DEF Label!StartMark
<1>2. LabelTables' /\ Undisturbed /\ Uncorrected
  BY <1>1, PrinterOnly
<1>3. Mark(x) /\ x.todo = unsent
  BY DEF Mark
<1>4. unsent \subseteq DOMAIN jobs
  OBVIOUS
<1> HIDE DEF x, unsent
<1> QED BY <1>1, <1>2, <1>3, <1>4, Harmless

\* What a request of a known state and statement is.
LEMMA RequestAt ==
  ASSUME LabelInv, NEW r \in Requests, Label!Busy(r)
  PROVE  \E x : x = printer[r] /\ PrintRequest(x) /\ Stands(x)
BY DEF LabelInv

\* After a job the request goes on to the next, or ends.
LEMMA AfterJobIs ==
  ASSUME LabelInv, NEW r \in Requests, NEW x, x = printer[r], Send(x), x.todo # {},
         x.todo \subseteq DOMAIN jobs, Label!AfterJob(r)
  PROVE  \E y : /\ printer' = [printer EXCEPT ![r] = y]
                /\ \/ y = Label!Rest
                   \/ Send(y) /\ y.pc = "dispatch" /\ y.todo # {} /\ y.todo \subseteq DOMAIN jobs
<1> DEFINE j == Label!NextJob(r)
<1>1. printer' = IF x.todo = {j} THEN [printer EXCEPT ![r] = Label!Rest]
                 ELSE [printer EXCEPT ![r].pc = "dispatch", ![r].todo = @ \ {j}]
  BY DEF Label!AfterJob
<1>2. j \in x.todo
  <2>1. j = FirstJob(x)
    BY DEF Label!NextJob, FirstJob
  <2> QED BY <2>1, FirstJobIs DEF LabelInv
<1> HIDE DEF j
<1>3. CASE x.todo = {j}
  BY <1>1, <1>3
<1>4. CASE x.todo # {j}
  <2>1. PICK u : u = [x EXCEPT !.pc = "dispatch"]
    OBVIOUS
  <2>2. PICK y : y = [u EXCEPT !.todo = x.todo \ {j}]
    OBVIOUS
  <2>3. u = [op |-> "send", pc |-> "dispatch", todo |-> x.todo]
    BY <2>1 DEF Send
  <2>4. y = [op |-> "send", pc |-> "dispatch", todo |-> x.todo \ {j}]
    BY <2>2, <2>3
  <2>5. Send(y) /\ y.pc = "dispatch" /\ y.todo = x.todo \ {j}
    BY <2>4 DEF Send
  <2>6. y.todo # {} /\ y.todo \subseteq DOMAIN jobs
    BY <1>2, <1>4, <2>5
  <2>7. printer' = [printer EXCEPT ![r] = y]
    <3>1. printer' = [[printer EXCEPT ![r] = u] EXCEPT ![r].todo = x.todo \ {j}]
      BY <1>1, <1>4, <2>1
    <3> QED BY <2>2, <3>1 DEF LabelInv
  <2> QED BY <2>5, <2>6, <2>7
<1> QED BY <1>3, <1>4

\* PrintNode takes the label: its device is settled until the label is printed or lost,
\* and may do without the job.  Or it does not, and the job stays queued.
LEMMA SendToPrintNodeKeeps ==
  ASSUME LabelInv, NEW r \in Requests, Label!sendToPrintNode(r)
  PROVE  LabelInv'
<1>1. PICK x : x = printer[r] /\ PrintRequest(x) /\ Stands(x)
  BY RequestAt DEF Label!sendToPrintNode
<1>2. Send(x) /\ x.op = "send" /\ x.todo # {} /\ x.todo \subseteq DOMAIN jobs
  <2>1. x.pc = "dispatch"
    BY <1>1 DEF Label!sendToPrintNode
  <2>2. Send(x)
    BY <1>1, <2>1, PrintKinds
  <2> QED BY <1>1, <2>2, PrintKinds DEF Stands
<1>3. /\ row' = row /\ jobs' = jobs /\ queuing' = queuing /\ label' = label /\ excused' = excused
  BY DEF Label!sendToPrintNode
<1>4. CASE Label!AfterJob(r) /\ spool' = spool
  <2>1. PICK y : /\ printer' = [printer EXCEPT ![r] = y]
                 /\ \/ y = Label!Rest
                    \/ Send(y) /\ y.pc = "dispatch" /\ y.todo # {} /\ y.todo \subseteq DOMAIN jobs
    BY <1>1, <1>2, <1>4, AfterJobIs
  <2>2. LabelTables' /\ Undisturbed /\ Uncorrected
    BY <1>3, <1>4, PrinterOnly
  <2> QED BY <2>1, <2>2, Harmless
<1>5. CASE /\ spool' = [spool EXCEPT ![jobs[Label!NextJob(r)].dev] = 1]
           /\ printer' = [printer EXCEPT ![r].pc = "mark"]
  <2>1. LabelTables
    BY DEF LabelInv
  <2>2. PICK j \in DOMAIN jobs, d \in Devices : j = FirstJob(x) /\ d = jobs[j].dev
    BY <1>2, <2>1, FirstJobIs
  <2>3. j = Label!NextJob(r)
    BY <1>1, <2>2 DEF Label!NextJob, FirstJob
  <2>4. spool' = [spool EXCEPT ![d] = 1]
    BY <1>5, <2>2, <2>3
  <2>5. /\ spool' \in [Devices -> {0, 1}] /\ spool'[d] = 1
        /\ \A e \in Devices \ {d} : spool'[e] = spool[e]
    BY <2>1, <2>4 DEF LabelTables
  <2>6. Settled(d)' /\ \A e \in Devices : Settled(e) => Settled(e)'
    BY <1>3, <2>5 DEF Settled
  <2>7. label' = [e \in Devices |-> label'[e]]
    BY <1>3, <2>1 DEF LabelTables
  <2>8. LabelTables' /\ Undisturbed /\ Uncorrected
    BY <1>3, <2>1, <2>5, <2>6, <2>7, SettledMore
  <2>9. PICK y : y = [x EXCEPT !.pc = "mark"]
    OBVIOUS
  <2>10. y = [op |-> "send", pc |-> "mark", todo |-> x.todo]
    BY <1>2, <2>9 DEF Send
  <2>11. Send(y) /\ PrintRequest(y) /\ y.op = "send" /\ y.pc = "mark" /\ y.todo = x.todo
    BY <2>10 DEF Send, PrintRequest
  <2>12. FirstJob(y) = j
    BY <2>2, <2>11 DEF FirstJob
  <2>13. Stands(y)'
    <3>1. Spared(d, j)'
      BY <2>6 DEF Spared
    <3>2. Spared(jobs[FirstJob(y)].dev, FirstJob(y))'
      BY <1>3, <2>2, <2>12, <3>1 DEF Spared, Settled, FirstJob, Label!Queued
    <3> QED BY <1>2, <1>3, <2>11, <3>2 DEF Stands
  <2>14. printer' = [printer EXCEPT ![r] = y]
    BY <1>1, <1>5, <2>9 DEF LabelInv
  <2>15. OthersStand(r)
    BY <2>8, OthersUndisturbed
  <2> QED BY <2>8, <2>11, <2>13, <2>14, <2>15, RequestSteps
<1> QED BY <1>4, <1>5 DEF Label!sendToPrintNode

\* Jobs are marked as sent, each of a device that needs it no more.
LEMMA JobsMarked ==
  ASSUME LabelsAtWork, LabelTables, NEW js \in SUBSET DOMAIN jobs, Label!MarkJobs(js),
         UNCHANGED <<queuing, spool, label>>, excused \subseteq excused',
         \A j \in js : \/ jobs[j].dev \in excused'
                       \/ Settled(jobs[j].dev)
                       \/ \E k \in Label!Queued(jobs[j].dev) : k \notin js
  PROVE  LabelTables' /\ Undisturbed /\ Uncorrected
<1>1. /\ jobs' = [j \in DOMAIN jobs |-> IF j \in js THEN [jobs[j] EXCEPT !.status = "sent"] ELSE jobs[j]]
      /\ row' = [d \in Devices |->
           IF \E j \in js : jobs[j].dev = d THEN [row[d] EXCEPT !.printed = TRUE] ELSE row[d]]
  BY DEF Label!MarkJobs
<1>2. DOMAIN jobs = 1..Len(jobs) /\ Len(jobs) \in Nat /\ \A j \in DOMAIN jobs : jobs[j] \in Job
  BY JobFacts
<1>3. \A j \in DOMAIN jobs :
        /\ jobs'[j] \in Job /\ jobs'[j].dev = jobs[j].dev
        /\ jobs'[j].status = IF j \in js THEN "sent" ELSE jobs[j].status
  BY <1>1, <1>2 DEF Job
<1>4. DOMAIN jobs' = DOMAIN jobs /\ jobs' \in Seq(Job)
  <2>1. DOMAIN jobs' = DOMAIN jobs
    BY <1>1
  <2>2. jobs' \in [1..Len(jobs) -> Job]
    BY <1>1, <1>2, <1>3
  <2> QED BY <1>2, <2>1, <2>2
<1>5. \A d : JobsOf(d)' = JobsOf(d)
  BY <1>3, <1>4 DEF JobsOf
<1>6. \A d : Label!Queued(d)' = Label!Queued(d) \ js
  <2>1. \A c : \A y \in Job : y = [dev |-> c, status |-> "queued"] <=> y.dev = c /\ y.status = "queued"
    BY DEF Job
  <2>2. \A d : Label!Queued(d)' = { j \in DOMAIN jobs' : jobs'[j].dev = d /\ jobs'[j].status = "queued" }
    BY <1>3, <1>4, <2>1 DEF Label!Queued, Label!NewJob
  <2>3. \A d : Label!Queued(d) = { j \in DOMAIN jobs : jobs[j].dev = d /\ jobs[j].status = "queued" }
    BY JobFacts
  <2> QED BY <1>3, <1>4, <2>2, <2>3
<1>7. \A d \in Devices :
        /\ row[d] = Nothing => row'[d] = Nothing
        /\ row[d] # Nothing => LabelRow(row'[d]) /\ row'[d].sku = row[d].sku
  <2> SUFFICES ASSUME NEW d \in Devices
               PROVE  /\ row[d] = Nothing => row'[d] = Nothing
                      /\ row[d] # Nothing => LabelRow(row'[d]) /\ row'[d].sku = row[d].sku
    OBVIOUS
  <2>1. CASE \E j \in js : jobs[j].dev = d
    <3>1. row[d] # Nothing /\ LabelRow(row[d])
      BY <2>1 DEF LabelTables
    <3>2. row'[d] = [row[d] EXCEPT !.printed = TRUE]
      BY <1>1, <2>1
    <3>3. PICK x, y : x = row[d] /\ y = [x EXCEPT !.printed = TRUE]
      OBVIOUS
    <3>4. LabelRow(y) /\ y.sku = x.sku
      BY <3>1, <3>3, RowEdited
    <3> QED BY <3>1, <3>2, <3>3, <3>4
  <2>2. CASE ~\E j \in js : jobs[j].dev = d
    BY <1>1, <2>2 DEF LabelTables
  <2> QED BY <2>1, <2>2
<1>8. \A d \in Devices : row[d] # Nothing => row'[d] # Nothing
  BY <1>7 DEF LabelsAtWork
<1>9. \A d \in Devices : row[d] # Nothing /\ Settled(d) => Settled(d)'
  BY <1>7 DEF Settled
<1>10. \A d \in Devices : JobsOf(d) # {} => row[d] # Nothing
  BY DEF LabelTables, JobsOf
<1>11. ASSUME NEW d \in Devices, NEW k \in Label!Queued(d), k \in js
       PROVE  Settled(d)'
  <2>1. k \in JobsOf(d) /\ jobs[k].dev = d
    BY <1>11, JobFacts DEF JobsOf
  <2>2. ~\E m \in Label!Queued(d) : m \notin js
    BY <1>11 DEF LabelTables
  <2>3. d \in excused' \/ Settled(d)
    BY <1>11, <2>1, <2>2
  <2>4. d \in excused' => Settled(d)'
    BY DEF Settled
  <2> QED BY <1>9, <1>10, <2>1, <2>3, <2>4
<1>12. \A d \in Devices : CaughtUp(d)'
  <2> SUFFICES ASSUME NEW d \in Devices, JobsOf(d) # {}, ~Settled(d)' PROVE Label!Queued(d)' # {}
    BY <1>5 DEF CaughtUp
  <2>1. Label!Queued(d) # {}
    BY <1>9, <1>10 DEF CaughtUp, LabelTables
  <2> QED BY <1>6, <1>11, <2>1
<1>13. \A d \in Devices : \A j \in JobsOf(d) : Spared(d, j) => Spared(d, j)'
  <2> SUFFICES ASSUME NEW d \in Devices, NEW j \in JobsOf(d), Spared(d, j), ~Settled(d)' PROVE Spared(d, j)'
    BY DEF Spared
  <2>1. PICK k \in Label!Queued(d) : k # j
    BY <1>9, <1>10 DEF Spared
  <2>2. k \in Label!Queued(d)'
    BY <1>6, <1>11
  <2> QED BY <2>1, <2>2 DEF Spared
<1>14. \A j \in DOMAIN jobs' : row'[jobs'[j].dev] # Nothing
  <2>1. \A j \in DOMAIN jobs : jobs[j].dev \in Devices /\ row[jobs[j].dev] # Nothing
    BY <1>2 DEF LabelTables, Job
  <2> QED BY <1>3, <1>4, <1>8, <2>1
<1>15. LabelTables'
  <2>1. row' = [d \in Devices |-> row'[d]] /\ \A d \in Devices : row'[d] = Nothing \/ LabelRow(row'[d])
    BY <1>1, <1>7
  <2>2. \A d \in queuing' : row'[d] # Nothing /\ JobsOf(d)' = {}
    BY <1>5, <1>8 DEF LabelTables
  <2>3. \A d \in Devices : \A j, k \in Label!Queued(d)' : j = k
    BY <1>6 DEF LabelTables
  <2> QED BY <1>4, <1>12, <1>14, <2>1, <2>2, <2>3 DEF LabelTables
<1>16. Undisturbed
  BY <1>3, <1>4, <1>8, <1>13 DEF Undisturbed
<1>17. Uncorrected
  BY <1>6, <1>7 DEF Uncorrected
<1> QED BY <1>15, <1>16, <1>17

\* A job marked as sent is one that its device may do without.
LEMMA MarkSentKeeps ==
  ASSUME LabelsAtWork, LabelInv, NEW r \in Requests, Label!MarkSent(r)
  PROVE  LabelInv'
<1>1. PICK x : x = printer[r] /\ PrintRequest(x) /\ Stands(x)
  BY RequestAt DEF Label!MarkSent
<1>2. Send(x) /\ x.op = "send" /\ x.pc = "mark" /\ x.todo # {} /\ x.todo \subseteq DOMAIN jobs
  <2>1. x.pc = "mark"
    BY <1>1 DEF Label!MarkSent
  <2>2. Send(x)
    BY <1>1, <2>1, PrintKinds
  <2> QED BY <1>1, <2>1, <2>2, PrintKinds DEF Stands
<1>3. LabelTables
  BY DEF LabelInv
<1>4. PICK j \in DOMAIN jobs : j = FirstJob(x)
  BY <1>2, <1>3, FirstJobIs
<1>5. j = Label!NextJob(r)
  BY <1>1, <1>4 DEF Label!NextJob, FirstJob
<1>6. /\ Label!MarkJobs({j}) /\ Label!AfterJob(r)
      /\ UNCHANGED <<queuing, spool, label>> /\ excused \subseteq excused'
  BY <1>5 DEF Label!MarkSent
<1>7. Settled(jobs[j].dev) \/ \E k \in Label!Queued(jobs[j].dev) : k \notin {j}
  BY <1>1, <1>2, <1>4 DEF Stands, Spared
<1>8. LabelTables' /\ Undisturbed /\ Uncorrected
  BY <1>3, <1>6, <1>7, JobsMarked
<1>9. PICK y : /\ printer' = [printer EXCEPT ![r] = y]
               /\ \/ y = Label!Rest
                  \/ Send(y) /\ y.pc = "dispatch" /\ y.todo # {} /\ y.todo \subseteq DOMAIN jobs
  BY <1>1, <1>2, <1>6, AfterJobIs
<1> QED BY <1>8, <1>9, Harmless

\* The devices of jobs marked by hand are excused.
LEMMA MarkByHandKeeps ==
  ASSUME LabelsAtWork, LabelInv, NEW r \in Requests, Label!MarkByHand(r)
  PROVE  LabelInv'
<1>1. PICK x : x = printer[r] /\ PrintRequest(x) /\ Stands(x)
  BY RequestAt DEF Label!MarkByHand
<1>2. x.todo \in SUBSET DOMAIN jobs
  <2>1. x.pc = "by_hand"
    BY <1>1 DEF Label!MarkByHand
  <2>2. Mark(x)
    BY <1>1, <2>1, PrintKinds
  <2> QED BY <1>1, <2>2, PrintKinds DEF Stands
<1>3. LabelTables
  BY DEF LabelInv
<1>4. /\ Label!MarkJobs(x.todo) /\ printer' = [printer EXCEPT ![r] = Label!Rest]
      /\ UNCHANGED <<queuing, spool, label>> /\ excused' = excused \cup { jobs[j].dev : j \in x.todo }
  BY <1>1 DEF Label!MarkByHand
<1>5. \A j \in x.todo : jobs[j].dev \in excused'
  BY <1>4
<1>6. LabelTables' /\ Undisturbed /\ Uncorrected
  BY <1>2, <1>3, <1>4, <1>5, JobsMarked
<1> QED BY <1>4, <1>6, Harmless

-----------------------------------------------------------------------------
(* Corrections.                                                            *)

Correction(x) == Regrade(x) \/ Correct(x)

\* A regrade or a correction is a request, and where it may stand.
LEMMA CorrectionFacts ==
  ASSUME NEW x, Correction(x)
  PROVE  PrintRequest(x) /\ x.op \in {"grade", "correct"} /\ x.pc \in {"jobs", "write", "line"}
BY PrintKinds DEF Correction, PrintRequest

\* A correction that starts, or has read.
LEMMA CorrectionMoves ==
  ASSUME LabelInv, NEW r \in Requests, NEW x, printer' = [printer EXCEPT ![r] = x],
         Correction(x), Prepared(x), x.pc \in {"jobs", "write"},
         UNCHANGED <<row, jobs, queuing, spool, label, excused>>,
         CorrectingAt(r) \/ \A q \in Requests : ~CorrectingAt(q)
  PROVE  LabelInv'
<1>1. LabelTables /\ LabelTables' /\ Undisturbed /\ Uncorrected
  BY PrinterOnly DEF LabelInv
<1>2. PrintRequest(x) /\ x.op \in {"grade", "correct"}
  BY CorrectionFacts
<1>3. Stands(x)
  BY <1>2 DEF Stands
<1>4. Stands(x)'
  BY <1>1, <1>2, <1>3, StandsStill
<1>5. OthersStand(r)
  BY <1>1, OthersUndisturbed
<1> QED BY <1>1, <1>2, <1>4, <1>5, RequestSteps

\* No correction is under way when another starts.
LEMMA NoneCorrecting ==
  ASSUME LabelsAtWork, OneCorrection => ~Label!Correcting
  PROVE  \A q \in Requests : ~CorrectingAt(q)
BY DEF LabelsAtWork, Label!Correcting, CorrectingAt

\* A regrade that starts has looked for no job; a device whose SKU it does not change is
\* one whose jobs it will not look for.
LEMMA StartRegradeKeeps ==
  ASSUME LabelsAtWork, LabelInv, NEW r \in Requests, NEW ds \in SUBSET Devices, NEW g,
         Label!StartRegrade(r, ds, g)
  PROVE  LabelInv'
<1> DEFINE plan(d) == Label!planGradeCorrection(row[d], g)
           hit == { d \in ds \cap Label!Here : plan(d) # Nothing }
           sku == [d \in hit |-> plan(d)]
           looks == { d \in hit : plan(d) # row[d].sku }
           none == [d \in hit |-> {}]
<1>1. PICK regraded, flagged :
        printer' = [printer EXCEPT ![r] =
          [op |-> "grade", pc |-> "jobs", grade |-> g, sku |-> sku, regraded |-> regraded,
           flagged |-> flagged, looks |-> looks, todo |-> hit, jobs |-> none]]
  BY DEF Label!StartRegrade
<1>2. UNCHANGED <<row, jobs, queuing, spool, label, excused>> /\ (OneCorrection => ~Label!Correcting)
  BY DEF Label!StartRegrade
<1> HIDE DEF plan
<1>3. hit \subseteq Label!Here /\ DOMAIN sku = hit /\ DOMAIN none = hit /\ \A d \in hit : none[d] = {}
  OBVIOUS
<1>4. \A d \in hit : d \notin looks => sku[d] = row[d].sku
  OBVIOUS
<1>5. none = [d \in DOMAIN sku |-> none[d]]
  BY <1>3
<1> HIDE DEF hit, sku, looks, none
<1>6. PICK x : x = [op |-> "grade", pc |-> "jobs", grade |-> g, sku |-> sku, regraded |-> regraded,
                    flagged |-> flagged, looks |-> looks, todo |-> hit, jobs |-> none]
  OBVIOUS
<1>7. /\ x.op = "grade" /\ x.pc = "jobs" /\ x.sku = sku /\ x.looks = looks
      /\ x.todo = hit /\ x.jobs = none
  BY <1>6
<1>8. Correction(x)
  BY <1>6, <1>7, Zenon DEF Correction, Regrade
<1>9. Prepared(x)
  BY <1>3, <1>4, <1>5, <1>7 DEF Prepared
<1>10. printer' = [printer EXCEPT ![r] = x]
  BY <1>1, <1>6
<1> QED BY <1>2, <1>7, <1>8, <1>9, <1>10, NoneCorrecting, CorrectionMoves

\* A correction that starts has looked for no job, and will.
LEMMA StartCorrectKeeps ==
  ASSUME LabelsAtWork, LabelInv, NEW r \in Requests, NEW d \in Devices, NEW sku, NEW cascade,
         Label!StartCorrect(r, d, sku, cascade)
  PROVE  LabelInv'
<1> DEFINE skus == [e \in {d} |-> sku]
           none == [e \in {d} |-> {}]
<1>1. PICK x : x = [op |-> "correct", pc |-> "jobs", grade |-> Catalogue[sku], sku |-> skus,
                    looks |-> {d}, todo |-> {d}, jobs |-> none, cascade |-> cascade]
  OBVIOUS
<1>2. /\ printer' = [printer EXCEPT ![r] = x] /\ d \in Label!Here
      /\ UNCHANGED <<row, jobs, queuing, spool, label, excused>> /\ (OneCorrection => ~Label!Correcting)
  BY <1>1 DEF Label!StartCorrect
<1>3. DOMAIN skus = {d} /\ none = [e \in DOMAIN skus |-> none[e]] /\ none[d] = {}
  OBVIOUS
<1> HIDE DEF skus, none
<1>4. /\ x.op = "correct" /\ x.pc = "jobs" /\ x.sku = skus /\ x.looks = {d}
      /\ x.todo = {d} /\ x.jobs = none
  BY <1>1
<1>5. Correction(x)
  BY <1>1, <1>4, Zenon DEF Correction, Correct
<1>6. Prepared(x)
  BY <1>2, <1>3, <1>4 DEF Prepared
<1> QED BY <1>2, <1>4, <1>5, <1>6, NoneCorrecting, CorrectionMoves

\* The columns of a correction that the reading of jobs leaves alone.
Alike(x, y) == Correction(y) /\ y.op = x.op /\ y.sku = x.sku /\ y.looks = x.looks

\* A correction with another column.
LEMMA Edited ==
  ASSUME NEW x, Correction(x), NEW v
  PROVE  /\ \A y : y = [x EXCEPT !.todo = v] => y.todo = v /\ y.jobs = x.jobs /\ y.pc = x.pc /\ Alike(x, y)
         /\ \A y : y = [x EXCEPT !.jobs = v] => y.todo = x.todo /\ y.jobs = v /\ y.pc = x.pc /\ Alike(x, y)
         /\ v \in {"jobs", "write"} =>
              \A y : y = [x EXCEPT !.pc = v] => y.todo = x.todo /\ y.jobs = x.jobs /\ y.pc = v /\ Alike(x, y)
<1>1. CASE Regrade(x)
  <2>1. PICK pc, grade, sku, regraded, flagged, looks, todo, read :
          x = [op |-> "grade", pc |-> pc, grade |-> grade, sku |-> sku, regraded |-> regraded,
               flagged |-> flagged, looks |-> looks, todo |-> todo, jobs |-> read]
    BY <1>1 DEF Regrade
  <2>2. pc \in {"jobs", "write"}
    BY <1>1, <2>1 DEF Regrade
  <2>3. ASSUME NEW y, NEW p \in {"jobs", "write"}, NEW t, NEW j,
               y = [op |-> "grade", pc |-> p, grade |-> grade, sku |-> sku, regraded |-> regraded,
                    flagged |-> flagged, looks |-> looks, todo |-> t, jobs |-> j]
        PROVE  y.todo = t /\ y.jobs = j /\ y.pc = p /\ Alike(x, y)
    <3>1. y.todo = t /\ y.jobs = j /\ y.pc = p /\ y.op = "grade" /\ y.sku = sku /\ y.looks = looks
      BY <2>3
    <3>2. Regrade(y)
      BY <2>3, <3>1, Zenon DEF Regrade
    <3> QED BY <2>1, <3>1, <3>2 DEF Alike, Correction
  <2>4. x.todo = todo /\ x.jobs = read /\ x.pc = pc
    BY <2>1
  <2>5. ASSUME NEW y, y = [x EXCEPT !.todo = v]
        PROVE  y.todo = v /\ y.jobs = x.jobs /\ y.pc = x.pc /\ Alike(x, y)
    <3>1. y = [op |-> "grade", pc |-> pc, grade |-> grade, sku |-> sku, regraded |-> regraded,
               flagged |-> flagged, looks |-> looks, todo |-> v, jobs |-> read]
      BY <2>1, <2>5
    <3> QED BY <2>2, <2>3, <2>4, <3>1
  <2>6. ASSUME NEW y, y = [x EXCEPT !.jobs = v]
        PROVE  y.todo = x.todo /\ y.jobs = v /\ y.pc = x.pc /\ Alike(x, y)
    <3>1. y = [op |-> "grade", pc |-> pc, grade |-> grade, sku |-> sku, regraded |-> regraded,
               flagged |-> flagged, looks |-> looks, todo |-> todo, jobs |-> v]
      BY <2>1, <2>6
    <3> QED BY <2>2, <2>3, <2>4, <3>1
  <2>7. ASSUME v \in {"jobs", "write"}, NEW y, y = [x EXCEPT !.pc = v]
        PROVE  y.todo = x.todo /\ y.jobs = x.jobs /\ y.pc = v /\ Alike(x, y)
    <3>1. y = [op |-> "grade", pc |-> v, grade |-> grade, sku |-> sku, regraded |-> regraded,
               flagged |-> flagged, looks |-> looks, todo |-> todo, jobs |-> read]
      BY <2>1, <2>7
    <3>2. PICK p \in {"jobs", "write"} : p = v
      BY <2>7
    <3>3. y = [op |-> "grade", pc |-> p, grade |-> grade, sku |-> sku, regraded |-> regraded,
               flagged |-> flagged, looks |-> looks, todo |-> todo, jobs |-> read]
      BY <3>1, <3>2
    <3> QED BY <2>3, <2>4, <3>2, <3>3
  <2> QED BY <2>5, <2>6, <2>7
<1>2. CASE Correct(x)
  <2>1. PICK pc, grade, sku, looks, todo, read, cascade :
          x = [op |-> "correct", pc |-> pc, grade |-> grade, sku |-> sku, looks |-> looks,
               todo |-> todo, jobs |-> read, cascade |-> cascade]
    BY <1>2 DEF Correct
  <2>2. pc \in {"jobs", "write", "line"}
    BY <1>2, <2>1 DEF Correct
  <2>3. ASSUME NEW y, NEW p \in {"jobs", "write", "line"}, NEW t, NEW j,
               y = [op |-> "correct", pc |-> p, grade |-> grade, sku |-> sku, looks |-> looks,
                    todo |-> t, jobs |-> j, cascade |-> cascade]
        PROVE  y.todo = t /\ y.jobs = j /\ y.pc = p /\ Alike(x, y)
    <3>1. y.todo = t /\ y.jobs = j /\ y.pc = p /\ y.op = "correct" /\ y.sku = sku /\ y.looks = looks
      BY <2>3
    <3>2. Correct(y)
      BY <2>3, <3>1, Zenon DEF Correct
    <3> QED BY <2>1, <3>1, <3>2 DEF Alike, Correction
  <2>4. x.todo = todo /\ x.jobs = read /\ x.pc = pc
    BY <2>1
  <2>5. ASSUME NEW y, y = [x EXCEPT !.todo = v]
        PROVE  y.todo = v /\ y.jobs = x.jobs /\ y.pc = x.pc /\ Alike(x, y)
    <3>1. y = [op |-> "correct", pc |-> pc, grade |-> grade, sku |-> sku, looks |-> looks,
               todo |-> v, jobs |-> read, cascade |-> cascade]
      BY <2>1, <2>5
    <3> QED BY <2>2, <2>3, <2>4, <3>1
  <2>6. ASSUME NEW y, y = [x EXCEPT !.jobs = v]
        PROVE  y.todo = x.todo /\ y.jobs = v /\ y.pc = x.pc /\ Alike(x, y)
    <3>1. y = [op |-> "correct", pc |-> pc, grade |-> grade, sku |-> sku, looks |-> looks,
               todo |-> todo, jobs |-> v, cascade |-> cascade]
      BY <2>1, <2>6
    <3> QED BY <2>2, <2>3, <2>4, <3>1
  <2>7. ASSUME v \in {"jobs", "write"}, NEW y, y = [x EXCEPT !.pc = v]
        PROVE  y.todo = x.todo /\ y.jobs = x.jobs /\ y.pc = v /\ Alike(x, y)
    <3>1. y = [op |-> "correct", pc |-> v, grade |-> grade, sku |-> sku, looks |-> looks,
               todo |-> todo, jobs |-> read, cascade |-> cascade]
      BY <2>1, <2>7
    <3>2. PICK p \in {"jobs", "write"} : p = v
      BY <2>7
    <3>3. y = [op |-> "correct", pc |-> p, grade |-> grade, sku |-> sku, looks |-> looks,
               todo |-> todo, jobs |-> read, cascade |-> cascade]
      BY <3>1, <3>2
    <3> QED BY <2>3, <2>4, <3>2, <3>3
  <2> QED BY <2>5, <2>6, <2>7
<1> QED BY <1>1, <1>2 DEF Correction

\* A record with the columns of an owner's correction is one.
LEMMA ACorrection ==
  ASSUME NEW y, NEW grade, NEW sku, NEW looks, NEW todo, NEW read, NEW cascade,
         y = [op |-> "correct", pc |-> "line", grade |-> grade, sku |-> sku, looks |-> looks,
              todo |-> todo, jobs |-> read, cascade |-> cascade]
  PROVE  Correct(y) /\ y.pc = "line"
<1>1. y.pc = "line"
  OBVIOUS
<1>2. Correct(y)
  BY <1>1, Zenon DEF Correct
<1> QED BY <1>1, <1>2

\* An owner's correction that goes on to the manifest line.
LEMMA ToTheLine ==
  ASSUME NEW x, Correct(x), NEW y, y = [x EXCEPT !.pc = "line"]
  PROVE  Correct(y) /\ y.pc = "line"
<1>1. PICK pc, grade, sku, looks, todo, read, cascade :
        x = [op |-> "correct", pc |-> pc, grade |-> grade, sku |-> sku, looks |-> looks,
             todo |-> todo, jobs |-> read, cascade |-> cascade]
  BY DEF Correct
<1>2. y = [op |-> "correct", pc |-> "line", grade |-> grade, sku |-> sku, looks |-> looks,
           todo |-> todo, jobs |-> read, cascade |-> cascade]
  BY <1>1
<1> QED BY <1>2, ACorrection

\* A correction reads the queued jobs of one device.
LEMMA ReadJobsKeeps ==
  ASSUME LabelInv, NEW r \in Requests, Label!ReadJobs(r)
  PROVE  LabelInv'
<1>1. PICK x : x = printer[r] /\ PrintRequest(x) /\ Stands(x)
  BY RequestAt DEF Label!ReadJobs
<1>2. x.pc = "jobs" /\ Label!Busy(r)
  BY <1>1 DEF Label!ReadJobs
<1>3. Correction(x) /\ x.op \in {"grade", "correct"} /\ Prepared(x)
  BY <1>1, <1>2, PrintKinds DEF Correction, PrintRequest, Stands, Send, Mark
<1>4. PICK d \in x.todo :
        printer' = [printer EXCEPT ![r].todo = @ \ {d},
                                   ![r].jobs[d] = IF d \in x.looks THEN Label!Queued(d) ELSE {},
                                   ![r].pc = IF x.todo = {d} THEN "write" ELSE "jobs"]
  BY <1>1 DEF Label!ReadJobs
<1>5. UNCHANGED <<row, jobs, queuing, spool, label, excused>>
  BY DEF Label!ReadJobs
<1>6. PICK read : read = IF d \in x.looks THEN Label!Queued(d) ELSE {}
  OBVIOUS
<1>7. PICK p \in {"jobs", "write"} : p = IF x.todo = {d} THEN "write" ELSE "jobs"
  OBVIOUS
<1>8. PICK u : u = [x EXCEPT !.todo = x.todo \ {d}]
  OBVIOUS
<1>9. PICK v : v = [u EXCEPT !.jobs = [x.jobs EXCEPT ![d] = read]]
  OBVIOUS
<1>10. PICK z : z = [v EXCEPT !.pc = p]
  OBVIOUS
<1>11. u.todo = x.todo \ {d} /\ u.jobs = x.jobs /\ u.pc = x.pc /\ Alike(x, u)
  BY <1>3, <1>8, Edited
<1>12. v.todo = u.todo /\ v.jobs = [x.jobs EXCEPT ![d] = read] /\ Alike(u, v)
  BY <1>9, <1>11, Edited DEF Alike
<1>13. z.todo = v.todo /\ z.jobs = v.jobs /\ z.pc = p /\ Alike(v, z)
  BY <1>10, <1>12, Edited DEF Alike
<1>14. /\ Correction(z) /\ z.sku = x.sku /\ z.looks = x.looks /\ z.todo = x.todo \ {d}
       /\ z.jobs = [x.jobs EXCEPT ![d] = read] /\ z.pc \in {"jobs", "write"}
  BY <1>11, <1>12, <1>13 DEF Alike
<1>15. printer' = [printer EXCEPT ![r] = z]
  <2>1. printer' = [[[printer EXCEPT ![r] = u] EXCEPT ![r].jobs[d] = read] EXCEPT ![r].pc = p]
    BY <1>1, <1>4, <1>6, <1>7, <1>8
  <2>2. [[printer EXCEPT ![r] = u] EXCEPT ![r].jobs[d] = read] = [printer EXCEPT ![r] = v]
    BY <1>9, <1>11 DEF LabelInv
  <2>3. [[printer EXCEPT ![r] = v] EXCEPT ![r].pc = p] = [printer EXCEPT ![r] = z]
    BY <1>10 DEF LabelInv
  <2> QED BY <2>1, <2>2, <2>3
<1>16. Prepared(z)
  <2>1. read \subseteq Label!Queued(d) /\ (read # {} => read = Label!Queued(d))
    BY <1>6
  <2>2. Label!Queued(d) \subseteq JobsOf(d)
    BY JobFacts DEF LabelInv, JobsOf
  <2>3. \A e \in DOMAIN x.sku : z.jobs[e] = IF e = d THEN read ELSE x.jobs[e]
    BY <1>3, <1>14 DEF Prepared
  <2>4. z.jobs = [e \in DOMAIN z.sku |-> z.jobs[e]]
    BY <1>3, <1>14 DEF Prepared
  <2> QED BY <1>3, <1>14, <2>1, <2>2, <2>3, <2>4 DEF Prepared
<1>17. CorrectingAt(r)
  BY <1>1, <1>2, <1>3 DEF CorrectingAt
<1> QED BY <1>5, <1>14, <1>15, <1>16, <1>17, CorrectionMoves

\* A correction's batch: the rows with their new SKUs, what was queued is invalid, and a
\* new job is queued for each device of which one was.
LEMMA BatchWritten ==
  ASSUME LabelsAtWork, LabelTables, NEW r \in Requests, NEW x, x = printer[r], Prepared(x),
         row' = [d \in Devices |-> row'[d]],
         \A d \in DOMAIN x.sku : LabelRow(row'[d]) /\ row'[d].sku = x.sku[d],
         \A d \in Devices \ DOMAIN x.sku : row'[d] = row[d],
         jobs' = Label!Requeued(r), excused' = Label!Excused(r),
         UNCHANGED <<queuing, spool, label>>
  PROVE  LabelTables' /\ Undisturbed
<1> DEFINE E == { d \in DOMAIN x.sku : x.jobs[d] # {} }
<1>1. /\ jobs' \in Seq(Job)
      /\ DOMAIN jobs \subseteq DOMAIN jobs'
      /\ \A j \in DOMAIN jobs :
           /\ jobs'[j].dev = jobs[j].dev
           /\ jobs[j].dev \notin E => jobs'[j].status = jobs[j].status
           /\ jobs[j].dev \in E => jobs'[j].status # "queued"
      /\ \A d \in E : \E j \in DOMAIN jobs' \ DOMAIN jobs : jobs'[j] = Label!NewJob(d)
      /\ \A j \in DOMAIN jobs' \ DOMAIN jobs : \E d \in E : jobs'[j] = Label!NewJob(d)
      /\ \A j, k \in DOMAIN jobs' \ DOMAIN jobs : jobs'[j] = jobs'[k] => j = k
  BY Requeue
<1>2. /\ DOMAIN x.sku \subseteq Devices /\ \A d \in DOMAIN x.sku : row[d] # Nothing
      /\ DOMAIN x.jobs = DOMAIN x.sku
      /\ \A d \in DOMAIN x.sku : x.jobs[d] \subseteq JobsOf(d)
      /\ \A d \in DOMAIN x.sku : d \notin x.looks => x.sku[d] = row[d].sku
  BY DEF Prepared, Label!Here
<1>3. \A d \in E : d \in Devices /\ JobsOf(d) # {}
  BY <1>2
<1>4. excused' = { d \in DOMAIN x.sku : x.jobs[d] = {} /\ d \in x.looks /\ x.sku[d] # row[d].sku }
                 \cup { d \in excused : d \in DOMAIN x.sku => x.jobs[d] = {} }
  BY <1>2 DEF Label!Excused
<1> HIDE DEF E
<1>5. \A j \in DOMAIN jobs : jobs[j] \in Job /\ jobs[j].dev \in Devices
  BY JobFacts DEF Job
<1>6. \A j \in DOMAIN jobs' : jobs'[j] \in Job
  BY <1>1
<1>7. \A d : Label!Queued(d)' = { j \in DOMAIN jobs' : jobs'[j].dev = d /\ jobs'[j].status = "queued" }
  <2>1. \A c : \A y \in Job : y = [dev |-> c, status |-> "queued"] <=> y.dev = c /\ y.status = "queued"
    BY DEF Job
  <2> QED BY <1>6, <2>1 DEF Label!Queued, Label!NewJob
<1>8. \A d : Label!Queued(d) = { j \in DOMAIN jobs : jobs[j].dev = d /\ jobs[j].status = "queued" }
  BY JobFacts
<1>9. \A j \in DOMAIN jobs' \ DOMAIN jobs : jobs'[j].dev \in E /\ jobs'[j].status = "queued"
  BY <1>1 DEF Label!NewJob
<1>10. \A d \in Devices \ E : JobsOf(d)' = JobsOf(d) /\ Label!Queued(d)' = Label!Queued(d)
  <2> SUFFICES ASSUME NEW d \in Devices \ E
               PROVE  JobsOf(d)' = JobsOf(d) /\ Label!Queued(d)' = Label!Queued(d)
    OBVIOUS
  <2>1. \A j \in DOMAIN jobs' : jobs'[j].dev = d => j \in DOMAIN jobs /\ jobs[j].dev = d
    BY <1>1, <1>9
  <2>2. \A j \in DOMAIN jobs : jobs[j].dev = d => jobs'[j].dev = d /\ jobs'[j].status = jobs[j].status
    BY <1>1
  <2>3. JobsOf(d)' = JobsOf(d)
    BY <1>1, <2>1, <2>2 DEF JobsOf
  <2>4. \A j : j \in DOMAIN jobs' /\ jobs'[j].dev = d /\ jobs'[j].status = "queued"
                <=> j \in DOMAIN jobs /\ jobs[j].dev = d /\ jobs[j].status = "queued"
    BY <1>1, <2>1, <2>2
  <2>5. Label!Queued(d)' = Label!Queued(d)
    BY <1>7, <1>8, <2>4
  <2> QED BY <2>3, <2>5
<1>11. ASSUME NEW d \in E
       PROVE  \E n : n \notin DOMAIN jobs /\ Label!Queued(d)' = {n}
  <2>1. PICK n \in DOMAIN jobs' \ DOMAIN jobs : jobs'[n] = Label!NewJob(d)
    BY <1>1, <1>11
  <2>2. n \in Label!Queued(d)'
    BY <1>7, <2>1 DEF Label!NewJob
  <2>3. ASSUME NEW m \in Label!Queued(d)'
        PROVE  m = n
    <3>1. m \in DOMAIN jobs' /\ jobs'[m].dev = d /\ jobs'[m].status = "queued"
      BY <1>7, <2>3
    <3>2. m \notin DOMAIN jobs
      BY <1>1, <1>11, <3>1
    <3>3. PICK e \in E : jobs'[m] = Label!NewJob(e)
      BY <1>1, <3>1, <3>2
    <3>4. e = d
      BY <3>1, <3>3 DEF Label!NewJob
    <3> QED BY <1>1, <2>1, <3>1, <3>2, <3>3, <3>4
  <2> QED BY <2>1, <2>2, <2>3
<1>12. \A d \in Devices \ E : row[d] # Nothing /\ Settled(d) => Settled(d)'
  <2> SUFFICES ASSUME NEW d \in Devices \ E, row[d] # Nothing, Settled(d) PROVE Settled(d)'
    OBVIOUS
  <2>1. CASE d \notin DOMAIN x.sku
    BY <1>4, <2>1 DEF Settled
  <2>2. CASE d \in DOMAIN x.sku
    <3>1. x.jobs[d] = {} /\ row'[d].sku = x.sku[d]
      BY <2>2 DEF E
    <3>2. CASE x.sku[d] = row[d].sku
      BY <1>4, <3>1, <3>2 DEF Settled
    <3>3. CASE x.sku[d] # row[d].sku
      <4>1. d \in excused'
        BY <1>2, <1>4, <2>2, <3>1, <3>3
      <4> QED BY <4>1 DEF Settled
    <3> QED BY <3>2, <3>3
  <2> QED BY <2>1, <2>2
<1>13. \A d \in Devices : row[d] # Nothing => row'[d] # Nothing
  BY DEF LabelsAtWork
<1>14. \A d \in Devices : JobsOf(d) # {} => row[d] # Nothing
  BY DEF LabelTables, JobsOf
<1>15. \A d \in Devices : CaughtUp(d)'
  <2> SUFFICES ASSUME NEW d \in Devices PROVE CaughtUp(d)'
    OBVIOUS
  <2>1. CASE d \in E
    BY <1>11, <2>1 DEF CaughtUp
  <2>2. CASE d \notin E
    BY <1>10, <1>12, <1>14, <2>2 DEF CaughtUp, LabelTables
  <2> QED BY <2>1, <2>2
<1>16. \A d \in Devices : \A j \in JobsOf(d) : Spared(d, j) => Spared(d, j)'
  <2> SUFFICES ASSUME NEW d \in Devices, NEW j \in JobsOf(d), Spared(d, j) PROVE Spared(d, j)'
    OBVIOUS
  <2>1. CASE d \in E
    <3>1. PICK n : n \notin DOMAIN jobs /\ n \in Label!Queued(d)'
      BY <1>11, <2>1
    <3> QED BY <3>1 DEF Spared, JobsOf
  <2>2. CASE d \notin E
    BY <1>10, <1>12, <1>14, <2>2 DEF Spared
  <2> QED BY <2>1, <2>2
<1>17. \A j \in DOMAIN jobs' : row'[jobs'[j].dev] # Nothing
  <2> SUFFICES ASSUME NEW j \in DOMAIN jobs' PROVE row'[jobs'[j].dev] # Nothing
    OBVIOUS
  <2>1. CASE j \in DOMAIN jobs
    BY <1>1, <1>5, <1>13, <2>1 DEF LabelTables
  <2>2. CASE j \notin DOMAIN jobs
    <3>1. jobs'[j].dev \in E
      BY <1>9, <2>2
    <3> QED BY <1>3, <1>13, <1>14, <3>1
  <2> QED BY <2>1, <2>2
<1>18. \A d \in queuing : d \notin E /\ row'[d] # Nothing /\ JobsOf(d)' = {}
  BY <1>3, <1>10, <1>13 DEF LabelTables
<1>19. \A d \in Devices : \A j, k \in Label!Queued(d)' : j = k
  <2> SUFFICES ASSUME NEW d \in Devices, NEW j \in Label!Queued(d)', NEW k \in Label!Queued(d)' PROVE j = k
    OBVIOUS
  <2>1. CASE d \in E
    BY <1>11, <2>1
  <2>2. CASE d \notin E
    BY <1>10, <2>2 DEF LabelTables
  <2> QED BY <2>1, <2>2
<1>20. \A d \in Devices : row'[d] = Nothing \/ LabelRow(row'[d])
  BY DEF LabelTables
<1>21. LabelTables'
  BY <1>1, <1>15, <1>17, <1>18, <1>19, <1>20 DEF LabelTables
<1>22. Undisturbed
  BY <1>1, <1>13, <1>16 DEF Undisturbed
<1> QED BY <1>21, <1>22

\* The others are no corrections, and are undisturbed by this one's batch.
LEMMA OthersDoNotCorrect ==
  ASSUME LabelInv, NEW r \in Requests, CorrectingAt(r)
  PROVE  \A q \in Requests \ {r} : ~CorrectingAt(q)
BY DEF LabelInv, OneAtWork, CorrectingAt

\* The batch of a regrade, which ends.
LEMMA WriteRegradeKeeps ==
  ASSUME LabelsAtWork, LabelInv, NEW r \in Requests, Label!WriteRegrade(r)
  PROVE  LabelInv'
<1>1. PICK x : x = printer[r] /\ PrintRequest(x) /\ Stands(x)
  BY RequestAt DEF Label!WriteRegrade
<1>2. x.pc = "write" /\ Label!Busy(r) /\ x.op = "grade"
  BY <1>1 DEF Label!WriteRegrade
<1>3. Prepared(x) /\ LabelTables /\ CorrectingAt(r)
  BY <1>1, <1>2 DEF Stands, LabelInv, CorrectingAt
<1>4. row' = [d \in Devices |->
        IF d \in DOMAIN x.sku
          THEN [row[d] EXCEPT !.sku = x.sku[d], !.grade = IF d \in x.regraded THEN x.grade ELSE @]
          ELSE row[d]]
  BY <1>1 DEF Label!WriteRegrade
<1>5. /\ jobs' = Label!Requeued(r) /\ excused' = Label!Excused(r) /\ UNCHANGED <<queuing, spool, label>>
      /\ printer' = [printer EXCEPT ![r] = Label!Rest]
  BY DEF Label!WriteRegrade
<1>6. ASSUME NEW d \in DOMAIN x.sku
      PROVE  LabelRow(row'[d]) /\ row'[d].sku = x.sku[d]
  <2>1. d \in Devices /\ LabelRow(row[d])
    BY <1>3 DEF Prepared, Label!Here, LabelTables
  <2>2. PICK y : y = row[d]
    OBVIOUS
  <2>3. PICK u : u = [y EXCEPT !.sku = x.sku[d]]
    OBVIOUS
  <2>4. LabelRow(u) /\ u.sku = x.sku[d]
    BY <2>1, <2>2, <2>3, SkuEdited
  <2>5. PICK g : g = IF d \in x.regraded THEN x.grade ELSE u.grade
    OBVIOUS
  <2>6. PICK z : z = [u EXCEPT !.grade = g]
    OBVIOUS
  <2>7. LabelRow(z) /\ z.sku = x.sku[d]
    BY <2>4, <2>6, RowEdited
  <2>8. row'[d] = z
    BY <1>4, <2>1, <2>2, <2>3, <2>5, <2>6
  <2> QED BY <2>7, <2>8
<1>7. row' = [d \in Devices |-> row'[d]] /\ \A d \in Devices \ DOMAIN x.sku : row'[d] = row[d]
  BY <1>4
<1>8. LabelTables' /\ Undisturbed
  BY <1>1, <1>3, <1>5, <1>6, <1>7, BatchWritten
<1>9. OthersStand(r)
  BY <1>3, <1>8, OthersDoNotCorrect, OthersUndisturbed
<1> QED BY <1>5, <1>8, <1>9, RequestSteps

\* The batch of an owner's correction, which goes on to the manifest line.
LEMMA WriteCorrectKeeps ==
  ASSUME LabelsAtWork, LabelInv, NEW r \in Requests, Label!WriteCorrect(r)
  PROVE  LabelInv'
<1>1. PICK x : x = printer[r] /\ PrintRequest(x) /\ Stands(x)
  BY RequestAt DEF Label!WriteCorrect
<1>2. x.pc = "write" /\ Label!Busy(r) /\ x.op = "correct"
  BY <1>1 DEF Label!WriteCorrect
<1>3. Prepared(x) /\ LabelTables /\ CorrectingAt(r)
  BY <1>1, <1>2 DEF Stands, LabelInv, CorrectingAt
<1>4. row' = [d \in Devices |->
        IF d \in DOMAIN x.sku
          THEN [row[d] EXCEPT !.sku = x.sku[d], !.grade = x.grade] ELSE row[d]]
  BY <1>1 DEF Label!WriteCorrect
<1>5. /\ jobs' = Label!Requeued(r) /\ excused' = Label!Excused(r) /\ UNCHANGED <<queuing, spool, label>>
      /\ printer' = [printer EXCEPT ![r].pc = "line"]
  BY DEF Label!WriteCorrect
<1>6. ASSUME NEW d \in DOMAIN x.sku
      PROVE  LabelRow(row'[d]) /\ row'[d].sku = x.sku[d]
  <2>1. d \in Devices /\ LabelRow(row[d])
    BY <1>3 DEF Prepared, Label!Here, LabelTables
  <2>2. PICK y : y = row[d]
    OBVIOUS
  <2>3. PICK u : u = [y EXCEPT !.sku = x.sku[d]]
    OBVIOUS
  <2>4. LabelRow(u) /\ u.sku = x.sku[d]
    BY <2>1, <2>2, <2>3, SkuEdited
  <2>5. PICK z : z = [u EXCEPT !.grade = x.grade]
    OBVIOUS
  <2>6. LabelRow(z) /\ z.sku = x.sku[d]
    BY <2>4, <2>5, RowEdited
  <2>7. row'[d] = z
    BY <1>4, <2>1, <2>2, <2>3, <2>5
  <2> QED BY <2>6, <2>7
<1>7. row' = [d \in Devices |-> row'[d]] /\ \A d \in Devices \ DOMAIN x.sku : row'[d] = row[d]
  BY <1>4
<1>8. LabelTables' /\ Undisturbed
  BY <1>1, <1>3, <1>5, <1>6, <1>7, BatchWritten
<1>9. OthersStand(r)
  BY <1>3, <1>8, OthersDoNotCorrect, OthersUndisturbed
<1>10. PICK y : y = [x EXCEPT !.pc = "line"]
  OBVIOUS
<1>11. Correct(x)
  BY <1>1, <1>2, PrintKinds DEF PrintRequest
<1>12. Correct(y) /\ y.pc = "line"
  BY <1>10, <1>11, ToTheLine
<1>13. PrintRequest(y) /\ y.op = "correct"
  BY <1>12, PrintKinds DEF PrintRequest
<1>14. Stands(y)'
  BY <1>12, <1>13 DEF Stands
<1>15. printer' = [printer EXCEPT ![r] = y]
  BY <1>1, <1>5, <1>10
<1> QED BY <1>3, <1>8, <1>9, <1>13, <1>14, <1>15, RequestSteps

-----------------------------------------------------------------------------
(* Every step, and the theorems.                                           *)

\* A job that is not queued after all.
LEMMA NoLabelKeeps ==
  ASSUME LabelInv, NEW d \in Devices, Label!NoLabel(d)
  PROVE  LabelInv'
<1>1. /\ queuing' \subseteq queuing /\ printer' = printer
      /\ UNCHANGED <<row, jobs, spool, label, excused>>
  BY DEF Label!NoLabel
<1>2. LabelTables
  BY DEF LabelInv
<1>3. \A e : JobsOf(e)' = JobsOf(e) /\ Label!Queued(e)' = Label!Queued(e)
  BY <1>1 DEF JobsOf, Label!Queued
<1>4. \A e : Settled(e)' <=> Settled(e)
  BY <1>1 DEF Settled
<1>5. \A e \in Devices : CaughtUp(e)'
  BY <1>2, <1>3, <1>4 DEF CaughtUp, LabelTables
<1>6. \A e : \A j : Spared(e, j) => Spared(e, j)'
  BY <1>3, <1>4 DEF Spared
<1>7. LabelTables'
  BY <1>1, <1>2, <1>3, <1>5 DEF LabelTables
<1>8. Undisturbed /\ Uncorrected
  BY <1>1, <1>3, <1>6 DEF Undisturbed, Uncorrected
<1> QED BY <1>1, <1>7, <1>8, RequestsStay

\* A step that touches neither the tables nor the requests.
LEMMA Elsewhere ==
  ASSUME LabelInv, printer' = printer, UNCHANGED <<row, jobs, queuing, spool, label, excused>>
  PROVE  LabelInv'
BY PrinterOnly, RequestsStay

\* No step disturbs the labels' invariant.
LEMMA LabelNextKeeps ==
  ASSUME LabelsAtWork, LabelInv, [Label!Next]_(Label!vars)
  PROVE  LabelInv'
<1>1. ASSUME NEW d \in Devices,
             \/ Label!Receive(d) \/ Label!QueueLabel(d) \/ Label!NoLabel(d) \/ Label!resolveFlag(d)
             \/ Label!PrintSpooled(d)
      PROVE  LabelInv'
  <2>1. CASE Label!resolveFlag(d)
    BY <2>1, Elsewhere DEF Label!resolveFlag
  <2> QED BY <1>1, <2>1, ReceiveKeeps, QueueLabelKeeps, NoLabelKeeps, PrintSpooledKeeps
<1>2. ASSUME NEW r \in Requests, Label!Correction(r)
      PROVE  LabelInv'
  BY <1>2, StartRegradeKeeps, StartCorrectKeeps, ReadJobsKeeps, WriteRegradeKeeps, WriteCorrectKeeps,
     CascadeKeeps DEF Label!Correction
<1>3. ASSUME NEW r \in Requests, Label!Printing(r)
      PROVE  LabelInv'
  <2>1. /\ Label!AllQueued \in SUBSET DOMAIN jobs
        /\ \A j \in DOMAIN jobs : {j} \in SUBSET DOMAIN jobs
    BY DEF Label!AllQueued
  <2> QED BY <1>3, <2>1, SendStarts, MarkStarts, SendToPrintNodeKeeps, MarkSentKeeps, MarkByHandKeeps
          DEF Label!Printing
<1>4. ASSUME NEW m \in Label!Modes, Label!SetMode(m)
      PROVE  LabelInv'
  BY <1>4, Elsewhere DEF Label!SetMode
<1>5. CASE UNCHANGED Label!vars
  BY <1>5, Elsewhere DEF Label!vars
<1> QED BY <1>1, <1>2, <1>3, <1>4, <1>5, MoveKeeps, AbandonKeeps, OpenPageKeeps DEF Label!Next

\* The labels' invariant holds for any devices, catalogue, requests and bounds, in every
\* order of receipts, corrections, sends, marks, prints and deaths of workers.
THEOREM LabelsInductive ==
  ASSUME LabelsAtWork
  PROVE  Label!Spec => []LabelInv
<1>1. LabelInv /\ [Label!Next]_(Label!vars) => LabelInv'
  BY LabelNextKeeps
<1> QED BY <1>1, LabelInit, PTL DEF Label!Spec

\* A label that is not that of the device's SKU is never forgotten: a job is queued for
\* the device or PrintNode has its page, unless it is excused (routes/print.ts,
\* lib/gradeCorrection.ts).
THEOREM LabelsAreCaughtUp ==
  ASSUME LabelsAtWork
  PROVE  Label!Spec => []LabelsCatchUp
BY LabelsInductive, LabelInvGives, PTL

-----------------------------------------------------------------------------
(* The customs file: when a form can be computed.                          *)

\* The columns that the form and the variance of its value are computed from.
FormColumns ==
  {"direction", "shipment_type", "repair_cost", "repair_cost_currency", "customs_exchange_rate",
   "customs_exchange_rate_month", "duty_rate_pct", "inbound_freight_gbp",
   "non_eu_freight_share_gbp", "export_freight_gbp", "insurance_gbp", "entry_duty_base_gbp",
   "entry_vat_base_gbp", "entry_duty_gbp", "entry_vat_gbp", "declared_invoice_total_gbp",
   "duty_override_claimed"}

\* What a row itself must say for its form to be computed.
Fillable(header) ==
  /\ header.direction = "import"
  /\ IF Customs!hasWorksheetInputs(header)
       THEN /\ ~(header.repair_cost <= 0)
            /\ ~Customs!RateMissing(header) /\ ~Customs!MonthMissing(header) /\ ~Customs!MonthStray(header)
            /\ ~Customs!DutyOutOfRange(header)
            /\ ~(Customs!Duty(header) = 0 /\ ~header.duty_override_claimed)
       ELSE /\ Unset \notin Customs!EntryFigures(header)
            /\ ~(header.entry_duty_gbp = 0 /\ ~header.duty_override_claimed)

\* What must be so around it.
Surrounded(export, auth, held) ==
  /\ held # {}
  /\ auth # Unset /\ auth.op_authorisation_number # Unset
  /\ export # Unset /\ export.export_mrn # Unset

\* The form can be computed if its row and what surrounds it say enough, and then it has
\* the verdict on the declared figures.
LEMMA FormIsComputed ==
  ASSUME NEW header, NEW export, NEW auth, NEW held, NEW siblings, NEW noted
  PROVE  LET form == Customs!computeCe1154(header, export, auth, held, Unset, siblings, noted) IN
         /\ form.ok <=> Fillable(header) /\ Surrounded(export, auth, held)
         /\ form.ok => form.misdeclaration = Customs!checkMisdeclaration(header, held, siblings, noted)
         /\ form.ok =>
              form = IF Customs!hasWorksheetInputs(header)
                       THEN Customs!Computed(header, held, Customs!checkMisdeclaration(header, held, siblings, noted))
                       ELSE Customs!EntryPending(header, Customs!checkMisdeclaration(header, held, siblings, noted))
<1> DEFINE m == Customs!checkMisdeclaration(header, held, siblings, noted)
           f == Customs!Computed(header, held, m)
           e == Customs!EntryPending(header, m)
           form == Customs!computeCe1154(header, export, auth, held, Unset, siblings, noted)
<1>1. f.ok = TRUE /\ f.misdeclaration = m /\ f.duty = Customs!Duty(header)
  BY DEF Customs!Computed
<1>2. e.ok = TRUE /\ e.misdeclaration = m /\ e.duty = header.entry_duty_gbp
  BY DEF Customs!EntryPending
<1>3. \A error : Customs!Refusal(error).ok = FALSE
  BY DEF Customs!Refusal
<1>4. Customs!computeCe1154(header, export, auth, held, Unset, siblings, noted) =
        IF header.direction # "import" THEN Customs!Refusal("not an import")
        ELSE IF held = {} THEN Customs!Refusal("no lines")
        ELSE IF auth = Unset \/ auth.op_authorisation_number = Unset THEN Customs!Refusal("authorisation")
        ELSE IF export = Unset \/ export.export_mrn = Unset THEN Customs!Refusal("export MRN")
        ELSE IF Customs!hasWorksheetInputs(header) THEN
          IF header.repair_cost <= 0 THEN Customs!Refusal("repair cost")
          ELSE IF Customs!RateMissing(header) \/ Customs!MonthMissing(header) \/ Customs!MonthStray(header)
            THEN Customs!Refusal("exchange rate")
          ELSE IF Customs!DutyOutOfRange(header) THEN Customs!Refusal("duty rate")
          ELSE Customs!DutyDeclared(header, f)
        ELSE IF Unset \in Customs!EntryFigures(header) THEN Customs!Refusal("nothing to compute from")
        ELSE Customs!DutyDeclared(header, e)
  BY DEF Customs!computeCe1154
<1> HIDE DEF m, f, e
<1>5. /\ Customs!DutyDeclared(header, f) = IF Customs!Duty(header) = 0 /\ ~header.duty_override_claimed
                                          THEN Customs!Refusal("duty_override_claimed") ELSE f
      /\ Customs!DutyDeclared(header, e) = IF header.entry_duty_gbp = 0 /\ ~header.duty_override_claimed
                                          THEN Customs!Refusal("duty_override_claimed") ELSE e
  BY <1>1, <1>2 DEF Customs!DutyDeclared
<1>6. form.ok => form = IF Customs!hasWorksheetInputs(header) THEN f ELSE e
  BY <1>3, <1>4, <1>5
<1> QED BY <1>1, <1>2, <1>3, <1>4, <1>5, <1>6 DEF Fillable, Surrounded, m, f, e

SameColumns(header, new) == \A c \in FormColumns : new[c] = header[c]

\* Rows with the same columns have forms alike.
LEMMA FormOfColumns ==
  ASSUME NEW header, NEW new, SameColumns(header, new)
  PROVE  /\ Fillable(new) <=> Fillable(header)
         /\ Customs!Standard(new) <=> Customs!Standard(header)
         /\ new.declared_invoice_total_gbp = header.declared_invoice_total_gbp
<1>1. /\ new.direction = header.direction /\ new.shipment_type = header.shipment_type
      /\ new.repair_cost = header.repair_cost /\ new.repair_cost_currency = header.repair_cost_currency
      /\ new.customs_exchange_rate = header.customs_exchange_rate
      /\ new.customs_exchange_rate_month = header.customs_exchange_rate_month
      /\ new.duty_rate_pct = header.duty_rate_pct
      /\ new.inbound_freight_gbp = header.inbound_freight_gbp
      /\ new.non_eu_freight_share_gbp = header.non_eu_freight_share_gbp
      /\ new.export_freight_gbp = header.export_freight_gbp
      /\ new.insurance_gbp = header.insurance_gbp
      /\ new.entry_duty_base_gbp = header.entry_duty_base_gbp
      /\ new.entry_vat_base_gbp = header.entry_vat_base_gbp
      /\ new.entry_duty_gbp = header.entry_duty_gbp /\ new.entry_vat_gbp = header.entry_vat_gbp
      /\ new.declared_invoice_total_gbp = header.declared_invoice_total_gbp
      /\ new.duty_override_claimed = header.duty_override_claimed
  BY DEF SameColumns, FormColumns
<1>2. Customs!Foreign(new) <=> Customs!Foreign(header)
  BY <1>1 DEF Customs!Foreign
<1>3. Customs!hasWorksheetInputs(new) <=> Customs!hasWorksheetInputs(header)
  BY <1>1 DEF Customs!hasWorksheetInputs, Customs!WorksheetInputs
<1>4. /\ Customs!RateMissing(new) <=> Customs!RateMissing(header)
      /\ Customs!MonthMissing(new) <=> Customs!MonthMissing(header)
      /\ Customs!MonthStray(new) <=> Customs!MonthStray(header)
      /\ Customs!DutyOutOfRange(new) <=> Customs!DutyOutOfRange(header)
  BY <1>1, <1>2 DEF Customs!RateMissing, Customs!MonthMissing, Customs!MonthStray, Customs!DutyOutOfRange
<1>5. Customs!ProcessChargeGbp(new) = Customs!ProcessChargeGbp(header)
  BY <1>1, <1>2 DEF Customs!ProcessChargeGbp
<1>6. Customs!Duty(new) = Customs!Duty(header)
  BY <1>1, <1>5 DEF Customs!Duty, Customs!DutyBase
<1>7. Customs!EntryFigures(new) = Customs!EntryFigures(header)
  BY <1>1 DEF Customs!EntryFigures
<1> QED BY <1>1, <1>3, <1>4, <1>6, <1>7 DEF Fillable, Customs!Standard

-----------------------------------------------------------------------------
(* The customs file: what is acknowledged.                                 *)

\* The staff create, edit and finalise one shipment at a time; a row has its columns, of
\* which PATCH changes neither the status nor what is not given; and NULL is no pair.
FiledInTurn ==
  /\ {"create", "edit", "line", "finalise"} \subseteq FiledAlone
  /\ \A s \in Consignments : FormColumns \cup {"status"} \subseteq DOMAIN Body[s]
  /\ \A s \in Consignments : \A change \in Changes[s] : "status" \notin DOMAIN change
  /\ \A x, y : Unset # <<x, y>>

Varies(header, s) ==
  /\ ~Customs!Standard(header)
  /\ header.declared_invoice_total_gbp # Unset
  /\ header.declared_invoice_total_gbp # Customs!sumLineValues(lines[s])

Noted(header, s) ==
  \E i \in DOMAIN acks :
    /\ acks[i].ship = s /\ acks[i].type = "value"
    /\ acks[i].figures = <<header.declared_invoice_total_gbp, Customs!sumLineValues(lines[s])>>

\* A variance of a form that can be filled in is acknowledged, by its figures.
Signed(header, s) == Fillable(header) /\ Varies(header, s) => Noted(header, s)

\* What was acknowledged last was acknowledged.
LEMMA LatestAck ==
  ASSUME NEW S, acks \in Seq(S), NEW s, Customs!loadMisdeclarationAcks(s)["value"] # Unset
  PROVE  \E i \in DOMAIN acks :
           /\ acks[i].ship = s /\ acks[i].type = "value"
           /\ acks[i].figures = Customs!loadMisdeclarationAcks(s)["value"]
<1> DEFINE at == { i \in DOMAIN acks : acks[i].ship = s /\ acks[i].type = "value" }
<1>1. Customs!loadMisdeclarationAcks(s)["value"] = IF at = {} THEN Unset ELSE acks[Customs!Max(at)].figures
  BY DEF Customs!loadMisdeclarationAcks, Customs!VarianceTypes
<1>2. at # {}
  BY <1>1
<1>3. DOMAIN acks = 1..Len(acks) /\ Len(acks) \in Nat
  OBVIOUS
<1>4. \E i \in at : \A j \in at : i >= j
  <2> DEFINE past == { Len(acks) - i : i \in at }
  <2>1. past \in SUBSET Nat /\ past # {}
    BY <1>2, <1>3
  <2>2. PICK n \in past : \A m \in past : n <= m
    <3> HIDE DEF past
    <3> QED BY <2>1, NumbersHaveALeast
  <2>3. PICK i \in at : n = Len(acks) - i
    BY <2>2
  <2>4. ASSUME NEW j \in at PROVE i >= j
    <3>1. Len(acks) - j \in past
      OBVIOUS
    <3>2. n <= Len(acks) - j
      <4> HIDE DEF past
      <4> QED BY <3>1, <2>2
    <3>3. i \in Nat /\ j \in Nat
      BY <1>3
    <3> HIDE DEF at, past
    <3> QED BY <1>3, <2>3, <3>2, <3>3
  <2> QED BY <2>3, <2>4
<1>5. Customs!Max(at) \in at
  BY <1>4 DEF Customs!Max
<1> QED BY <1>1, <1>2, <1>5

\* A row whose figures were acknowledged last is noted.
LEMMA LatestNoted ==
  ASSUME NEW S, acks \in Seq(S), NEW s, \A x, y : Unset # <<x, y>>, NEW header,
         Customs!loadMisdeclarationAcks(s)["value"] =
           <<header.declared_invoice_total_gbp, Customs!sumLineValues(lines[s])>>
  PROVE  Noted(header, s)
<1>1. Customs!loadMisdeclarationAcks(s)["value"] # Unset
  OBVIOUS
<1>2. \E i \in DOMAIN acks :
        /\ acks[i].ship = s /\ acks[i].type = "value"
        /\ acks[i].figures = Customs!loadMisdeclarationAcks(s)["value"]
  BY <1>1, LatestAck
<1> QED BY <1>1, <1>2 DEF Noted

\* A return that no check refuses has its variance acknowledged as it stands.
LEMMA ValidatedIsSigned ==
  ASSUME NEW S, acks \in Seq(S), \A x, y : Unset # <<x, y>>, NEW s, ~Customs!IsExport(s),
         NEW header, NEW declared, Customs!Worst(Customs!Validation(header, s, declared)) # "red"
  PROVE  Signed(header, s)
<1> SUFFICES ASSUME Fillable(header), Varies(header, s) PROVE Noted(header, s)
  BY DEF Signed
<1> DEFINE export == Customs!RelatedExport(s)
           siblings == Customs!loadSiblingLegs(s)
           noted == Customs!loadMisdeclarationAcks(s)
           balance == Customs!loadReturnBalance(header, s, declared)
           form == Customs!computeCe1154(header, export, Authorisation, lines[s], Unset, siblings, noted)
           v == Customs!runImportValidation(header, export, Authorisation, lines[s], Today, siblings, noted, {},
                  balance)
<1>1. Customs!Validation(header, s, declared) = v
  BY DEF Customs!Validation
<1> HIDE DEF export, siblings, noted, balance
<1>2. /\ v.IMP_HAS_LINES = Customs!Level(lines[s] = {}, FALSE)
      /\ v.IMP_RELATED_EXPORT = Customs!IMP_RELATED_EXPORT(export)
      /\ v.IMP_EXPORT_MRN = Customs!IMP_EXPORT_MRN(header, export)
      /\ v.IMP_OP_AUTH_NUMBER =
           Customs!Customs(header, Customs!Level(Authorisation = Unset
                                                \/ Authorisation.op_authorisation_number = Unset, FALSE))
      /\ v.IMP_MISDECLARATION_CHECK = Customs!IMP_MISDECLARATION_CHECK(header, lines[s], form)
      /\ {"IMP_HAS_LINES", "IMP_RELATED_EXPORT", "IMP_EXPORT_MRN", "IMP_OP_AUTH_NUMBER",
          "IMP_MISDECLARATION_CHECK"} \subseteq DOMAIN v
  BY DEF Customs!runImportValidation
<1> HIDE DEF v, form
<1>3. \A c \in DOMAIN v : v[c] # "red"
  BY <1>1 DEF Customs!Worst, Customs!Level
<1>4. /\ v.IMP_HAS_LINES # "red" /\ v.IMP_RELATED_EXPORT # "red" /\ v.IMP_EXPORT_MRN # "red"
      /\ v.IMP_OP_AUTH_NUMBER # "red" /\ v.IMP_MISDECLARATION_CHECK # "red"
  BY <1>2, <1>3
<1>5. ~Customs!Standard(header)
  BY DEF Varies
<1>6. lines[s] # {}
  BY <1>2, <1>4 DEF Customs!Level
<1>7. export # Unset /\ export.export_mrn # Unset
  BY <1>2, <1>4, <1>5 DEF Customs!Level, Customs!IMP_RELATED_EXPORT, Customs!IMP_EXPORT_MRN, Customs!Customs
<1>8. Authorisation # Unset /\ Authorisation.op_authorisation_number # Unset
  BY <1>2, <1>4, <1>5 DEF Customs!Level, Customs!Customs
<1>9. form.ok /\ form.misdeclaration = Customs!checkMisdeclaration(header, lines[s], siblings, noted)
  BY <1>6, <1>7, <1>8, FormIsComputed DEF form, Surrounded
<1>10. form.misdeclaration.fully_acknowledged
  BY <1>2, <1>4, <1>5, <1>6, <1>9 DEF Customs!IMP_MISDECLARATION_CHECK, Customs!Customs, Customs!Level
<1>11. Customs!Figures(header, lines[s], "value") =
         <<header.declared_invoice_total_gbp, Customs!sumLineValues(lines[s])>>
  BY DEF Customs!Figures
<1>12. Customs!Misdeclared(header, lines[s], siblings, "value")
  BY <1>11 DEF Customs!Misdeclared, Varies
<1>13. Customs!Acknowledged(header, lines[s], noted, "value")
  BY <1>9, <1>10, <1>12 DEF Customs!checkMisdeclaration, Customs!VarianceTypes
<1>14. noted["value"] = <<header.declared_invoice_total_gbp, Customs!sumLineValues(lines[s])>>
  BY <1>11, <1>13 DEF Customs!Acknowledged
<1>15. Customs!loadMisdeclarationAcks(s)["value"] =
         <<header.declared_invoice_total_gbp, Customs!sumLineValues(lines[s])>>
  BY <1>14 DEF noted
<1> QED BY <1>15, LatestNoted


-----------------------------------------------------------------------------
(* The customs file: one shipment at a time.                               *)

\* A request that writes a header, lines or a status.
Filing(x) == x.pc \in {"worksheet", "edit", "add", "remove", "validate", "flip"}

\* What a request still owes, or has established.
FileStands(r) ==
  LET x == clerk[r]
      s == x.ship
  IN
  /\ DOMAIN x = {"pc", "op", "ship", "seen", "data"}
  /\ s \in Consignments
  /\ Filing(x) <=> x.op \in {"create", "edit", "line", "finalise"}
  /\ Filing(x) /\ x.pc # "flip" => ship[s].status = "DRAFT"
  /\ x.pc = "edit" => "status" \notin DOMAIN x.data
  /\ x.pc = "validate" /\ ~Customs!IsExport(s) => x.seen = ship[s]
  /\ x.pc = "flip" /\ ~Customs!IsExport(s) => Signed(ship[s], s)
  /\ x.pc = "proof" => ship[s].status = "FINALISED"
  /\ x.pc = "delta" => Customs!IsExport(s)

\* The file's inductive invariant: a return that is FINALISED has its variance
\* acknowledged, and so has one that is about to be.
FileInv ==
  /\ DOMAIN ship = Consignments /\ DOMAIN lines = Consignments /\ DOMAIN clerk = Requests
  /\ \E S : acks \in Seq(S)
  /\ \A s \in Consignments :
       ship[s] # Customs!Absent => FormColumns \cup {"status"} \subseteq DOMAIN ship[s]
  /\ \A r \in Requests : clerk[r] # Customs!Rest => FileStands(r)
  /\ \A r, q \in Requests : Filing(clerk[r]) /\ Filing(clerk[q]) => r = q
  /\ \A s \in Consignments :
       ~Customs!IsExport(s) /\ ship[s].status = "FINALISED" => Signed(ship[s], s)

\* The clauses of the invariant on domains, rows and the log.
Filed ==
  /\ DOMAIN ship = Consignments /\ DOMAIN lines = Consignments /\ DOMAIN clerk = Requests
  /\ \E S : acks \in Seq(S)
  /\ \A s \in Consignments :
       ship[s] # Customs!Absent => FormColumns \cup {"status"} \subseteq DOMAIN ship[s]

\* A step forgets no acknowledgement.
AcksStay == \A i \in DOMAIN acks : i \in DOMAIN acks' /\ acks'[i] = acks[i]

\* A step leaves a shipment what it was, for the form and its variance.
Same(s) ==
  /\ ship[s].status = ship'[s].status
  /\ lines'[s] = lines[s]
  /\ SameColumns(ship[s], ship'[s])

\* A step that every other request can bear.
Gentle ==
  \A s \in Consignments :
    /\ Same(s)
    /\ ~Customs!IsExport(s) /\ ship[s].status = "DRAFT" => ship'[s] = ship[s]

\* An acknowledged variance stays acknowledged while its row and its lines stay the same.
LEMMA SignedStays ==
  ASSUME NEW s, Signed(ship[s], s), AcksStay, Same(s)
  PROVE  Signed(ship[s], s)'
<1>1. /\ Fillable(ship'[s]) <=> Fillable(ship[s])
      /\ Customs!Standard(ship'[s]) <=> Customs!Standard(ship[s])
      /\ ship'[s].declared_invoice_total_gbp = ship[s].declared_invoice_total_gbp
  BY FormOfColumns DEF Same
<1>2. Varies(ship[s], s)' <=> Varies(ship[s], s)
  BY <1>1 DEF Same, Varies, Customs!Standard
<1>3. Noted(ship[s], s) => Noted(ship[s], s)'
  BY <1>1 DEF Same, Noted, AcksStay
<1> QED BY <1>1, <1>2, <1>3 DEF Signed

\* What a request established stands while others take a gentle step, or it files nothing.
LEMMA OthersGoOn ==
  ASSUME NEW q, FileStands(q), clerk'[q] = clerk[q], AcksStay, Gentle \/ ~Filing(clerk[q]),
         \A s \in Consignments : ship[s].status = "FINALISED" => Same(s)
  PROVE  FileStands(q)'
<1>1. CASE Gentle
  <2>1. clerk[q].ship \in Consignments /\ Same(clerk[q].ship)
    BY <1>1 DEF Gentle, FileStands
  <2>2. clerk[q].pc = "flip" /\ ~Customs!IsExport(clerk[q].ship) => Signed(ship[clerk[q].ship], clerk[q].ship)'
    BY <2>1, SignedStays DEF FileStands
  <2>3. clerk[q].pc = "validate" /\ ~Customs!IsExport(clerk[q].ship) => clerk[q].seen = ship'[clerk[q].ship]
    BY <1>1 DEF Gentle, FileStands, Filing
  <2> QED BY <2>1, <2>2, <2>3 DEF FileStands, Same, Filing, Customs!IsExport
<1>2. CASE ~Filing(clerk[q])
  BY <1>2 DEF FileStands, Same, Filing, Customs!IsExport
<1> QED BY <1>1, <1>2

\* What a step of r owes for the invariant to be kept.
LEMMA StepKeeps ==
  ASSUME FileInv, NEW r \in Requests, Filed', AcksStay,
         \A s \in Consignments : ship[s].status = "FINALISED" => Same(s),
         \A s \in Consignments :
           ship[s].status # "FINALISED" /\ ~Customs!IsExport(s) /\ ship'[s].status = "FINALISED"
             => Signed(ship[s], s)',
         Gentle \/ \A q \in Requests : Filing(clerk[q]) => q = r,
         \A q \in Requests : q # r => clerk'[q] = clerk[q],
         clerk'[r] # Customs!Rest => FileStands(r)',
         Filing(clerk'[r]) => \A q \in Requests : Filing(clerk[q]) => q = r
  PROVE  FileInv'
<1>1. ASSUME NEW q \in Requests, clerk'[q] # Customs!Rest PROVE FileStands(q)'
  <2>1. CASE q # r
    <3>1. clerk'[q] = clerk[q] /\ FileStands(q)
      BY <1>1, <2>1 DEF FileInv
    <3>2. Gentle \/ ~Filing(clerk[q])
      BY <2>1
    <3> QED BY <3>1, <3>2, OthersGoOn
  <2> QED BY <1>1, <2>1
<1>2. \A p, q \in Requests : Filing(clerk'[p]) /\ Filing(clerk'[q]) => p = q
  BY DEF FileInv
<1>3. ASSUME NEW s \in Consignments, ~Customs!IsExport(s), ship'[s].status = "FINALISED"
      PROVE  Signed(ship[s], s)'
  <2>1. CASE ship[s].status = "FINALISED"
    BY <1>3, <2>1, SignedStays DEF FileInv
  <2> QED BY <1>3, <2>1
<1>4. \A p, q \in Requests : (Filing(clerk[p]) /\ Filing(clerk[q]))' => p = q
  BY <1>2 DEF Filing
<1> QED BY <1>1, <1>3, <1>4 DEF FileInv, Filed, Customs!IsExport

\* Where rows and lines are left alone.
LEMMA NothingWritten ==
  ASSUME FileInv, UNCHANGED <<ship, lines>>
  PROVE  Gentle /\ \A s \in Consignments : Same(s)
BY DEF Gentle, Same, SameColumns

\* A request that reads and writes nothing yet.
LEMMA EnterKeeps ==
  ASSUME FiledInTurn, FileInv, NEW r \in Requests, NEW pc, NEW op, NEW s \in Consignments,
         NEW seen, NEW data, Customs!Enter(r, pc, op, s, seen, data),
         UNCHANGED <<ship, lines, acks>>,
         Filing([pc |-> pc]) <=> op \in {"create", "edit", "line", "finalise"},
         Filing([pc |-> pc]) => ship[s].status = "DRAFT" /\ pc # "flip",
         pc = "edit" => "status" \notin DOMAIN data,
         pc = "validate" => seen = ship[s],
         pc = "proof" => ship[s].status = "FINALISED",
         pc = "delta" => Customs!IsExport(s)
  PROVE  FileInv'
<1> DEFINE x == [pc |-> pc, op |-> op, ship |-> s, seen |-> seen, data |-> data]
<1>1. /\ clerk' = [clerk EXCEPT ![r] = x]
      /\ clerk[r] = Customs!Rest
      /\ op \in FiledAlone => \A q \in Requests : clerk[q] # Customs!Rest => clerk[q].op \notin FiledAlone
  BY DEF Customs!Enter, Customs!Busy
<1>2. /\ clerk'[r] = x /\ DOMAIN clerk' = Requests
      /\ \A q \in Requests : q # r => clerk'[q] = clerk[q]
  BY <1>1 DEF FileInv
<1>3. /\ DOMAIN x = {"pc", "op", "ship", "seen", "data"}
      /\ x.pc = pc /\ x.op = op /\ x.ship = s /\ x.seen = seen /\ x.data = data
  OBVIOUS
<1> HIDE DEF x
<1>4. Filing(clerk'[r]) <=> Filing([pc |-> pc])
  BY <1>2, <1>3 DEF Filing
<1>5. FileStands(r)'
  BY <1>2, <1>3, <1>4 DEF FileStands, Filing, Customs!IsExport
<1>6. ASSUME Filing(clerk'[r]), NEW q \in Requests, Filing(clerk[q]) PROVE q = r
  <2>1. op \in {"create", "edit", "line", "finalise"} /\ op \in FiledAlone
    BY <1>4, <1>6 DEF FiledInTurn
  <2>2. clerk[q] # Customs!Rest
    BY <1>6 DEF Filing, Customs!Rest
  <2>3. clerk[q].op \in FiledAlone
    BY <1>6, <2>2 DEF FileInv, FileStands, FiledInTurn
  <2> QED BY <1>1, <2>1, <2>2, <2>3
<1>7. Filed' /\ AcksStay
  BY <1>2 DEF FileInv, Filed, AcksStay
<1> QED BY <1>2, <1>5, <1>6, <1>7, NothingWritten, StepKeeps

\* A request that leaves, having written no row.
LEMMA LeaveKeeps ==
  ASSUME FileInv, NEW r \in Requests, Customs!Finish(r), UNCHANGED <<ship, lines, acks>>
  PROVE  FileInv'
<1>1. /\ clerk'[r] = Customs!Rest /\ DOMAIN clerk' = Requests
      /\ \A q \in Requests : q # r => clerk'[q] = clerk[q]
  BY DEF FileInv, Customs!Finish
<1>2. ~Filing(clerk'[r])
  BY <1>1 DEF Filing, Customs!Rest
<1>3. Filed' /\ AcksStay
  BY <1>1 DEF FileInv, Filed, AcksStay
<1> QED BY <1>1, <1>2, <1>3, NothingWritten, StepKeeps

\* A request that holds a shipment alone and writes it or its lines, while it is a DRAFT
\* or not there yet.
LEMMA WriteKeeps ==
  ASSUME FileInv, NEW r \in Requests, NEW s \in Consignments, ship[s].status # "FINALISED",
         \A q \in Requests : Filing(clerk[q]) => q = r,
         \A t \in Consignments : t # s => ship'[t] = ship[t] /\ lines'[t] = lines[t],
         DOMAIN ship' = Consignments, DOMAIN lines' = Consignments, DOMAIN clerk' = Requests,
         FormColumns \cup {"status"} \subseteq DOMAIN ship'[s],
         ship'[s].status = "FINALISED" /\ ~Customs!IsExport(s) => Signed(ship[s], s)',
         UNCHANGED acks,
         \A q \in Requests : q # r => clerk'[q] = clerk[q],
         clerk'[r] # Customs!Rest => FileStands(r)'
  PROVE  FileInv'
<1>1. \A t \in Consignments : t # s => Same(t)
  BY DEF Same, SameColumns
<1>2. Filed' /\ AcksStay
  BY DEF FileInv, Filed, AcksStay
<1>3. \A t \in Consignments :
        ship[t].status # "FINALISED" /\ ~Customs!IsExport(t) /\ ship'[t].status = "FINALISED"
          => Signed(ship[t], t)'
  OBVIOUS
<1> QED BY <1>1, <1>2, <1>3, StepKeeps

\* Nobody else files when a request that files enters.
LEMMA FilesAlone ==
  ASSUME FiledInTurn, FileInv, NEW r \in Requests, NEW pc, NEW s, NEW seen, NEW data,
         NEW op \in {"create", "edit", "line", "finalise"}, Customs!Enter(r, pc, op, s, seen, data)
  PROVE  \A q \in Requests : ~Filing(clerk[q])
<1> SUFFICES ASSUME NEW q \in Requests, Filing(clerk[q]) PROVE FALSE
  OBVIOUS
<1>1. op \in FiledAlone => clerk[q] = Customs!Rest \/ clerk[q].op \notin FiledAlone
  BY DEF Customs!Enter, Customs!Busy
<1>2. clerk[q] # Customs!Rest
  BY DEF Filing, Customs!Rest
<1>3. clerk[q].op \in FiledAlone
  BY <1>2 DEF FileInv, FileStands, FiledInTurn
<1> QED BY <1>1, <1>2, <1>3 DEF FiledInTurn

\* The row of a new shipment is a DRAFT, and its worksheet is still to come.
LEMMA InsertShipmentKeeps ==
  ASSUME FiledInTurn, FileInv, NEW r \in Requests, NEW s \in Consignments,
         Customs!InsertShipment(r, s)
  PROVE  FileInv'
<1> DEFINE x == [pc |-> "worksheet", op |-> "create", ship |-> s, seen |-> Customs!Absent, data |-> <<>>]
           new == Customs!Blanked(Body[s])
<1>1. /\ ship[s] = Customs!Absent
      /\ Customs!Enter(r, "worksheet", "create", s, Customs!Absent, <<>>)
      /\ ship' = [ship EXCEPT ![s] = [new EXCEPT !.status = "DRAFT"]]
      /\ UNCHANGED <<lines, acks, deltas>>
  BY DEF Customs!InsertShipment, Customs!Exists
<1>2. clerk' = [clerk EXCEPT ![r] = x]
  BY <1>1 DEF Customs!Enter
<1>3. DOMAIN new = DOMAIN Body[s]
  BY DEF Customs!Blanked
<1> HIDE DEF new
<1>4. /\ DOMAIN ship' = Consignments /\ ship'[s] = [new EXCEPT !.status = "DRAFT"]
      /\ \A t \in Consignments : t # s => ship'[t] = ship[t] /\ lines'[t] = lines[t]
  BY <1>1 DEF FileInv
<1>5. ship'[s].status = "DRAFT" /\ FormColumns \cup {"status"} \subseteq DOMAIN ship'[s]
  BY <1>3, <1>4 DEF FiledInTurn
<1>6. /\ DOMAIN x = {"pc", "op", "ship", "seen", "data"}
      /\ x.pc = "worksheet" /\ x.op = "create" /\ x.ship = s
  OBVIOUS
<1> HIDE DEF x
<1>7. /\ clerk'[r] = x /\ DOMAIN clerk' = Requests
      /\ \A q \in Requests : q # r => clerk'[q] = clerk[q]
  BY <1>2 DEF FileInv
<1>8. FileStands(r)'
  BY <1>5, <1>6, <1>7 DEF FileStands, Filing
<1>9. \A q \in Requests : Filing(clerk[q]) => q = r
  BY <1>1, FilesAlone
<1>10. DOMAIN lines' = Consignments
  BY <1>1 DEF FileInv
<1> QED BY <1>1, <1>4, <1>5, <1>7, <1>8, <1>9, <1>10, WriteKeeps DEF Customs!Absent

\* What is known of a request that files.
LEMMA FilerKnows ==
  ASSUME FileInv, NEW r \in Requests, Filing(clerk[r])
  PROVE  /\ FileStands(r)
         /\ clerk[r].ship \in Consignments
         /\ clerk[r].pc # "flip" => ship[clerk[r].ship].status = "DRAFT"
         /\ \A q \in Requests : Filing(clerk[q]) => q = r
         /\ ship[clerk[r].ship].status = "DRAFT" =>
              FormColumns \cup {"status"} \subseteq DOMAIN ship[clerk[r].ship]
<1>1. FileStands(r)
  BY DEF FileInv, Filing, Customs!Rest
<1> QED BY <1>1 DEF FileInv, FileStands, Customs!Absent

\* A write of a DRAFT, after which the request is done.
LEMMA DraftWritten ==
  ASSUME FileInv, NEW r \in Requests, Filing(clerk[r]), Customs!Finish(r),
         NEW s, s = clerk[r].ship, ship[s].status = "DRAFT", NEW new,
         DOMAIN ship' = Consignments, DOMAIN lines' = Consignments, ship'[s] = new,
         \A t \in Consignments : t # s => ship'[t] = ship[t] /\ lines'[t] = lines[t],
         UNCHANGED acks,
         DOMAIN new = DOMAIN ship[s],
         new.status = "FINALISED" /\ ~Customs!IsExport(s) => Signed(new, s)'
  PROVE  FileInv'
<1>1. /\ s \in Consignments /\ FormColumns \cup {"status"} \subseteq DOMAIN new
      /\ \A q \in Requests : Filing(clerk[q]) => q = r
  BY FilerKnows
<1>2. /\ clerk'[r] = Customs!Rest /\ DOMAIN clerk' = Requests
      /\ \A q \in Requests : q # r => clerk'[q] = clerk[q]
  BY DEF FileInv, Customs!Finish
<1>3. ship'[s].status = "FINALISED" /\ ~Customs!IsExport(s) => Signed(ship[s], s)'
  OBVIOUS
<1> QED BY <1>1, <1>2, <1>3, WriteKeeps

\* The worksheet is written into a row that is still a DRAFT.
LEMMA InsertWorksheetKeeps ==
  ASSUME FileInv, NEW r \in Requests, Customs!InsertWorksheet(r)
  PROVE  FileInv'
<1>1. PICK s : s = clerk[r].ship
  OBVIOUS
<1>2. PICK new : new = [c \in DOMAIN ship[s] |-> IF c \in Customs!Worksheet THEN Body[s][c] ELSE ship[s][c]]
  OBVIOUS
<1>3. /\ clerk[r].pc = "worksheet" /\ Customs!Finish(r)
      /\ ship' = [ship EXCEPT ![s] = new] /\ UNCHANGED <<lines, acks>>
  BY <1>1, <1>2 DEF Customs!InsertWorksheet
<1>4. Filing(clerk[r])
  BY <1>3 DEF Filing
<1>5. ship[s].status = "DRAFT" /\ "status" \in DOMAIN ship[s] /\ s \in Consignments
  BY <1>1, <1>3, <1>4, FilerKnows
<1>6. new.status = "DRAFT" /\ DOMAIN new = DOMAIN ship[s]
  BY <1>2, <1>5 DEF Customs!Worksheet
<1>7. /\ DOMAIN ship' = Consignments /\ DOMAIN lines' = Consignments /\ ship'[s] = new
      /\ \A t \in Consignments : t # s => ship'[t] = ship[t] /\ lines'[t] = lines[t]
  BY <1>3, <1>5 DEF FileInv
<1> QED BY <1>1, <1>3, <1>4, <1>5, <1>6, <1>7, DraftWritten

\* The edit is written into a row that is still a DRAFT, and leaves its status.
LEMMA WriteEditingKeeps ==
  ASSUME FileInv, NEW r \in Requests, Customs!WriteEditing(r)
  PROVE  FileInv'
<1>1. PICK s : s = clerk[r].ship
  OBVIOUS
<1>2. PICK new : new = Customs!Patched(ship[s], clerk[r].data)
  OBVIOUS
<1>3. /\ clerk[r].pc = "edit" /\ Customs!Finish(r)
      /\ ship' = [ship EXCEPT ![s] = new] /\ UNCHANGED <<lines, acks>>
  BY <1>1, <1>2 DEF Customs!WriteEditing
<1>4. Filing(clerk[r])
  BY <1>3 DEF Filing
<1>5. /\ ship[s].status = "DRAFT" /\ "status" \in DOMAIN ship[s] /\ s \in Consignments
      /\ "status" \notin DOMAIN clerk[r].data
  BY <1>1, <1>3, <1>4, FilerKnows DEF FileStands
<1>6. new.status = "DRAFT" /\ DOMAIN new = DOMAIN ship[s]
  BY <1>2, <1>5 DEF Customs!Patched
<1>7. /\ DOMAIN ship' = Consignments /\ DOMAIN lines' = Consignments /\ ship'[s] = new
      /\ \A t \in Consignments : t # s => ship'[t] = ship[t] /\ lines'[t] = lines[t]
  BY <1>3, <1>5 DEF FileInv
<1> QED BY <1>1, <1>3, <1>4, <1>5, <1>6, <1>7, DraftWritten

\* A line is put on a DRAFT, or taken off it.
LEMMA LineWritten ==
  ASSUME FileInv, NEW r \in Requests, clerk[r].pc \in {"add", "remove"}, Customs!Finish(r),
         NEW held, lines' = [lines EXCEPT ![clerk[r].ship] = held], UNCHANGED <<ship, acks>>
  PROVE  FileInv'
<1>1. PICK s : s = clerk[r].ship
  OBVIOUS
<1>2. PICK new : new = ship[s]
  OBVIOUS
<1>3. Filing(clerk[r])
  BY DEF Filing
<1>4. ship[s].status = "DRAFT" /\ s \in Consignments
  BY <1>1, <1>3, FilerKnows
<1>5. /\ DOMAIN ship' = Consignments /\ DOMAIN lines' = Consignments /\ ship'[s] = new
      /\ \A t \in Consignments : t # s => ship'[t] = ship[t] /\ lines'[t] = lines[t]
  BY <1>1, <1>2, <1>4 DEF FileInv
<1> QED BY <1>1, <1>2, <1>3, <1>4, <1>5, DraftWritten

\* So do the two statements that write lines keep the invariant.
LEMMA LinesKeep ==
  ASSUME FileInv, NEW r \in Requests, Customs!InsertLine(r) \/ Customs!DeleteLine(r)
  PROVE  FileInv'
<1>1. CASE Customs!InsertLine(r)
  <2>1. PICK held : held = lines[clerk[r].ship] \cup {clerk[r].data}
    OBVIOUS
  <2>2. /\ clerk[r].pc = "add" /\ Customs!Finish(r)
        /\ lines' = [lines EXCEPT ![clerk[r].ship] = held] /\ UNCHANGED <<ship, acks>>
    BY <1>1, <2>1 DEF Customs!InsertLine
  <2> QED BY <2>2, LineWritten
<1>2. CASE Customs!DeleteLine(r)
  <2>1. PICK held : held = lines[clerk[r].ship] \ {clerk[r].data}
    OBVIOUS
  <2>2. /\ clerk[r].pc = "remove" /\ Customs!Finish(r)
        /\ lines' = [lines EXCEPT ![clerk[r].ship] = held] /\ UNCHANGED <<ship, acks>>
    BY <1>2, <2>1 DEF Customs!DeleteLine
  <2> QED BY <2>2, LineWritten
<1> QED BY <1>1, <1>2

\* The checks passed, and nothing they read has moved since.
LEMMA ValidateKeeps ==
  ASSUME FiledInTurn, FileInv, NEW r \in Requests, Customs!Validate(r)
  PROVE  FileInv'
<1>1. CASE Customs!Finish(r)
  BY <1>1, LeaveKeeps DEF Customs!Validate
<1>2. CASE ~Customs!Finish(r)
  <2>1. /\ clerk[r].pc = "validate" /\ clerk' = [clerk EXCEPT ![r].pc = "flip"]
        /\ Customs!Worst(Customs!Validation(clerk[r].seen, clerk[r].ship, clerk[r].data.declared)) # "red"
        /\ UNCHANGED <<ship, lines, acks>>
    BY <1>2 DEF Customs!Validate
  <2>2. Filing(clerk[r])
    BY <2>1 DEF Filing
  <2>3. FileStands(r) /\ \A q \in Requests : Filing(clerk[q]) => q = r
    BY <2>2, FilerKnows
  <2>4. PICK S : acks \in Seq(S)
    BY DEF FileInv
  <2>5. ASSUME ~Customs!IsExport(clerk[r].ship) PROVE Signed(ship[clerk[r].ship], clerk[r].ship)
    <3>1. clerk[r].seen = ship[clerk[r].ship]
      BY <2>1, <2>3, <2>5 DEF FileStands
    <3>2. \A x, y : Unset # <<x, y>>
      BY DEF FiledInTurn
    <3> QED BY <2>1, <2>4, <2>5, <3>1, <3>2, ValidatedIsSigned
  <2>6. /\ DOMAIN clerk' = Requests /\ DOMAIN clerk'[r] = DOMAIN clerk[r]
        /\ \A q \in Requests : q # r => clerk'[q] = clerk[q]
        /\ clerk'[r].pc = "flip" /\ clerk'[r].op = clerk[r].op /\ clerk'[r].ship = clerk[r].ship
    BY <2>1, <2>3 DEF FileInv, FileStands
  <2>7. ~Customs!IsExport(clerk[r].ship) => Signed(ship[clerk[r].ship], clerk[r].ship)'
    BY <2>1, <2>5, <2>6, SignedStays DEF AcksStay, Same, SameColumns, FileStands
  <2>8. FileStands(r)'
    BY <2>1, <2>2, <2>3, <2>6, <2>7 DEF FileStands, Filing, Customs!IsExport
  <2>9. Filed' /\ AcksStay
    BY <2>1, <2>6 DEF FileInv, Filed, AcksStay
  <2> QED BY <2>1, <2>3, <2>6, <2>8, <2>9, NothingWritten, StepKeeps
<1> QED BY <1>1, <1>2

\* The flip to FINALISED writes no column of the form.
LEMMA FlipKeeps ==
  ASSUME FileInv, NEW r \in Requests, Customs!FlipShipment(r)
  PROVE  FileInv'
<1>1. PICK s : s = clerk[r].ship
  OBVIOUS
<1>2. clerk[r].pc = "flip" /\ Customs!Finish(r) /\ UNCHANGED <<lines, acks>>
  BY DEF Customs!FlipShipment
<1>3. CASE ship[s].status # "DRAFT"
  <2>1. UNCHANGED ship
    BY <1>1, <1>3 DEF Customs!FlipShipment
  <2> QED BY <1>2, <2>1, LeaveKeeps
<1>4. CASE ship[s].status = "DRAFT"
  <2>1. Filing(clerk[r])
    BY <1>2 DEF Filing
  <2>2. /\ FormColumns \cup {"status"} \subseteq DOMAIN ship[s] /\ s \in Consignments
        /\ ~Customs!IsExport(s) => Signed(ship[s], s)
    BY <1>1, <1>2, <1>4, <2>1, FilerKnows DEF FileStands
  <2>3. PICK c : c \in {"export_mrn", "import_mrn"} /\ c = Customs!ProofColumn(s)
    BY DEF Customs!ProofColumn
  <2>4. PICK a : a = [ship EXCEPT ![s].status = "FINALISED"]
    OBVIOUS
  <2>5. PICK b : b = [a EXCEPT ![s].finalised_at = Today]
    OBVIOUS
  <2>6. ship' = [b EXCEPT ![s][c] = Customs!NonNull(clerk[r].data.ref, b[s][c])]
    BY <1>1, <1>4, <2>3, <2>4, <2>5 DEF Customs!FlipShipment
  <2>7. PICK new : new = ship'[s]
    OBVIOUS
  <2>8. /\ DOMAIN ship' = Consignments /\ DOMAIN new = DOMAIN ship[s]
        /\ \A t \in Consignments : t # s => ship'[t] = ship[t]
        /\ \A f \in FormColumns : new[f] = ship[s][f]
    BY <2>2, <2>3, <2>4, <2>5, <2>6, <2>7 DEF FormColumns, FileInv
  <2>9. ASSUME ~Customs!IsExport(s) PROVE Signed(new, s)'
    <3>1. lines' = lines /\ acks' = acks
      BY <1>2
    <3>2. /\ Fillable(new) <=> Fillable(ship[s])
          /\ Customs!Standard(new) <=> Customs!Standard(ship[s])
          /\ new.declared_invoice_total_gbp = ship[s].declared_invoice_total_gbp
      BY <2>8, FormOfColumns DEF SameColumns
    <3>3. Signed(ship[s], s)
      BY <2>2, <2>9
    <3>4. Varies(new, s)' <=> Varies(ship[s], s)
      BY <3>1, <3>2 DEF Varies
    <3>5. Noted(ship[s], s) => Noted(new, s)'
      BY <3>1, <3>2 DEF Noted
    <3> QED BY <3>2, <3>3, <3>4, <3>5 DEF Signed
  <2>10. DOMAIN lines' = Consignments /\ \A t \in Consignments : lines'[t] = lines[t]
    BY <1>2 DEF FileInv
  <2> QED BY <1>1, <1>2, <1>4, <2>1, <2>7, <2>8, <2>9, <2>10, DraftWritten
<1> QED BY <1>3, <1>4

\* The reads with which the other operations begin.
LEMMA StartsKeep ==
  ASSUME FiledInTurn, FileInv, NEW r \in Requests, NEW s \in Consignments
  PROVE  /\ \A change \in Changes[s] : Customs!StartEdit(r, s, change) => FileInv'
         /\ \A l : Customs!StartAddLine(r, s, l) \/ Customs!StartRemoveLine(r, s, l) => FileInv'
         /\ \A type : Customs!StartAck(r, s, type) => FileInv'
         /\ \A ref, declared : Customs!StartFinalise(r, s, ref, declared) => FileInv'
         /\ \A ref : Customs!StartProof(r, s, ref) => FileInv'
         /\ \A value : Customs!StartReconcile(r, s, value) => FileInv'
<1>1. ASSUME NEW change \in Changes[s], Customs!StartEdit(r, s, change) PROVE FileInv'
  <2>1. "status" \notin DOMAIN change
    BY DEF FiledInTurn
  <2>2. /\ Customs!Enter(r, "edit", "edit", s, ship[s], change) /\ UNCHANGED <<ship, lines, acks>>
        /\ ship[s].status = "DRAFT"
    BY <1>1 DEF Customs!StartEdit
  <2> QED BY <2>1, <2>2, EnterKeeps DEF Filing
<1>2. ASSUME NEW l, Customs!StartAddLine(r, s, l) PROVE FileInv'
  <2>1. /\ Customs!Enter(r, "add", "line", s, ship[s], l) /\ UNCHANGED <<ship, lines, acks>>
        /\ ship[s].status = "DRAFT"
    BY <1>2 DEF Customs!StartAddLine
  <2> QED BY <2>1, EnterKeeps DEF Filing
<1>3. ASSUME NEW l, Customs!StartRemoveLine(r, s, l) PROVE FileInv'
  <2>1. /\ Customs!Enter(r, "remove", "line", s, ship[s], l) /\ UNCHANGED <<ship, lines, acks>>
        /\ ship[s].status = "DRAFT"
    BY <1>3 DEF Customs!StartRemoveLine
  <2> QED BY <2>1, EnterKeeps DEF Filing
<1>4. ASSUME NEW type, Customs!StartAck(r, s, type) PROVE FileInv'
  <2>1. Customs!Enter(r, "compute", "ack", s, ship[s], type) /\ UNCHANGED <<ship, lines, acks>>
    BY <1>4 DEF Customs!StartAck
  <2> QED BY <2>1, EnterKeeps DEF Filing
<1>5. ASSUME NEW ref, NEW declared, Customs!StartFinalise(r, s, ref, declared) PROVE FileInv'
  <2>1. /\ Customs!Enter(r, "validate", "finalise", s, ship[s], [ref |-> ref, declared |-> declared])
        /\ UNCHANGED <<ship, lines, acks>> /\ ship[s].status = "DRAFT"
    BY <1>5 DEF Customs!StartFinalise
  <2> QED BY <2>1, EnterKeeps DEF Filing
<1>6. ASSUME NEW ref, Customs!StartProof(r, s, ref) PROVE FileInv'
  <2>1. /\ Customs!Enter(r, "proof", "proof", s, ship[s], ref) /\ UNCHANGED <<ship, lines, acks>>
        /\ ship[s].status = "FINALISED"
    BY <1>6 DEF Customs!StartProof
  <2> QED BY <2>1, EnterKeeps DEF Filing
<1>7. ASSUME NEW value, Customs!StartReconcile(r, s, value) PROVE FileInv'
  <2>1. /\ Customs!Enter(r, "delta", "value", s, ship[s], value) /\ UNCHANGED <<ship, lines, acks>>
        /\ Customs!IsExport(s)
    BY <1>7 DEF Customs!StartReconcile
  <2> QED BY <2>1, EnterKeeps DEF Filing
<1> QED BY <1>1, <1>2, <1>3, <1>4, <1>5, <1>6, <1>7

\* What is known of a request at any statement but the first.
LEMMA ClerkKnows ==
  ASSUME FileInv, NEW r \in Requests, clerk[r].pc # "rest"
  PROVE  FileStands(r) /\ clerk[r].ship \in Consignments
<1>1. clerk[r] # Customs!Rest
  BY DEF Customs!Rest
<1> QED BY <1>1 DEF FileInv, FileStands

\* A request that files nothing goes on to its next statement, and no row is written that
\* another request holds.
LEMMA GoOnKeeps ==
  ASSUME FileInv, NEW r \in Requests, clerk[r].pc \in {"compute", "delta"},
         NEW pc \in {"ack", "insert_delta"}, NEW data, NEW next,
         next = [clerk EXCEPT ![r].pc = pc], clerk' = [next EXCEPT ![r].data = data],
         Gentle, Filed', UNCHANGED acks
  PROVE  FileInv'
<1>1. FileStands(r)
  BY ClerkKnows
<1>2. /\ DOMAIN clerk' = Requests /\ \A q \in Requests : q # r => clerk'[q] = clerk[q]
      /\ DOMAIN clerk'[r] = {"pc", "op", "ship", "seen", "data"}
      /\ clerk'[r].pc = pc /\ clerk'[r].op = clerk[r].op /\ clerk'[r].ship = clerk[r].ship
  BY <1>1 DEF FileInv, FileStands
<1>3. FileStands(r)' /\ ~Filing(clerk'[r])
  BY <1>1, <1>2 DEF FileStands, Filing
<1>4. AcksStay
  BY DEF AcksStay
<1>5. \A s \in Consignments : Same(s)
  BY DEF Gentle
<1> QED BY <1>2, <1>3, <1>4, <1>5, StepKeeps DEF Same

\* Acknowledgements come when they like.
LEMMA AckKeeps ==
  ASSUME FileInv, NEW r \in Requests, Customs!ComputeAck(r) \/ Customs!InsertAck(r)
  PROVE  FileInv'
<1>1. CASE Customs!ComputeAck(r) /\ Customs!Finish(r)
  BY <1>1, LeaveKeeps DEF Customs!ComputeAck
<1>2. CASE Customs!ComputeAck(r) /\ ~Customs!Finish(r)
  <2>1. PICK data : data = [ship |-> clerk[r].ship, type |-> clerk[r].data,
                            figures |-> Customs!Figures(clerk[r].seen, lines[clerk[r].ship], clerk[r].data)]
    OBVIOUS
  <2>2. PICK next : next = [clerk EXCEPT ![r].pc = "ack"]
    OBVIOUS
  <2>3. /\ clerk[r].pc = "compute" /\ UNCHANGED <<ship, lines, acks>>
        /\ clerk' = [next EXCEPT ![r].data = data]
    BY <1>2, <2>1, <2>2 DEF Customs!ComputeAck
  <2>4. Filed'
    <3>1. DOMAIN clerk' = Requests
      BY <2>2, <2>3 DEF FileInv
    <3> QED BY <2>3, <3>1 DEF FileInv, Filed
  <2> QED BY <2>2, <2>3, <2>4, NothingWritten, GoOnKeeps
<1>3. CASE Customs!InsertAck(r)
  <2>1. /\ acks' = Append(acks, clerk[r].data) /\ Customs!Finish(r) /\ UNCHANGED <<ship, lines>>
    BY <1>3 DEF Customs!InsertAck
  <2>2. PICK S : acks \in Seq(S)
    BY DEF FileInv
  <2>3. acks' \in Seq(S \cup {clerk[r].data}) /\ AcksStay
    BY <2>1, <2>2 DEF AcksStay
  <2>4. /\ clerk'[r] = Customs!Rest /\ DOMAIN clerk' = Requests
        /\ \A q \in Requests : q # r => clerk'[q] = clerk[q]
    BY <2>1 DEF FileInv, Customs!Finish
  <2>5. ~Filing(clerk'[r])
    BY <2>4 DEF Filing, Customs!Rest
  <2>6. Filed'
    BY <2>1, <2>3, <2>4 DEF FileInv, Filed
  <2> QED BY <2>1, <2>3, <2>4, <2>5, <2>6, NothingWritten, StepKeeps DEF Same
<1> QED BY <1>1, <1>2, <1>3

\* A column that the form is not computed from is written, on an export or on a row that
\* is no DRAFT.
LEMMA ColumnWritten ==
  ASSUME FileInv, NEW s \in Consignments, NEW c, c \notin FormColumns \cup {"status"}, NEW v,
         Customs!IsExport(s) \/ ship[s].status # "DRAFT",
         ship' = [ship EXCEPT ![s][c] = v], UNCHANGED <<lines, acks>>, DOMAIN clerk' = Requests
  PROVE  Gentle /\ Filed'
<1>1. /\ DOMAIN ship' = Consignments /\ \A t \in Consignments : t # s => ship'[t] = ship[t]
      /\ ship'[s] = [ship[s] EXCEPT ![c] = v]
  BY DEF FileInv
<1>2. CASE ship[s] = Customs!Absent
  <2>1. ship'[s] = ship[s]
    BY <1>1, <1>2 DEF Customs!Absent
  <2> QED BY <1>1, <2>1 DEF Gentle, Same, SameColumns, Filed, FileInv
<1>3. CASE ship[s] # Customs!Absent
  <2>1. FormColumns \cup {"status"} \subseteq DOMAIN ship[s]
    BY <1>3 DEF FileInv
  <2>2. DOMAIN ship'[s] = DOMAIN ship[s] /\ \A f \in FormColumns \cup {"status"} : ship'[s][f] = ship[s][f]
    BY <1>1, <2>1
  <2>3. Same(s)
    BY <2>2 DEF Same, SameColumns
  <2>4. \A t \in Consignments : t # s => Same(t)
    BY <1>1 DEF Same, SameColumns
  <2>5. Gentle
    BY <1>1, <2>3, <2>4 DEF Gentle
  <2> QED BY <1>1, <2>1, <2>2, <2>5 DEF Filed, FileInv
<1> QED BY <1>2, <1>3

\* A proof is written into a row that is FINALISED, for good.
LEMMA WriteProofKeeps ==
  ASSUME FileInv, NEW r \in Requests, Customs!WriteProof(r)
  PROVE  FileInv'
<1>1. PICK s : s = clerk[r].ship
  OBVIOUS
<1>2. PICK c : c = Customs!ProofColumn(s)
  OBVIOUS
<1>3. PICK v : v = clerk[r].data
  OBVIOUS
<1>4. /\ clerk[r].pc = "proof" /\ Customs!Finish(r)
      /\ ship' = [ship EXCEPT ![s][c] = v] /\ UNCHANGED <<lines, acks>>
  BY <1>1, <1>2, <1>3 DEF Customs!WriteProof
<1>5. s \in Consignments /\ ship[s].status # "DRAFT"
  BY <1>1, <1>4, ClerkKnows DEF FileStands
<1>6. /\ clerk'[r] = Customs!Rest /\ DOMAIN clerk' = Requests
      /\ \A q \in Requests : q # r => clerk'[q] = clerk[q]
  BY <1>4 DEF FileInv, Customs!Finish
<1>7. c \notin FormColumns \cup {"status"}
  BY <1>2 DEF Customs!ProofColumn, FormColumns
<1>8. Gentle /\ Filed'
  BY <1>4, <1>5, <1>6, <1>7, ColumnWritten
<1>9. AcksStay /\ ~Filing(clerk'[r]) /\ \A t \in Consignments : Same(t)
  BY <1>4, <1>6, <1>8 DEF AcksStay, Filing, Customs!Rest, Gentle
<1> QED BY <1>6, <1>8, <1>9, StepKeeps DEF Same

\* A reconciled value is written into the row of an export.
LEMMA ValueKeeps ==
  ASSUME FileInv, NEW r \in Requests, Customs!WriteValue(r) \/ Customs!InsertDelta(r)
  PROVE  FileInv'
<1>1. CASE Customs!InsertDelta(r)
  BY <1>1, LeaveKeeps DEF Customs!InsertDelta
<1>2. CASE Customs!WriteValue(r) /\ UNCHANGED ship /\ Customs!Finish(r)
  BY <1>2, LeaveKeeps DEF Customs!WriteValue
<1>3. CASE Customs!WriteValue(r) /\ ~(UNCHANGED ship /\ Customs!Finish(r))
  <2>1. PICK s : s = clerk[r].ship
    OBVIOUS
  <2>2. PICK data : data = Customs!computeValueDelta(Customs!Reconciled(clerk[r].seen, s), clerk[r].data)
    OBVIOUS
  <2>3. PICK next : next = [clerk EXCEPT ![r].pc = "insert_delta"]
    OBVIOUS
  <2>4. /\ clerk[r].pc = "delta" /\ UNCHANGED <<lines, acks>>
        /\ ship' = [ship EXCEPT ![s].reconciled_value_gbp = data.new]
        /\ clerk' = [next EXCEPT ![r].data = data]
    BY <1>3, <2>1, <2>2, <2>3 DEF Customs!WriteValue
  <2>5. s \in Consignments /\ Customs!IsExport(s)
    BY <2>1, <2>4, ClerkKnows DEF FileStands
  <2>6. DOMAIN clerk' = Requests
    BY <2>3, <2>4 DEF FileInv
  <2>7. "reconciled_value_gbp" \notin FormColumns \cup {"status"}
    BY DEF FormColumns
  <2>8. Gentle /\ Filed'
    BY <2>4, <2>5, <2>6, <2>7, ColumnWritten
  <2> QED BY <2>3, <2>4, <2>8, GoOnKeeps
<1> QED BY <1>1, <1>2, <1>3

\* At first there is no shipment and nobody at work.
LEMMA FileInit == FiledInTurn /\ Customs!Init => FileInv
<1> SUFFICES ASSUME Customs!Init PROVE FileInv
  OBVIOUS
<1>1. acks \in Seq({})
  BY DEF Customs!Init
<1>2. \A r \in Requests : clerk[r] = Customs!Rest /\ ~Filing(clerk[r])
  BY DEF Customs!Init, Customs!Rest, Filing
<1>3. \A s \in Consignments : ship[s] = Customs!Absent /\ ship[s].status # "FINALISED"
  BY DEF Customs!Init, Customs!Absent
<1>4. DOMAIN ship = Consignments /\ DOMAIN lines = Consignments /\ DOMAIN clerk = Requests
  BY DEF Customs!Init
<1> QED BY <1>1, <1>2, <1>3, <1>4 DEF FileInv

\* Every step keeps the invariant.
LEMMA FileNextKeeps ==
  ASSUME FiledInTurn, FileInv, [Customs!Next]_(Customs!vars)
  PROVE  FileInv'
<1>1. CASE UNCHANGED Customs!vars
  <2>1. ship' = ship /\ lines' = lines /\ acks' = acks /\ clerk' = clerk
    BY <1>1 DEF Customs!vars
  <2>2. AcksStay /\ Gentle /\ \A s \in Consignments : Same(s)
    BY <2>1, NothingWritten DEF AcksStay
  <2>3. ASSUME NEW q \in Requests, clerk'[q] # Customs!Rest PROVE FileStands(q)'
    <3>1. FileStands(q) /\ clerk'[q] = clerk[q]
      BY <2>1, <2>3 DEF FileInv
    <3> QED BY <3>1, <2>2, OthersGoOn
  <2>4. ASSUME NEW s \in Consignments, ~Customs!IsExport(s), ship'[s].status = "FINALISED"
        PROVE  Signed(ship[s], s)'
    BY <2>1, <2>2, <2>4, SignedStays DEF FileInv
  <2>5. \A p, q \in Requests : (Filing(clerk[p]) /\ Filing(clerk[q]))' => p = q
    BY <2>1 DEF FileInv, Filing
  <2> QED BY <2>1, <2>3, <2>4, <2>5 DEF FileInv, Customs!IsExport
<1>2. ASSUME NEW r \in Requests, Customs!Editing(r) PROVE FileInv'
  BY <1>2, StartsKeep, InsertShipmentKeeps, InsertWorksheetKeeps, WriteEditingKeeps DEF Customs!Editing
<1>3. ASSUME NEW r \in Requests, Customs!Building(r) PROVE FileInv'
  BY <1>3, StartsKeep, LinesKeep DEF Customs!Building
<1>4. ASSUME NEW r \in Requests, Customs!Acknowledging(r) PROVE FileInv'
  BY <1>4, StartsKeep, AckKeeps DEF Customs!Acknowledging
<1>5. ASSUME NEW r \in Requests, Customs!Finalising(r) PROVE FileInv'
  BY <1>5, StartsKeep, ValidateKeeps, FlipKeeps, WriteProofKeeps DEF Customs!Finalising
<1>6. ASSUME NEW r \in Requests, Customs!Reconciling(r) PROVE FileInv'
  BY <1>6, StartsKeep, ValueKeeps DEF Customs!Reconciling
<1>7. ASSUME NEW r \in Requests, Customs!Abandon(r) PROVE FileInv'
  BY <1>7, LeaveKeeps DEF Customs!Abandon
<1> QED BY <1>1, <1>2, <1>3, <1>4, <1>5, <1>6, <1>7 DEF Customs!Next

\* The invariant of the customs file holds of any consignments, headers, changes, lines
\* and requests, dying anywhere.
THEOREM FileInductive ==
  ASSUME FiledInTurn
  PROVE  Customs!Spec => []FileInv
<1>1. FileInv /\ [Customs!Next]_(Customs!vars) => FileInv'
  BY FileNextKeeps
<1> QED BY <1>1, FileInit, PTL DEF Customs!Spec

\* No return is received with a declared total that is not the sum of its lines, unless
\* these very figures were acknowledged (finaliseImportShipment, routes/opr.ts).
THEOREM VariancesAreAcknowledged ==
  ASSUME FiledInTurn
  PROVE  Customs!Spec => []ReceivedAsAcknowledged
<1>1. ASSUME FileInv PROVE ReceivedAsAcknowledged
  <2> SUFFICES ASSUME NEW s \in Consignments, Customs!ReceivedWithVariance(s),
                      Customs!Form(ship[s], s).ok
               PROVE  Customs!AcknowledgedAsItStands(s)
    BY DEF ReceivedAsAcknowledged, Customs!ReceivedAsAcknowledged
  <2>1. Signed(ship[s], s)
    BY <1>1 DEF FileInv, Customs!ReceivedWithVariance
  <2>2. Fillable(ship[s])
    BY FormIsComputed DEF Customs!Form
  <2>3. Varies(ship[s], s)
    BY DEF Varies, Customs!ReceivedWithVariance, Customs!Misdeclared, Customs!Figures
  <2>4. Noted(ship[s], s)
    BY <2>1, <2>2, <2>3 DEF Signed
  <2>5. Customs!Figures(ship[s], lines[s], "value") =
          <<ship[s].declared_invoice_total_gbp, Customs!sumLineValues(lines[s])>>
    BY DEF Customs!Figures
  <2> QED BY <2>4, <2>5 DEF Noted, Customs!AcknowledgedAsItStands
<1> QED BY <1>1, FileInductive, PTL
-----------------------------------------------------------------------------
(* What customs are told: the form, for any header with its figures, and   *)
(* the entry, for any page.                                                *)

\* The figures of the header that the form is computed from.
FigureColumns ==
  {"repair_cost", "customs_exchange_rate", "duty_rate_pct", "inbound_freight_gbp",
   "non_eu_freight_share_gbp", "export_freight_gbp", "insurance_gbp", "value_adjustment_gbp",
   "entry_vat_base_gbp"}

Figured(header) == \A c \in FigureColumns : header[c] \in Int \cup {Unset}

Token ==
  { [kind |-> "code", code |-> c] : c \in STRING }
    \cup [kind : {"amount"}, amount : Int, unit : {"GBP", "rate", "none"}]
    \cup [kind : {"text"}]

\* A form is asked of a header with its figures, an entry is any page of tokens.
Asked ==
  /\ IsSample("form") => Figured(sample.of)
  /\ IsSample("entry") => sample.of \in Seq(Token)

\* A form that is refused for its rate has none; otherwise the charge is an amount.
LEMMA ChargeIsAmount ==
  ASSUME NEW header, Figured(header), Customs!hasWorksheetInputs(header), ~Customs!RateMissing(header)
  PROVE  /\ Customs!ProcessChargeGbp(header) \in Int
         /\ Customs!Duty(header) \in Int
         /\ header.inbound_freight_gbp \in Int /\ header.export_freight_gbp \in Int
<1>1. /\ header.repair_cost \in Int /\ header.inbound_freight_gbp \in Int
      /\ header.non_eu_freight_share_gbp \in Int /\ header.export_freight_gbp \in Int
      /\ header.duty_rate_pct \in Int
  BY DEF Figured, FigureColumns, Customs!hasWorksheetInputs, Customs!WorksheetInputs
<1>2. ASSUME NEW num \in Int, NEW den \in Int, den > 0
      PROVE  Customs!Rounded(num, den) \in Int
  BY <1>2 DEF Customs!Rounded
<1>3. Customs!ProcessChargeGbp(header) \in Int
  <2>1. CASE Customs!Foreign(header)
    <3>1. header.customs_exchange_rate \in Int /\ header.customs_exchange_rate > 0
      BY <2>1 DEF Figured, FigureColumns, Customs!RateMissing
    <3> QED BY <1>1, <1>2, <2>1, <3>1 DEF Customs!ProcessChargeGbp
  <2>2. CASE ~Customs!Foreign(header)
    BY <1>1, <2>2 DEF Customs!ProcessChargeGbp
  <2> QED BY <2>1, <2>2
<1>4. Customs!NonNull(header.insurance_gbp, 0) \in Int
  BY DEF Figured, FigureColumns, Customs!NonNull
<1>5. Customs!DutyBase(header) \in Int
  BY <1>1, <1>3, <1>4 DEF Customs!DutyBase
<1>6. Customs!DutyBase(header) * header.duty_rate_pct \in Int
  BY <1>1, <1>5
<1>7. Customs!Duty(header) \in Int
  BY <1>2, <1>6 DEF Customs!Duty
<1> QED BY <1>1, <1>3, <1>7

\* The form from the worksheet is honest.
LEMMA ComputedIsHonest ==
  ASSUME NEW header, Figured(header), Customs!hasWorksheetInputs(header), ~Customs!RateMissing(header),
         DefaultAdjustment \in Int, NEW held, NEW m,
         Customs!Duty(header) = 0 => header.duty_override_claimed
  PROVE  Customs!Honest(header, Customs!Computed(header, held, m))
<1> DEFINE form       == Customs!Computed(header, held, m)
           charge     == Customs!ProcessChargeGbp(header)
           inbound    == header.inbound_freight_gbp
           outbound   == header.export_freight_gbp
           duty       == Customs!Duty(header)
           adjustment == Customs!ValueAdjustment(header)
<1>1. charge \in Int /\ inbound \in Int /\ outbound \in Int /\ duty \in Int
  BY ChargeIsAmount
<1>2. /\ form.duty = duty /\ form.adjustment = adjustment
      /\ form.vat_base = charge + inbound + outbound + duty + adjustment.amount
  BY DEF Customs!Computed, Customs!VatBase
<1>3. Customs!AdjustmentMarker(form) = (IF adjustment.provenance = "default-unverified" THEN "UNVERIFIED"
                                       ELSE IF adjustment.provenance = "solved" THEN "SOLVED" ELSE "none")
  BY <1>2 DEF Customs!AdjustmentMarker
<1> DEFINE taken(input, amount) == IF input \in header.derived THEN 0 ELSE amount
           left  == header.entry_vat_base_gbp - taken("process_charge", charge)
                      - taken("inbound_freight_gbp", inbound) - taken("export_freight_gbp", outbound) - duty
           given == header.value_adjustment_gbp
           entry == header.entry_vat_base_gbp
<1>4. given \in Int \cup {Unset} /\ entry \in Int \cup {Unset}
  BY DEF Figured, FigureColumns
<1>5. Customs!Residual(header) = left
  BY DEF Customs!Residual, Customs!Supplied
<1>6. adjustment =
        IF given # Unset THEN [amount |-> given, provenance |-> "broker-supplied", variance |-> Unset]
        ELSE IF entry = Unset
          THEN [amount |-> DefaultAdjustment, provenance |-> "default-unverified", variance |-> Unset]
        ELSE IF header.derived \cap Customs!Inputs = {}
          THEN [amount |-> left, provenance |-> "solved", variance |-> Unset]
        ELSE [amount |-> DefaultAdjustment, provenance |-> "default-unverified", variance |-> left]
  BY <1>5 DEF Customs!ValueAdjustment
<1> HIDE DEF form, charge, duty, adjustment
<1>7. Customs!AdjustmentMarker(form) = "none" => form.adjustment.amount = given
  BY <1>2, <1>3, <1>6
<1>8. Customs!AdjustmentMarker(form) = "SOLVED" =>
        header.derived \cap Customs!Inputs = {} /\ form.vat_base = entry
  <2> SUFFICES ASSUME Customs!AdjustmentMarker(form) = "SOLVED"
               PROVE  header.derived \cap Customs!Inputs = {} /\ form.vat_base = entry
    OBVIOUS
  <2>1. given = Unset /\ entry # Unset /\ header.derived \cap Customs!Inputs = {} /\ adjustment.amount = left
    BY <1>3, <1>6
  <2>2. left = entry - charge - inbound - outbound - duty
    BY <2>1 DEF Customs!Inputs
  <2> QED BY <1>1, <1>2, <1>4, <2>1, <2>2
<1>9. form.adjustment.variance # Unset =>
        form.adjustment.variance =
          entry - (form.vat_base - form.adjustment.amount)
            + (IF "process_charge" \in header.derived THEN charge ELSE 0)
            + (IF "inbound_freight_gbp" \in header.derived THEN inbound ELSE 0)
            + (IF "export_freight_gbp" \in header.derived THEN outbound ELSE 0)
  <2> SUFFICES ASSUME adjustment.variance # Unset
               PROVE  left = entry - (form.vat_base - adjustment.amount)
                               + (charge - taken("process_charge", charge))
                               + (inbound - taken("inbound_freight_gbp", inbound))
                               + (outbound - taken("export_freight_gbp", outbound))
    BY <1>1, <1>2, <1>6
  <2>1. entry \in Int /\ adjustment.amount = DefaultAdjustment
    BY <1>4, <1>6
  <2>2. form.vat_base - adjustment.amount = charge + inbound + outbound + duty
    BY <1>1, <1>2, <2>1
  <2>3. /\ taken("process_charge", charge) \in Int /\ taken("inbound_freight_gbp", inbound) \in Int
        /\ taken("export_freight_gbp", outbound) \in Int
    BY <1>1
  <2> HIDE DEF taken
  <2> QED BY <1>1, <2>1, <2>2, <2>3
<1>10. form.duty = 0 => header.duty_override_claimed
  BY <1>2 DEF duty
<1>11. Customs!Honest(header, form)
  BY <1>7, <1>8, <1>9, <1>10 DEF Customs!Honest, charge
<1> QED BY <1>11 DEF form

\* The form from the entry's figures promises only that no duty of zero is implied.
LEMMA PendingIsHonest ==
  ASSUME NEW header, NEW m, header.entry_duty_gbp = 0 => header.duty_override_claimed
  PROVE  Customs!Honest(header, Customs!EntryPending(header, m))
<1> DEFINE form == Customs!EntryPending(header, m)
<1>1. form.source = "entry_pending" /\ form.duty = header.entry_duty_gbp
  BY DEF Customs!EntryPending
<1> HIDE DEF form
<1>2. Customs!Honest(header, form)
  BY <1>1 DEF Customs!Honest
<1> QED BY <1>2 DEF form

LEMMA FormsAreFilledHonestly ==
  ASSUME NEW header, Figured(header), DefaultAdjustment \in Int,
         NEW export, NEW auth, NEW held, NEW siblings, NEW noted
  PROVE  Customs!Honest(header, Customs!computeCe1154(header, export, auth, held, Unset, siblings, noted))
<1> DEFINE form == Customs!computeCe1154(header, export, auth, held, Unset, siblings, noted)
           m    == Customs!checkMisdeclaration(header, held, siblings, noted)
<1>1. CASE ~form.ok
  BY <1>1 DEF Customs!Honest
<1>2. CASE form.ok /\ Customs!hasWorksheetInputs(header)
  <2>1. /\ form = Customs!Computed(header, held, m) /\ ~Customs!RateMissing(header)
        /\ Customs!Duty(header) = 0 => header.duty_override_claimed
    BY <1>2, FormIsComputed DEF Fillable
  <2> QED BY <1>2, <2>1, ComputedIsHonest
<1>3. CASE form.ok /\ ~Customs!hasWorksheetInputs(header)
  <2>1. /\ form = Customs!EntryPending(header, m)
        /\ header.entry_duty_gbp = 0 => header.duty_override_claimed
    BY <1>3, FormIsComputed DEF Fillable
  <2> QED BY <2>1, PendingIsHonest
<1> QED BY <1>1, <1>2, <1>3

\* A page on which a tax has no code of its own is refused, never read as nil.
LEMMA EntriesAreRead ==
  ASSUME NEW tokens \in Seq(Token)
  PROVE  EntryIsRead(tokens)
<1> DEFINE parsed == Customs!parseBox47(tokens)
<1>1. ASSUME Customs!reconcileBox47(parsed, 5, 5).ok
      PROVE  parsed.duty # Unset /\ parsed.vat # Unset
  BY <1>1 DEF Customs!reconcileBox47, Customs!Refusal
<1>2. ASSUME NEW type \in {"A00", "B00"}, Customs!FirstLine(tokens, type) # Unset
      PROVE  \E i \in DOMAIN tokens : tokens[i] = [kind |-> "code", code |-> type]
  <2>1. PICK i \in DOMAIN tokens : tokens[i].kind = "code" /\ tokens[i].code = type
    BY <1>2 DEF Customs!FirstLine, Customs!IsCode
  <2>2. tokens[i] \in Token
    OBVIOUS
  <2>3. PICK c \in STRING : tokens[i] = [kind |-> "code", code |-> c]
    BY <2>1, <2>2 DEF Token
  <2> QED BY <2>1, <2>3
<1>3. parsed.duty = Customs!FirstLine(tokens, "A00") /\ parsed.vat = Customs!FirstLine(tokens, "B00")
  BY DEF Customs!parseBox47
<1> QED BY <1>1, <1>2, <1>3 DEF EntryIsRead

\* For every header, whatever a document supplied and whatever the entry says, the C&E1154
\* marks an adjustment that nothing corroborates, balances to the entry only where no input
\* is assumed, and implies no zero duty (computeCe1154, lib/oprImport.ts); and a page of
\* an entry reconciles only with both taxes on it (reconcileBox47).
THEOREM FormsAreHonest ==
  ASSUME Asked, DefaultAdjustment \in Int
  PROVE  FormIsHonest
<1>1. IsSample("form") => Customs!Honest(sample.of, SampleForm)
  BY FormsAreFilledHonestly DEF Asked, SampleForm
<1>2. IsSample("entry") => EntryIsRead(sample.of)
  BY EntriesAreRead DEF Asked
<1> QED BY <1>1, <1>2 DEF FormIsHonest

-----------------------------------------------------------------------------
(* Sales, repairs and SKUs: the theorems of their modules, at their desks. *)

SaleDesk == INSTANCE SaleImport_proofs WITH
  Devices <- SaleDevices, Files <- SaleExports, status <- standing, req <- importer

RepairDesk == INSTANCE RepairWorkflow_proofs WITH
  Devices <- RepairDevices, Serialised <- OneRepair, MaxJobs <- MaxRepairs,
  status <- stage, jobs <- repairs, req <- mechanic

SkuDesk == INSTANCE SkuMap_proofs WITH
  Files <- MapUploads, Managers <- Requests, None <- Nothing, req <- editor

\* A device whose latest event is an import's sale is SOLD, and its columns name the invoice
\* of that event (lib/zohoSaleImport.ts), whichever files are imported, one at a time, and
\* whatever the other routes write over it between a statement and the next.
THEOREM SalesStandAsRecorded ==
  ASSUME SaleDesk!OneFileAtATime
  PROVE  SaleDesk!Spec => []SoldAsRecorded
<1>1. SaleDesk!SoldAsRecorded => SoldAsRecorded
  BY DEF SaleDesk!SoldAsRecorded, SoldAsRecorded, Sale!SoldAsRecorded
<1> QED BY <1>1, SaleDesk!SalesAreAsRecorded, PTL

\* A device never has two live repair jobs (openRepairJobFor() in startRepair()), wherever
\* workers die and whatever is retried.
THEOREM NoSecondLiveJob ==
  ASSUME OneRepair
  PROVE  RepairDesk!Spec => []OneLiveJob
<1>1. RepairDesk!OneLiveJob => OneLiveJob
  BY DEF RepairDesk!OneLiveJob, OneLiveJob, Repair!OneLiveJob, RepairDesk!LiveJobs, Repair!LiveJobs,
         RepairDesk!Live, Repair!Live
<1> QED BY <1>1, RepairDesk!NeverTwoLiveJobs, PTL

\* closed_at is set exactly while a job is completed (recordQc(), reopenRepair() and
\* closeToInventory() of lib/repairWorkflow.ts).
THEOREM JobsCloseAsCompleted ==
  ASSUME OneRepair
  PROVE  RepairDesk!Spec => []ClosedIffCompleted
<1>1. RepairDesk!ClosedIffCompleted => ClosedIffCompleted
  BY DEF RepairDesk!ClosedIffCompleted, ClosedIffCompleted, Repair!ClosedIffCompleted
<1> QED BY <1>1, RepairDesk!ClosedWhileCompleted, PTL

\* A device in IN_HOUSE_REPAIR or QC_FAILED has a job to go on with, unless a worker died
\* between recording a pass and moving the device (recordQc()).
THEOREM RepairsCanGoOn ==
  ASSUME OneRepair
  PROVE  RepairDesk!Spec => []RepairIsResumable
<1>1. RepairDesk!RepairIsResumable => RepairIsResumable
  BY DEF RepairDesk!RepairIsResumable, RepairIsResumable, Repair!RepairIsResumable,
         RepairDesk!LiveJobs, Repair!LiveJobs, RepairDesk!Live, Repair!Live,
         RepairDesk!AtRest, Repair!AtRest, RepairDesk!Busy, Repair!Busy, RepairDesk!Rest, Repair!Rest,
         RepairDesk!LatestJob, Repair!LatestJob
<1> QED BY <1>1, RepairDesk!RepairCanGoOn, PTL

\* A device enters READY_FOR_ZOHO only with its latest job completed and passed, and with
\* data that pass checkReadyForZohoGate() at that moment.
THEOREM ZohoIsEnteredThroughTheGate ==
  ASSUME OneRepair
  PROVE  RepairDesk!Spec => IntoZohoThroughTheGate
BY RepairDesk!ZohoIsGated
   DEF RepairDesk!IntoZohoThroughTheGate, IntoZohoThroughTheGate, Repair!IntoZohoThroughTheGate,
       RepairDesk!EntersZoho, Repair!EntersZoho, RepairDesk!GateParts, Repair!GateParts,
       RepairDesk!vars, Repair!vars

\* An edit of the map that takes effect is made to the very row its manager was shown
\* (PATCH /sku-map/:goods_in_sku, routes/skuMap.ts), whichever writes of others came between.
THEOREM EditsAreOfTheShown ==
  ASSUME SkuDesk!WellFormed
  PROVE  SkuDesk!Spec => EditsBuildOnWhatWasSeen
BY SkuDesk!EditsBuildOnTheShown
   DEF SkuDesk!EditsBuildOnWhatWasSeen, EditsBuildOnWhatWasSeen, Sku!EditsBuildOnWhatWasSeen,
       SkuDesk!vars, Sku!vars
=============================================================================
