-------------------------- MODULE SaleImport_proofs --------------------------
(***************************************************************************)
(* A proof that the columns of a sold device are those of the sale in its *)
(* latest event, for any files, devices and requests, whatever other       *)
(* routes write over it meanwhile.                                         *)
(*                                                                         *)
(* SoldAsRecorded looks at the columns after the sale; an import writes    *)
(* them before it, in a statement of its own.  IInv therefore also says    *)
(* what a request has established at each statement: the sales that are    *)
(* left are of different devices, none of which has a sale for its latest  *)
(* event (a SOLD device is no sale of a later file, and the moves of other *)
(* routes are no sale of an import), and between the columns and the event *)
(* the columns are those of the sale at hand.                              *)
(***************************************************************************)
EXTENDS SaleImport, WellFoundedInduction, TLAPS

\* The rows of a file have places, those that left the stock have a day, and one of the
\* days is the last.
FilesOfRows ==
  \A f \in DOMAIN Files :
    /\ DOMAIN Files[f] \subseteq Nat
    /\ \E last \in Nat : \A i \in DOMAIN Files[f] :
         Files[f][i].date # Nothing => Files[f][i].date \in 0..last

\* A file spells a serial in one way, so that a device has one sale in it.
OneSpelling ==
  \A f \in DOMAIN Files : \A i, j \in DOMAIN Files[f] :
    Files[f][i].code.imei = Files[f][j].code.imei => Files[f][i].code = Files[f][j].code

\* A request as a record of its columns.
IsImport(x) ==
  /\ \E pc, moves, sales : x = [pc |-> pc, moves |-> moves, sales |-> sales]
  /\ x.pc \in {"non_revenue", "columns", "read", "commit"}

\* The tables, and the requests.
Shape ==
  /\ status \in [Devices -> DEVICE_STATUSES]
  /\ cols = [d \in Devices |-> [c \in DOMAIN NoSale |-> cols[d][c]]]
  /\ sold = [d \in Devices |-> sold[d]]
  /\ req = [r \in Requests |-> req[r]]
  /\ \A r \in Requests : Busy(r) => IsImport(req[r])

\* Sales of one file: one for a device and one at a place.
OneEach(sales) ==
  /\ \A o \in sales : o.imei \in Devices /\ o.no \in Nat
  /\ \A o, p \in sales : o.no = p.no \/ o.imei = p.imei => o = p

\* The sales that are left are of devices whose latest event is no import's sale.
StillToSell(r) ==
  /\ OneEach(req[r].sales)
  /\ \A o \in req[r].sales : sold[o.imei] = Nothing

\* Between its columns and its event, the columns are those of the sale at hand.
ColumnsWritten(r) ==
  req[r].pc \in {"read", "commit"} =>
    /\ req[r].sales # {}
    /\ cols[Sale(r).imei].invoice = Sale(r).invoice

Alone == \A q, r \in Requests : Busy(q) /\ Busy(r) => q = r

\* The inductive invariant.
IInv ==
  /\ Shape
  /\ Alone
  /\ \A r \in Requests : Busy(r) => StillToSell(r) /\ ColumnsWritten(r)
  /\ SoldAsRecorded

-----------------------------------------------------------------------------

\* Numbers have a least one.
LEMMA LeastOf ==
  ASSUME NEW N \in SUBSET Nat, N # {}
  PROVE  \E n \in N : \A m \in N : n <= m
<1>1. \E n \in N : \A m \in N : <<m, n>> \notin OpToRel(<, Nat)
  BY NatLessThanWellFounded, WFMin
<1>2. PICK n \in N : \A m \in N : ~(m < n)
  BY <1>1 DEF OpToRel
<1>3. \A m \in N : n <= m
  BY <1>2
<1> QED BY <1>3

\* Of the sales that are left one is the first of the file.
LEMMA FirstSale ==
  ASSUME NEW sales, OneEach(sales), sales # {}
  PROVE  \E o \in sales : \A p \in sales : o.no <= p.no
<1> DEFINE N == { o.no : o \in sales }
<1>1. N \subseteq Nat /\ N # {}
  BY DEF OneEach
<1>2. PICK n \in N : \A m \in N : n <= m
  <2> HIDE DEF N
  <2> QED BY <1>1, LeastOf
<1>3. PICK o \in sales : o.no = n
  BY <1>2
<1>4. \A p \in sales : o.no <= p.no
  BY <1>2, <1>3
<1> QED BY <1>4

\* The sale at hand is one of those that are left.
LEMMA SaleIsLeft ==
  ASSUME NEW r \in Requests, OneEach(req[r].sales), req[r].sales # {}
  PROVE  Sale(r) \in req[r].sales
BY FirstSale DEF Sale

\* The first of some places is one of them.
LEMMA MinIsIn ==
  ASSUME NEW N \in SUBSET Nat, N # {}
  PROVE  Min(N) \in N
BY LeastOf DEF Min

\* The row that decides for a serial is one of its rows.
LEMMA RowOfCode ==
  ASSUME FilesOfRows, NEW f \in DOMAIN Files, NEW code, RowsOf(Files[f], code) # {}
  PROVE  \E i \in RowsOf(Files[f], code) : resolveZohoRowForCode(Files[f], code) = Files[f][i]
<1> DEFINE rows == Files[f]
           all  == RowsOf(rows, code)
           left == { i \in all : rows[i].date # Nothing }
           late == { i \in left : \A j \in left : rows[j].date <= rows[i].date }
<1>1. all \in SUBSET Nat /\ all # {}
  BY DEF FilesOfRows, RowsOf
<1>2. CASE left = {}
  <2>1. resolveZohoRowForCode(rows, code) = rows[Min(all)]
    BY <1>2 DEF resolveZohoRowForCode
  <2> QED BY <2>1, <1>1, MinIsIn
<1>3. CASE left # {}
  <2>1. resolveZohoRowForCode(rows, code) = rows[Min(late)]
    BY <1>3 DEF resolveZohoRowForCode
  <2>2. PICK last \in Nat : \A i \in DOMAIN rows : rows[i].date # Nothing => rows[i].date \in 0..last
    BY DEF FilesOfRows
  <2>3. \A i \in left : rows[i].date \in 0..last
    BY <2>2 DEF RowsOf
  <2> DEFINE gaps == { last - rows[i].date : i \in left }
  <2>4. gaps \in SUBSET Nat /\ gaps # {}
    <3>1. \A x \in 0..last : last - x \in Nat
      OBVIOUS
    <3>2. \A i \in left : last - rows[i].date \in Nat
      <4> HIDE DEF left
      <4> QED BY <3>1, <2>3
    <3>3. gaps \in SUBSET Nat
      <4> HIDE DEF left
      <4> QED BY <3>2
    <3> QED BY <3>3, <1>3
  <2>5. PICK n \in gaps : \A m \in gaps : n <= m
    <3> HIDE DEF gaps
    <3> QED BY <2>4, LeastOf
  <2>6. PICK i \in left : n = last - rows[i].date
    BY <2>5
  <2>7. ASSUME NEW j \in left PROVE rows[j].date <= rows[i].date
    <3>1. last - rows[i].date <= last - rows[j].date
      BY <2>5, <2>6
    <3> QED BY <3>1, <2>2, <2>3
  <2>8. late \in SUBSET Nat /\ late # {} /\ late \subseteq all
    BY <2>7, <1>1
  <2>9. Min(late) \in all
    <3> HIDE DEF late, all
    <3> QED BY <2>8, MinIsIn
  <2> QED BY <2>1, <2>9
<1> QED BY <1>2, <1>3

\* What a row would have the import write names the serial, at a place where it is.
LEMMA ClassifiedAt ==
  ASSUME FilesOfRows, NEW f \in DOMAIN Files, NEW i \in DOMAIN Files[f]
  PROVE  /\ classifyRow(Files[f], Files[f][i].code).no \in RowsOf(Files[f], Files[f][i].code)
         /\ classifyRow(Files[f], Files[f][i].code).imei = Files[f][i].code.imei
<1> DEFINE all == RowsOf(Files[f], Files[f][i].code)
<1>1. all \in SUBSET Nat /\ all # {}
  BY DEF FilesOfRows, RowsOf
<1>2. Min(all) \in all
  <2> HIDE DEF all
  <2> QED BY <1>1, MinIsIn
<1> QED BY <1>2 DEF classifyRow

\* The sales of a file are of received devices.
LEMMA SaleOfDevice ==
  ASSUME FilesOfRows, NEW f \in DOMAIN Files, NEW i \in DOMAIN Files[f],
         classifyRow(Files[f], Files[f][i].code).outcome = "matched_sale"
  PROVE  Files[f][i].code.imei \in Devices
<1> DEFINE code == Files[f][i].code
<1>1. i \in RowsOf(Files[f], code)
  BY DEF RowsOf
<1>2. PICK j \in RowsOf(Files[f], code) : resolveZohoRowForCode(Files[f], code) = Files[f][j]
  BY <1>1, RowOfCode
<1>3. Outcome(Files[f][j]) = "matched_sale"
  BY <1>2 DEF classifyRow
<1>4. Files[f][j].code.imei \in Devices
  BY <1>3 DEF Outcome
<1> QED BY <1>2, <1>4 DEF RowsOf

\* The sales of a file are one for a device and one at a place.
LEMMA SalesOfFile ==
  ASSUME FilesOfRows, OneSpelling, NEW f \in DOMAIN Files,
         NEW sales \in SUBSET Having(classifyZohoCsvRows(Files[f]), "matched_sale")
  PROVE  OneEach(sales)
<1> DEFINE rows == Files[f]
           O(i) == classifyRow(rows, rows[i].code)
<1>1. /\ DOMAIN rows \subseteq Nat
      /\ \A i, j \in DOMAIN rows : rows[i].code.imei = rows[j].code.imei => rows[i].code = rows[j].code
  BY DEF FilesOfRows, OneSpelling
<1>2. \A o \in sales : \E i \in DOMAIN rows : o = O(i) /\ O(i).outcome = "matched_sale"
  BY DEF Having, classifyZohoCsvRows
<1>3. \A i \in DOMAIN rows : O(i).no \in RowsOf(rows, rows[i].code) /\ O(i).imei = rows[i].code.imei
  BY <1>1, ClassifiedAt
<1>4. \A i \in DOMAIN rows : O(i).outcome = "matched_sale" => rows[i].code.imei \in Devices
  BY SaleOfDevice
<1>5. ASSUME NEW o \in sales
      PROVE  o.imei \in Devices /\ o.no \in Nat
  <2>1. PICK i \in DOMAIN rows : o = O(i) /\ O(i).outcome = "matched_sale"
    BY <1>2
  <2> HIDE DEF O, rows
  <2> QED BY <2>1, <1>1, <1>3, <1>4 DEF RowsOf
<1>6. ASSUME NEW o \in sales, NEW p \in sales, o.no = p.no \/ o.imei = p.imei
      PROVE  o = p
  <2>1. PICK i \in DOMAIN rows : o = O(i)
    BY <1>2
  <2>2. PICK j \in DOMAIN rows : p = O(j)
    BY <1>2
  <2>3. rows[i].code = rows[j].code
    <3> HIDE DEF O, rows
    <3>1. CASE o.no = p.no
      BY <3>1, <2>1, <2>2, <1>3 DEF RowsOf
    <3>2. CASE o.imei = p.imei
      BY <3>2, <2>1, <2>2, <1>1, <1>3
    <3> QED BY <3>1, <3>2, <1>6
  <2> QED BY <2>1, <2>2, <2>3
<1> QED BY <1>5, <1>6 DEF OneEach

-----------------------------------------------------------------------------
(* The steps.                                                              *)

\* At first nothing is sold.
LEMMA InitOk == Init => IInv
BY DEF Init, IInv, Shape, Alone, SoldAsRecorded, NoSale, Rest, Busy, DEVICE_STATUSES

\* An import begins with the sales that the snapshot has no obstacle to.
LEMMA StartImportOk ==
  ASSUME IInv, FilesOfRows, OneSpelling, OneImport = TRUE, NEW r \in Requests, NEW f \in DOMAIN Files,
         NEW qc, NEW low, StartImport(r, f, qc, low)
  PROVE  IInv'
<1> DEFINE outcomes == classifyZohoCsvRows(Files[f])
<1> DEFINE S == { o \in Having(outcomes, "matched_sale") : Obstacle(o, qc) = "none" }
<1>1. PICK sales : sales = S
  OBVIOUS
<1>2. PICK moves : moves = Having(outcomes, "matched_non_revenue")
  OBVIOUS
<1>3. req' = [req EXCEPT ![r] = [pc |-> "non_revenue", moves |-> moves, sales |-> sales]]
  BY <1>1, <1>2 DEF StartImport
<1>4. OneEach(sales)
  <2>1. sales \in SUBSET Having(outcomes, "matched_sale")
    BY <1>1
  <2> QED BY <2>1, SalesOfFile
<1>5. \A o \in sales : status[o.imei] # "SOLD"
  BY <1>1 DEF Obstacle
<1>6. \A o \in sales : o.imei \in Devices /\ sold[o.imei] = Nothing
  BY <1>4, <1>5 DEF OneEach, IInv, SoldAsRecorded
<1>7. \A q \in Requests : ~Busy(q)
  BY DEF StartImport
<1>8. UNCHANGED <<status, cols, sold>>
  BY DEF StartImport
<1> HIDE DEF S, outcomes
<1>9. /\ req'[r] = [pc |-> "non_revenue", moves |-> moves, sales |-> sales]
      /\ \A q \in Requests : q # r => req'[q] = Rest
  BY <1>3, <1>7 DEF IInv, Shape, Busy
<1>10. Shape'
  BY <1>3, <1>8, <1>9 DEF IInv, Shape, IsImport, Busy, Rest
<1>11. Alone'
  BY <1>9 DEF Alone, Busy
<1>12. StillToSell(r)' /\ ColumnsWritten(r)'
  BY <1>4, <1>6, <1>8, <1>9 DEF StillToSell, ColumnsWritten, OneEach
<1>13. \A q \in Requests : Busy(q)' => q = r
  BY <1>9 DEF Busy
<1>14. SoldAsRecorded'
  BY <1>8 DEF IInv, SoldAsRecorded
<1> QED BY <1>10, <1>11, <1>12, <1>13, <1>14 DEF IInv

\* What a request is at its next statement.
LEMMA NextStatement ==
  ASSUME NEW x, IsImport(x), NEW pc, NEW o
  PROVE  /\ [x EXCEPT !.pc = pc] = [pc |-> pc, moves |-> x.moves, sales |-> x.sales]
         /\ [x EXCEPT !.pc = pc, !.sales = @ \ {o}]
              = [pc |-> pc, moves |-> x.moves, sales |-> x.sales \ {o}]
<1>1. PICK a, b, c : x = [pc |-> a, moves |-> b, sales |-> c]
  BY DEF IsImport
<1>2. x.moves = b /\ x.sales = c
  BY <1>1
<1>3. [x EXCEPT !.pc = pc] = [pc |-> pc, moves |-> b, sales |-> c]
  BY <1>1
<1>4. [x EXCEPT !.pc = pc, !.sales = @ \ {o}] = [pc |-> pc, moves |-> b, sales |-> c \ {o}]
  <2>1. PICK left : left = c \ {o}
    OBVIOUS
  <2>2. PICK y : y = [x EXCEPT !.pc = pc]
    OBVIOUS
  <2>3. y = [pc |-> pc, moves |-> b, sales |-> c]
    BY <1>3, <2>2
  <2>4. [y EXCEPT !.sales = left] = [pc |-> pc, moves |-> b, sales |-> left]
    BY <2>3
  <2>5. [x EXCEPT !.pc = pc, !.sales = left] = [pc |-> pc, moves |-> b, sales |-> left]
    BY <2>2, <2>4
  <2> QED BY <1>2, <2>1, <2>5
<1> QED BY <1>2, <1>3, <1>4

\* A step of the only request there is, after which it is at another of its statements.
LEMMA Alone_Step ==
  ASSUME IInv, NEW r \in Requests, Busy(r), NEW pc, NEW sales,
         req' = [req EXCEPT ![r] = [pc |-> pc, moves |-> req[r].moves, sales |-> sales]],
         pc \in {"non_revenue", "columns", "read", "commit"}
  PROVE  /\ req'[r] = [pc |-> pc, moves |-> req[r].moves, sales |-> sales]
         /\ req' = [q \in Requests |-> req'[q]]
         /\ \A q \in Requests : Busy(q)' <=> q = r
         /\ Alone'
<1>1. /\ req'[r] = [pc |-> pc, moves |-> req[r].moves, sales |-> sales]
      /\ \A q \in Requests : q # r => req'[q] = req[q]
      /\ req' = [q \in Requests |-> req'[q]]
  BY DEF IInv, Shape
<1>2. \A q \in Requests : q # r => req[q] = Rest
  BY DEF IInv, Alone, Busy
<1>3. req'[r] # Rest
  BY <1>1 DEF Rest
<1> QED BY <1>1, <1>2, <1>3 DEF Alone, Busy

\* The moves that are no revenue leave the invoice of a sale.
LEMMA WriteNonRevenueOk ==
  ASSUME IInv, NEW r \in Requests, WriteNonRevenue(r)
  PROVE  IInv'
<1>1. Busy(r)
  BY DEF WriteNonRevenue, Busy, Rest
<1>2. req' = [req EXCEPT ![r] = [pc |-> "columns", moves |-> req[r].moves, sales |-> req[r].sales]]
  <2>1. req' = [req EXCEPT ![r].pc = "columns"]
    BY DEF WriteNonRevenue
  <2>2. IsImport(req[r])
    BY <1>1 DEF IInv, Shape
  <2>3. PICK x : x = req[r]
    OBVIOUS
  <2> QED BY <2>1, <2>2, <2>3, NextStatement
<1>3. /\ req'[r] = [pc |-> "columns", moves |-> req[r].moves, sales |-> req[r].sales]
      /\ req' = [q \in Requests |-> req'[q]]
      /\ \A q \in Requests : Busy(q)' <=> q = r
      /\ Alone'
  <2>1. PICK sales : sales = req[r].sales
    OBVIOUS
  <2> QED BY <1>1, <1>2, <2>1, Alone_Step
<1>4. UNCHANGED <<status, sold>>
  BY DEF WriteNonRevenue
<1>5. ASSUME NEW d \in Devices
      PROVE  /\ cols'[d] = [c \in DOMAIN NoSale |-> cols'[d][c]]
             /\ cols'[d].invoice = cols[d].invoice
  <2>1. cols[d] = [c \in DOMAIN NoSale |-> cols[d][c]] /\ "invoice" \in DOMAIN NoSale
    BY DEF IInv, Shape, NoSale
  <2>2. \/ cols'[d] = cols[d]
        \/ \E o : cols'[d] = NonRevenueColumns(d, o)
    BY DEF WriteNonRevenue
  <2> QED BY <2>1, <2>2 DEF NonRevenueColumns, NoSale
<1>6. cols' = [d \in Devices |-> cols'[d]]
  BY DEF WriteNonRevenue
<1>7. Shape'
  <2>1. cols' = [d \in Devices |-> [c \in DOMAIN NoSale |-> cols'[d][c]]]
    BY <1>5, <1>6
  <2> QED BY <2>1, <1>3, <1>4 DEF IInv, Shape, IsImport
<1>8. StillToSell(r)' /\ ColumnsWritten(r)'
  BY <1>1, <1>3, <1>4 DEF IInv, StillToSell, ColumnsWritten, OneEach
<1>9. SoldAsRecorded'
  BY <1>4, <1>5 DEF IInv, SoldAsRecorded
<1> QED BY <1>3, <1>7, <1>8, <1>9 DEF IInv

\* The columns of a sale are written on a device that no import has sold.
LEMMA WriteSaleColumnsOk ==
  ASSUME IInv, NEW r \in Requests, WriteSaleColumns(r)
  PROVE  IInv'
<1>1. Busy(r)
  BY DEF WriteSaleColumns, Busy, Rest
<1>2. req' = [req EXCEPT ![r] = [pc |-> "read", moves |-> req[r].moves, sales |-> req[r].sales]]
  <2>1. req' = [req EXCEPT ![r].pc = "read"]
    BY DEF WriteSaleColumns
  <2>2. IsImport(req[r])
    BY <1>1 DEF IInv, Shape
  <2>3. PICK x : x = req[r]
    OBVIOUS
  <2> QED BY <2>1, <2>2, <2>3, NextStatement
<1>3. /\ req'[r] = [pc |-> "read", moves |-> req[r].moves, sales |-> req[r].sales]
      /\ req' = [q \in Requests |-> req'[q]]
      /\ \A q \in Requests : Busy(q)' <=> q = r
      /\ Alone'
  <2>1. PICK sales : sales = req[r].sales
    OBVIOUS
  <2> QED BY <1>1, <1>2, <2>1, Alone_Step
<1>4. UNCHANGED <<status, sold>>
  BY DEF WriteSaleColumns
<1>5. PICK o : o = Sale(r)
  OBVIOUS
<1>6. o \in req[r].sales /\ req[r].sales # {} /\ o.imei \in Devices /\ sold[o.imei] = Nothing
  BY <1>1, <1>5, SaleIsLeft DEF IInv, StillToSell, OneEach, WriteSaleColumns, Done
<1>7. Sale(r)' = o
  BY <1>3, <1>5 DEF Sale
<1>8. /\ cols' = [d \in Devices |-> cols'[d]]
      /\ \A d \in Devices : cols'[d] = [c \in DOMAIN NoSale |-> cols'[d][c]]
      /\ \A d \in Devices : d # o.imei => cols'[d] = cols[d]
      /\ cols'[o.imei].invoice = o.invoice
  <2>1. cols' = [cols EXCEPT ![o.imei] = SaleColumns(o)]
    BY <1>5 DEF WriteSaleColumns
  <2>2. cols[o.imei] = [c \in DOMAIN NoSale |-> cols[o.imei][c]]
    BY <1>6 DEF IInv, Shape
  <2>3. /\ SaleColumns(o) = [c \in DOMAIN NoSale |-> SaleColumns(o)[c]]
        /\ SaleColumns(o).invoice = o.invoice
    BY <2>2 DEF SaleColumns, NoSale
  <2> QED BY <1>6, <2>1, <2>3 DEF IInv, Shape
<1>9. Shape'
  <2>1. cols' = [d \in Devices |-> [c \in DOMAIN NoSale |-> cols'[d][c]]]
    BY <1>8
  <2> QED BY <2>1, <1>3, <1>4 DEF IInv, Shape, IsImport
<1>10. StillToSell(r)'
  BY <1>1, <1>3, <1>4 DEF IInv, StillToSell, OneEach
<1>11. ColumnsWritten(r)'
  BY <1>3, <1>6, <1>7, <1>8 DEF ColumnsWritten
<1>12. SoldAsRecorded'
  BY <1>4, <1>6, <1>8 DEF IInv, SoldAsRecorded
<1> QED BY <1>3, <1>9, <1>10, <1>11, <1>12 DEF IInv

\* The sales that are left after one are still one for a device.
LEMMA NextSaleOk ==
  ASSUME IInv, NEW r \in Requests, Busy(r), NextSale(r), req[r].sales # {}
  PROVE  /\ req'[r] = [pc |-> "columns", moves |-> req[r].moves, sales |-> req[r].sales \ {Sale(r)}]
         /\ req' = [q \in Requests |-> req'[q]]
         /\ \A q \in Requests : Busy(q)' <=> q = r
         /\ Alone'
         /\ \A q \in Requests : Busy(q)' => IsImport(req'[q])
         /\ ColumnsWritten(r)'
         /\ OneEach(req'[r].sales)
         /\ Sale(r) \in req[r].sales /\ Sale(r).imei \in Devices
         /\ \A o \in req'[r].sales : o \in req[r].sales /\ o.imei # Sale(r).imei
<1>1. PICK sales : sales = req[r].sales \ {Sale(r)}
  OBVIOUS
<1>2. req' = [req EXCEPT ![r] = [pc |-> "columns", moves |-> req[r].moves, sales |-> sales]]
  <2>1. PICK x : x = req[r]
    OBVIOUS
  <2>2. IsImport(x)
    BY <2>1 DEF IInv, Shape
  <2>3. PICK o : o = Sale(r)
    OBVIOUS
  <2>4. req' = [req EXCEPT ![r] = [x EXCEPT !.pc = "columns", !.sales = @ \ {o}]]
    BY <2>1, <2>3 DEF NextSale, IInv, Shape
  <2>5. [x EXCEPT !.pc = "columns", !.sales = @ \ {o}] = [pc |-> "columns", moves |-> x.moves, sales |-> x.sales \ {o}]
    BY <2>2, NextStatement
  <2>6. x.moves = req[r].moves /\ x.sales \ {o} = sales
    BY <1>1, <2>1, <2>3
  <2> QED BY <2>4, <2>5, <2>6
<1>3. /\ req'[r] = [pc |-> "columns", moves |-> req[r].moves, sales |-> sales]
      /\ req' = [q \in Requests |-> req'[q]]
      /\ \A q \in Requests : Busy(q)' <=> q = r
      /\ Alone'
  BY <1>2, Alone_Step
<1>4. Sale(r) \in req[r].sales /\ OneEach(req[r].sales)
  BY SaleIsLeft DEF IInv, StillToSell
<1>5. \A o \in sales : o \in req[r].sales /\ o # Sale(r)
  BY <1>1
<1>6. /\ OneEach(sales) /\ Sale(r).imei \in Devices
      /\ \A o \in sales : o.imei # Sale(r).imei
  BY <1>4, <1>5 DEF OneEach
<1>7. \A q \in Requests : Busy(q)' => IsImport(req'[q])
  BY <1>3 DEF IsImport
<1> QED BY <1>1, <1>3, <1>4, <1>5, <1>6, <1>7 DEF ColumnsWritten

\* A refused sale is passed over.
LEMMA ReadDeviceOk ==
  ASSUME IInv, NEW r \in Requests, ReadDevice(r)
  PROVE  IInv'
<1>1. Busy(r) /\ UNCHANGED <<status, cols, sold>>
  BY DEF ReadDevice, Busy, Rest
<1>2. SoldAsRecorded'
  BY <1>1 DEF IInv, SoldAsRecorded
<1>3. CASE Allowed(status[Sale(r).imei], "SOLD")
  <2>1. req' = [req EXCEPT ![r] = [pc |-> "commit", moves |-> req[r].moves, sales |-> req[r].sales]]
    <3>1. req' = [req EXCEPT ![r].pc = "commit"]
      BY <1>3 DEF ReadDevice
    <3>2. IsImport(req[r])
      BY <1>1 DEF IInv, Shape
    <3>3. PICK x : x = req[r]
      OBVIOUS
    <3> QED BY <3>1, <3>2, <3>3, NextStatement
  <2>2. /\ req'[r] = [pc |-> "commit", moves |-> req[r].moves, sales |-> req[r].sales]
        /\ req' = [q \in Requests |-> req'[q]]
        /\ \A q \in Requests : Busy(q)' <=> q = r
        /\ Alone'
    <3>1. PICK sales : sales = req[r].sales
      OBVIOUS
    <3> QED BY <1>1, <2>1, <3>1, Alone_Step
  <2>3. Shape'
    BY <2>2, <1>1 DEF IInv, Shape, IsImport
  <2>4. Sale(r)' = Sale(r)
    BY <2>2 DEF Sale
  <2>5. StillToSell(r)' /\ ColumnsWritten(r)'
    BY <1>1, <2>2, <2>4 DEF IInv, StillToSell, ColumnsWritten, OneEach, ReadDevice
  <2> QED BY <1>2, <2>2, <2>3, <2>5 DEF IInv
<1>4. CASE ~Allowed(status[Sale(r).imei], "SOLD")
  <2>1. NextSale(r) /\ req[r].sales # {}
    BY <1>1, <1>4 DEF ReadDevice, IInv, ColumnsWritten
  <2>2. StillToSell(r)'
    BY <1>1, <2>1, NextSaleOk DEF IInv, StillToSell, OneEach
  <2>3. /\ req' = [q \in Requests |-> req'[q]]
        /\ \A q \in Requests : Busy(q)' => IsImport(req'[q])
    BY <1>1, <2>1, NextSaleOk
  <2>4. Shape'
    BY <1>1, <2>3 DEF IInv, Shape
  <2> QED BY <1>1, <1>2, <2>1, <2>2, <2>4, NextSaleOk DEF IInv
<1> QED BY <1>3, <1>4

\* The event names the invoice of the columns.
LEMMA CommitSaleOk ==
  ASSUME IInv, NEW r \in Requests, CommitSale(r)
  PROVE  IInv'
<1>1. Busy(r) /\ UNCHANGED cols
  BY DEF CommitSale, Busy, Rest
<1>2. NextSale(r) /\ req[r].sales # {} /\ cols[Sale(r).imei].invoice = Sale(r).invoice
  BY <1>1 DEF CommitSale, IInv, ColumnsWritten
<1>3. PICK o : o = Sale(r)
  OBVIOUS
<1>4. o.imei \in Devices /\ \A p \in req'[r].sales : p \in req[r].sales /\ p.imei # o.imei
  BY <1>1, <1>2, <1>3, NextSaleOk
<1>5. /\ status' = [status EXCEPT ![o.imei] = "SOLD"]
      /\ sold' = [sold EXCEPT ![o.imei] = o.invoice]
  BY <1>3 DEF CommitSale
<1>6. StillToSell(r)'
  <2>1. OneEach(req'[r].sales)
    BY <1>1, <1>2, NextSaleOk
  <2>2. \A p \in req'[r].sales : p.imei \in Devices /\ sold[p.imei] = Nothing
    BY <1>1, <1>4 DEF IInv, StillToSell, OneEach
  <2>3. \A p \in req'[r].sales : sold'[p.imei] = Nothing
    BY <1>4, <1>5, <2>2 DEF IInv, Shape
  <2> QED BY <2>1, <2>3 DEF StillToSell, OneEach
<1>7. Shape'
  <2>1. /\ req' = [q \in Requests |-> req'[q]]
        /\ \A q \in Requests : Busy(q)' => IsImport(req'[q])
    BY <1>1, <1>2, NextSaleOk
  <2>2. status' \in [Devices -> DEVICE_STATUSES] /\ sold' = [d \in Devices |-> sold'[d]]
    BY <1>4, <1>5 DEF IInv, Shape, DEVICE_STATUSES
  <2> QED BY <1>1, <2>1, <2>2 DEF IInv, Shape
<1>8. SoldAsRecorded'
  BY <1>1, <1>2, <1>3, <1>4, <1>5 DEF IInv, Shape, SoldAsRecorded
<1> QED BY <1>1, <1>2, <1>6, <1>7, <1>8, NextSaleOk DEF IInv

\* An import that has ended, or died, leaves the tables as they are.
LEMMA EndOk ==
  ASSUME IInv, NEW r \in Requests, req' = [req EXCEPT ![r] = Rest], UNCHANGED <<status, cols, sold>>
  PROVE  IInv'
<1>1. req'[r] = Rest /\ \A q \in Requests : q # r => req'[q] = req[q]
  BY DEF IInv, Shape
<1>2. Shape'
  BY <1>1 DEF IInv, Shape, Busy
<1>3. \A q \in Requests : Busy(q)' => q # r /\ Busy(q) /\ req'[q] = req[q]
  BY <1>1 DEF Busy
<1>4. Alone'
  BY <1>3 DEF IInv, Alone
<1>5. ASSUME NEW q \in Requests, Busy(q)'
      PROVE  StillToSell(q)' /\ ColumnsWritten(q)'
  <2>1. Busy(q) /\ req'[q] = req[q]
    BY <1>3, <1>5
  <2>2. StillToSell(q) /\ ColumnsWritten(q)
    BY <2>1 DEF IInv
  <2>3. Sale(q)' = Sale(q)
    BY <2>1 DEF Sale
  <2>4. StillToSell(q)'
    BY <2>1, <2>2 DEF StillToSell
  <2>5. ColumnsWritten(q)'
    BY <2>1, <2>2, <2>3 DEF ColumnsWritten
  <2> QED BY <2>4, <2>5
<1> QED BY <1>2, <1>4, <1>5 DEF IInv, SoldAsRecorded

\* Another route's move, stale or not, makes the latest event no sale of an import.
LEMMA MoveOk ==
  ASSUME IInv, NEW d \in Devices, NEW to \in DEVICE_STATUSES, Move(d, to)
  PROVE  IInv'
<1>1. /\ status' = [status EXCEPT ![d] = to] /\ sold' = [sold EXCEPT ![d] = Nothing]
      /\ UNCHANGED <<cols, req>>
  BY DEF Move
<1>2. /\ sold' = [e \in Devices |-> sold'[e]]
      /\ \A e \in Devices : sold'[e] \in {Nothing, sold[e]}
      /\ \A e \in Devices : sold'[e] # Nothing => e # d
      /\ \A e \in Devices : e # d => sold'[e] = sold[e] /\ status'[e] = status[e]
      /\ status' \in [Devices -> DEVICE_STATUSES]
  BY <1>1 DEF IInv, Shape
<1>3. Shape'
  BY <1>1, <1>2 DEF IInv, Shape, Busy
<1>4. SoldAsRecorded'
  BY <1>1, <1>2 DEF IInv, SoldAsRecorded
<1>5. \A q \in Requests : /\ Busy(q)' <=> Busy(q)
                          /\ StillToSell(q) => StillToSell(q)'
                          /\ ColumnsWritten(q)' <=> ColumnsWritten(q)
  BY <1>1, <1>2 DEF Busy, StillToSell, ColumnsWritten, OneEach, Sale
<1> QED BY <1>1, <1>3, <1>4, <1>5 DEF IInv, Alone, Busy

\* A step that touches no device and no import keeps the invariant.
LEMMA StandsOk ==
  ASSUME IInv, UNCHANGED <<status, cols, sold, req>>
  PROVE  IInv'
<1>1. \A q \in Requests : /\ Busy(q)' <=> Busy(q)
                          /\ StillToSell(q)' <=> StillToSell(q)
                          /\ ColumnsWritten(q)' <=> ColumnsWritten(q)
  BY DEF Busy, StillToSell, ColumnsWritten, OneEach, Sale
<1>2. Shape' /\ Alone' /\ SoldAsRecorded'
  BY DEF IInv, Shape, Alone, Busy, SoldAsRecorded
<1> QED BY <1>1, <1>2 DEF IInv

\* The managers import one file at a time, and a file has one sale for a device.
OneFileAtATime == OneImport = TRUE /\ FilesOfRows /\ OneSpelling

\* Every step keeps the invariant.
LEMMA NextOk ==
  ASSUME OneFileAtATime, IInv, [Next]_vars
  PROVE  IInv'
<1> USE DEF OneFileAtATime
<1>1. ASSUME NEW r \in Requests, Importing(r)
      PROVE  IInv'
  <2>1. CASE \E f \in DOMAIN Files, qc, low \in BOOLEAN : StartImport(r, f, qc, low)
    BY <2>1, StartImportOk
  <2>2. CASE WriteNonRevenue(r)
    BY <2>2, WriteNonRevenueOk
  <2>3. CASE WriteSaleColumns(r)
    BY <2>3, WriteSaleColumnsOk
  <2>4. CASE ReadDevice(r)
    BY <2>4, ReadDeviceOk
  <2>5. CASE CommitSale(r)
    BY <2>5, CommitSaleOk
  <2>6. CASE FinishImport(r)
    BY <2>6, EndOk DEF FinishImport
  <2>7. CASE Abandon(r)
    BY <2>7, EndOk DEF Abandon
  <2> QED BY <1>1, <2>1, <2>2, <2>3, <2>4, <2>5, <2>6, <2>7 DEF Importing
<1>2. ASSUME NEW d \in Devices, NEW to \in DEVICE_STATUSES, Look(d, to) \/ Move(d, to)
      PROVE  IInv'
  BY <1>2, MoveOk, StandsOk DEF Look
<1>3. CASE UNCHANGED vars
  BY <1>3, StandsOk DEF vars
<1> QED BY <1>1, <1>2, <1>3 DEF Next

\* The invariant above holds of every behaviour in which managers import one file at a
\* time: a worker may die between any two statements, a file may be imported again, and
\* other routes may read a device before a statement of the import and write it after.
THEOREM ImportInductive ==
  ASSUME OneFileAtATime
  PROVE  Spec => []IInv
<1>1. IInv /\ [Next]_vars => IInv'
  BY NextOk
<1> QED BY <1>1, InitOk, PTL DEF Spec

\* A device whose latest event is an import's sale is SOLD with the columns of that
\* sale, whatever stale moves of other routes came between (importZohoSales).
THEOREM SalesAreAsRecorded ==
  ASSUME OneFileAtATime
  PROVE  Spec => []SoldAsRecorded
<1>1. IInv => SoldAsRecorded
  BY DEF IInv
<1> QED BY <1>1, ImportInductive, PTL
=============================================================================
