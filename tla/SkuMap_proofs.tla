---------------------------- MODULE SkuMap_proofs ----------------------------
(***************************************************************************)
(* Proofs about the SKU map, for any number of SKUs, items and managers:   *)
(* its types, the foreign key to the items and the uniqueness of a SKU     *)
(* among them included, and that an edit is made to the row its editor was *)
(* shown.                                                                  *)
(*                                                                         *)
(* The edit only compares row_version.  That the whole row is the one that *)
(* was shown rests on every other writer: no row is ever deleted, and each *)
(* statement that changes a row, an import's upsert included, raises its   *)
(* version (Grown).  Knows says what each request keeps of what it read:   *)
(* the row is still there, at the version it had or at a later one, and    *)
(* the item it will name is on record.                                     *)
(***************************************************************************)
EXTENDS SkuMap, TLAPS

FileRow == [sku : Skus, item : Items, zoho_sku : ZohoSkus]

\* NULL is no SKU and no file is anything but rows.
WellFormed ==
  /\ None \notin ZohoSkus
  /\ Files \subseteq Seq(FileRow)
  /\ None \notin Notes

Rows == Row \cup {Absent}

\* The requests, by what they carry.
Forms     == [pc : {"form"}, sku : Skus, loaded : Row]
Edits     == [pc : {"edit", "bump"}, sku : Skus, loaded : Row, item : Items, note : Notes]
Creations == [pc : {"item", "find", "insert", "revive", "bump"}, sku : Skus, item : Items,
              zoho_sku : ZohoSkus]
Revivals  == [pc : {"audit", "revive", "bump"}, sku : Skus, item : Items, old : Items]
Removals  == [pc : {"orphan", "bump"}, sku : Skus]
Imports   == [pc : {"import"}, file : Files, before : [Skus -> Rows]]

Request == {Rest} \cup Forms \cup Edits \cup Creations \cup Revivals \cup Removals \cup Imports

\* The row that was shown is there, and it is that row unless its version has grown.
Shown(x) ==
  /\ map[x.sku] # Absent
  /\ x.loaded.version <= map[x.sku].version
  /\ x.loaded.version = map[x.sku].version => map[x.sku] = x.loaded

\* What a request relies on at the statement it has reached.
Knows(x) ==
  /\ x.pc \in {"form", "edit"} => Shown(x)
  /\ x.pc \in {"edit", "find", "insert", "audit", "revive"} => items[x.item] # None
  /\ x.pc \in {"audit", "revive", "orphan"} => map[x.sku] # Absent
  /\ x.pc = "import" =>
       /\ validateSkuMapCsv(x.file)
       /\ \A s \in Skus : x.before[s] # Absent => map[s] # Absent

\* The inductive invariant.
IInv ==
  /\ TypeOK
  /\ req \in [Managers -> Request]
  /\ \A r \in Managers : Knows(req[r])

\* What no step undoes: an item stays on record and a row in the table, and a row that
\* changes has a later version.
Grown ==
  /\ \A i \in Items : items[i] # None => items'[i] # None
  /\ \A s \in Skus : map[s] # Absent =>
       /\ map'[s] # Absent
       /\ map'[s] # map[s] => map'[s].version > map[s].version

-----------------------------------------------------------------------------

\* No row of the table is an absent one.
LEMMA AbsentIsNoRow == Absent \notin Row
BY DEF Absent, Row

\* What a request carries tells its kind.
LEMMA Carries ==
  ASSUME NEW x \in Request
  PROVE  /\ x.pc = "form" => x \in Forms
         /\ x.pc = "edit" => x \in Edits
         /\ x.pc \in {"item", "find", "insert"} => x \in Creations
         /\ x.pc = "audit" => x \in Revivals
         /\ x.pc = "revive" => x \in Creations \cup Revivals
         /\ x.pc = "orphan" => x \in Removals
         /\ x.pc = "import" => x \in Imports
         /\ x.pc # "rest" => x # Rest
BY DEF Request, Rest, Forms, Edits, Creations, Revivals, Removals, Imports

\* A step that lets the tables grow leaves the other requests what they rely on.
LEMMA KnowsStays ==
  ASSUME TypeOK, TypeOK', Grown, NEW x \in Request, Knows(x)
  PROVE  Knows(x)'
<1>1. \A s \in Skus : map[s] # Absent =>
        /\ map[s] \in Row /\ map'[s] \in Row /\ map'[s] # Absent
        /\ map[s].version \in Nat /\ map'[s].version \in Nat
        /\ map'[s] = map[s] \/ map'[s].version > map[s].version
  BY DEF TypeOK, Grown, Row
<1>2. ASSUME x.pc \in {"form", "edit"}
      PROVE  Shown(x)'
  <2>1. x.sku \in Skus /\ x.loaded \in Row /\ x.loaded.version \in Nat
    BY <1>2, Carries DEF Forms, Edits, Row
  <2>2. Shown(x)
    BY <1>2 DEF Knows
  <2>3. PICK a \in Nat, b \in Nat, c \in Nat :
          a = x.loaded.version /\ b = map[x.sku].version /\ c = map'[x.sku].version
    BY <2>1, <2>2, <1>1 DEF Shown
  <2>4. CASE map'[x.sku] = map[x.sku]
    BY <2>2, <2>4 DEF Shown
  <2>5. CASE c > b
    <3>1. a <= b
      BY <2>2, <2>3 DEF Shown
    <3>2. a <= c /\ a # c
      BY <3>1, <2>5
    <3>3. map'[x.sku] # Absent
      BY <2>1, <2>2, <1>1 DEF Shown
    <3> QED BY <3>2, <3>3, <2>3 DEF Shown
  <2> QED BY <2>1, <2>2, <2>3, <2>4, <2>5, <1>1 DEF Shown
<1>3. ASSUME x.pc \in {"edit", "find", "insert", "audit", "revive"}
      PROVE  items'[x.item] # None
  <2>1. x.item \in Items
    BY <1>3, Carries DEF Edits, Creations, Revivals
  <2> QED BY <2>1, <1>3 DEF Knows, Grown
<1>4. ASSUME x.pc \in {"audit", "revive", "orphan"}
      PROVE  map'[x.sku] # Absent
  <2>1. x.sku \in Skus
    BY <1>4, Carries DEF Creations, Revivals, Removals
  <2> QED BY <2>1, <1>4 DEF Knows, Grown
<1>5. ASSUME x.pc = "import", NEW s \in Skus, x.before[s] # Absent
      PROVE  map'[s] # Absent
  BY <1>5 DEF Knows, Grown
<1> QED BY <1>2, <1>3, <1>4, <1>5 DEF Knows

\* A step of one request that lets the tables grow.
LEMMA StepOk ==
  ASSUME IInv, TypeOK', Grown, NEW r \in Managers, NEW x \in Request,
         req' = [req EXCEPT ![r] = x], Knows(x)'
  PROVE  IInv'
<1>1. /\ req' \in [Managers -> Request]
      /\ req'[r] = x
      /\ \A q \in Managers : q # r => req'[q] = req[q]
  BY DEF IInv
<1>2. ASSUME NEW q \in Managers, q # r
      PROVE  Knows(req[q])'
  <2>1. PICK y \in Request : y = req[q]
    BY DEF IInv
  <2>2. Knows(y)
    BY <2>1 DEF IInv
  <2>3. Knows(y)'
    BY <2>2, KnowsStays DEF IInv
  <2>4. y = req'[q]
    BY <2>1, <1>1, <1>2
  <2> QED BY <2>3, <2>4 DEF Knows, Shown
<1>3. Knows(req[r])'
  BY <1>1 DEF Knows, Shown
<1> QED BY <1>1, <1>2, <1>3 DEF IInv

\* A request at rest, or about to raise the version of the map, relies on nothing.
LEMMA RestKnows ==
  ASSUME NEW x, x.pc \in {"rest", "bump", "item"}
  PROVE  Knows(x) /\ Knows(x)'
BY DEF Knows

\* A step that leaves the tables leaves their types.
LEMMA SameTables ==
  ASSUME TypeOK, UNCHANGED <<items, map, audit>>, version' \in Nat
  PROVE  TypeOK' /\ Grown
BY DEF TypeOK, Grown, Unique

\* A statement that leaves the tables leaves what a request knows.
LEMMA SameKnows ==
  ASSUME NEW x, UNCHANGED <<items, map>>
  PROVE  Knows(x)' <=> Knows(x)
BY DEF Knows, Shown

\* One row is written, over an item on record and with a later version.
LEMMA RowWritten ==
  ASSUME TypeOK, NEW s \in Skus, NEW row \in Row,
         map' = [map EXCEPT ![s] = row], UNCHANGED <<items, version>>,
         items[row.item] # None,
         map[s] # Absent => row.version > map[s].version,
         audit' \subseteq Skus \X Items \X Items
  PROVE  TypeOK' /\ Grown
<1>1. /\ map' \in [Skus -> Rows]
      /\ map'[s] = row
      /\ \A t \in Skus : t # s => map'[t] = map[t]
  BY DEF TypeOK, Rows
<1>2. row # Absent
  BY AbsentIsNoRow
<1>3. TypeOK'
  BY <1>1 DEF TypeOK, Unique, Rows
<1>4. Grown
  BY <1>1, <1>2 DEF Grown
<1> QED BY <1>3, <1>4

-----------------------------------------------------------------------------
(* The statements.                                                         *)

\* At first no row is there.
LEMMA InitOk == Init => IInv
BY DEF Init, IInv, TypeOK, Unique, Request, Rest, Rows, Knows

\* A request that ends.
LEMMA FinishOk ==
  ASSUME IInv, NEW r \in Managers, Finish(r), UNCHANGED <<items, map, audit>>, version' \in Nat
  PROVE  IInv'
<1>1. Rest \in Request /\ Rest.pc = "rest"
  BY DEF Request, Rest
<1>2. PICK x \in Request : x = Rest
  BY <1>1
<1>3. Knows(x)'
  BY <1>1, <1>2, RestKnows
<1>4. req' = [req EXCEPT ![r] = x]
  BY <1>2 DEF Finish
<1>5. TypeOK' /\ Grown
  BY SameTables DEF IInv
<1> QED BY <1>3, <1>4, <1>5, StepOk

\* A request that goes on while the tables stay.
LEMMA OnlyAsks ==
  ASSUME IInv, NEW r \in Managers, NEW x \in Request, req' = [req EXCEPT ![r] = x], Knows(x),
         UNCHANGED <<items, map, audit, version>>
  PROVE  IInv'
<1>1. TypeOK' /\ Grown
  BY SameTables DEF IInv, TypeOK
<1>2. Knows(x)'
  BY SameKnows
<1> QED BY <1>1, <1>2, StepOk

\* A manager loads a row into the page.
LEMMA LoadOk ==
  ASSUME IInv, NEW r \in Managers, NEW s \in Skus, Load(r, s)
  PROVE  IInv'
<1>1. map[s] \in Row
  BY DEF Load, IInv, TypeOK
<1>2. PICK x : x = [pc |-> "form", sku |-> s, loaded |-> map[s]]
  OBVIOUS
<1>3. x \in Request
  BY <1>1, <1>2 DEF Request, Forms
<1>4. Knows(x)
  BY <1>1, <1>2 DEF Knows, Shown, Load, Row
<1>5. req' = [req EXCEPT ![r] = x] /\ UNCHANGED <<items, map, audit, version>>
  BY <1>2 DEF Load
<1> QED BY <1>3, <1>4, <1>5, OnlyAsks

\* An edit is sent, with the version that the page shows.
LEMMA StartEditOk ==
  ASSUME IInv, NEW r \in Managers, NEW i \in Items, NEW n \in Notes, StartEdit(r, i, n)
  PROVE  IInv'
<1>1. UNCHANGED <<items, map, audit, version>> /\ version \in Nat
  BY DEF StartEdit, IInv, TypeOK
<1>2. CASE Finish(r)
  BY <1>1, <1>2, FinishOk
<1>3. CASE ~Finish(r)
  <2>1. PICK y \in Request : y = req[r]
    BY DEF IInv
  <2>2. y \in Forms
    BY <2>1, Carries DEF StartEdit
  <2>3. PICK x : x = [pc |-> "edit", sku |-> y.sku, loaded |-> y.loaded, item |-> i, note |-> n]
    OBVIOUS
  <2>4. x \in Request
    BY <2>2, <2>3 DEF Request, Edits, Forms
  <2>5. Shown(y) /\ items[i] # None
    BY <1>3, <2>1 DEF StartEdit, IInv, Knows
  <2>6. Knows(x)
    BY <2>3, <2>5 DEF Knows, Shown
  <2>7. req' = [req EXCEPT ![r] = x]
    BY <1>3, <2>1, <2>3 DEF StartEdit
  <2> QED BY <1>1, <2>4, <2>6, <2>7, OnlyAsks
<1> QED BY <1>2, <1>3

\* Where a request is after Goto.
LEMMA Gone ==
  ASSUME NEW x \in Request, NEW pc
  PROVE  /\ x \in Edits /\ pc = "bump" => [x EXCEPT !.pc = pc] \in Edits
         /\ x \in Creations /\ pc \in {"find", "insert", "revive", "bump"} =>
              [x EXCEPT !.pc = pc] \in Creations
         /\ x \in Revivals /\ pc \in {"revive", "bump"} => [x EXCEPT !.pc = pc] \in Revivals
         /\ x \in Removals /\ pc = "bump" => [x EXCEPT !.pc = pc] \in Removals
         /\ x \in Edits \cup Creations \cup Revivals \cup Removals =>
              [x EXCEPT !.pc = pc].pc = pc /\ [x EXCEPT !.pc = pc].sku = x.sku
         /\ x \in Creations \cup Revivals => [x EXCEPT !.pc = pc].item = x.item
<1>1. x \in Edits /\ pc = "bump" => [x EXCEPT !.pc = pc] \in Edits
  BY DEF Edits
<1>2. x \in Creations /\ pc \in {"find", "insert", "revive", "bump"} => [x EXCEPT !.pc = pc] \in Creations
  BY DEF Creations
<1>3. x \in Revivals /\ pc \in {"revive", "bump"} => [x EXCEPT !.pc = pc] \in Revivals
  BY DEF Revivals
<1>4. x \in Removals /\ pc = "bump" => [x EXCEPT !.pc = pc] \in Removals
  BY DEF Removals
<1>5. x \in Edits \cup Creations \cup Revivals \cup Removals =>
        [x EXCEPT !.pc = pc].pc = pc /\ [x EXCEPT !.pc = pc].sku = x.sku
  BY DEF Edits, Creations, Revivals, Removals
<1>6. x \in Creations \cup Revivals => [x EXCEPT !.pc = pc].item = x.item
  BY DEF Creations, Revivals
<1> QED BY <1>1, <1>2, <1>3, <1>4, <1>5, <1>6

\* After the statement on a row, one last one is left.
LEMMA ThenBump ==
  ASSUME IInv, NEW r \in Managers, Goto(r, "bump"),
         req[r] \in Edits \cup Creations \cup Revivals \cup Removals,
         TypeOK', Grown
  PROVE  IInv'
<1>1. PICK y \in Request : y = req[r]
  BY DEF IInv
<1>2. PICK x : x = [y EXCEPT !.pc = "bump"]
  OBVIOUS
<1>3. x \in Request /\ x.pc = "bump"
  BY <1>1, <1>2, Gone DEF Request
<1>4. req' = [req EXCEPT ![r] = x]
  BY <1>1, <1>2 DEF Goto, IInv
<1>5. Knows(x)'
  BY <1>3, RestKnows
<1> QED BY <1>3, <1>4, <1>5, StepOk

\* A row whose item changes, or that is marked, raises its version.
LEMMA WriteEditOk ==
  ASSUME IInv, WellFormed, NEW r \in Managers, WriteEdit(r)
  PROVE  IInv'
<1>1. PICK e \in Request : e = req[r]
  BY DEF IInv
<1>2. e \in Edits /\ Knows(e)
  BY <1>1, Carries DEF WriteEdit, IInv
<1>3. e.pc = "edit"
  BY <1>1 DEF WriteEdit
<1>4. /\ e.sku \in Skus /\ e.item \in Items /\ e.note \in Notes /\ e.loaded.item \in Items
      /\ map[e.sku] \in Row /\ items[e.item] # None
  BY <1>2, <1>3 DEF Edits, Row, Knows, Shown, IInv, TypeOK
<1>5. audit' \subseteq Skus \X Items \X Items
  <2>1. audit' = audit \cup (IF e.item = e.loaded.item THEN {} ELSE {<<e.sku, e.loaded.item, e.item>>})
    BY <1>1 DEF WriteEdit
  <2> QED BY <1>4, <2>1 DEF IInv, TypeOK
<1>6. Goto(r, "bump") /\ UNCHANGED <<items, version>>
  BY DEF WriteEdit
<1>7. CASE map' = map
  <2>1. TypeOK' /\ Grown
    BY <1>5, <1>6, <1>7 DEF IInv, TypeOK, Unique, Grown
  <2> QED BY <1>1, <1>2, <1>6, <2>1, ThenBump
<1>8. CASE map' # map
  <2>1. PICK old \in Row : old = map[e.sku]
    BY <1>4
  <2>2. PICK row : row = Edited(old, e.item, e.note)
    OBVIOUS
  <2>3. old.version \in Nat \ {0} /\ old.version + 1 \in Nat \ {0} /\ old.version + 1 > old.version
    BY DEF Row
  <2>4. row \in Row /\ row.item = e.item /\ row.version = old.version + 1
    BY <1>4, <2>2, <2>3 DEF Edited, Row
  <2>5. map' = [map EXCEPT ![e.sku] = row]
    BY <1>1, <1>8, <2>1, <2>2 DEF WriteEdit
  <2>6. TypeOK' /\ Grown
    BY <1>4, <1>5, <1>6, <2>1, <2>3, <2>4, <2>5, RowWritten DEF IInv
  <2> QED BY <1>1, <1>2, <1>6, <2>6, ThenBump
<1> QED BY <1>7, <1>8

\* The version of the map grows.
LEMMA BumpVersionOk ==
  ASSUME IInv, NEW r \in Managers, BumpVersion(r)
  PROVE  IInv'
<1>1. version' \in Nat
  BY DEF BumpVersion, IInv, TypeOK
<1> QED BY <1>1, FinishOk DEF BumpVersion

\* A new row is sent.
LEMMA StartCreateOk ==
  ASSUME IInv, NEW r \in Managers, NEW s \in Skus, NEW i \in Items, NEW z \in ZohoSkus,
         StartCreate(r, s, i, z)
  PROVE  IInv'
<1>1. PICK x : x = [pc |-> IF items[i] = None THEN "item" ELSE "find", sku |-> s, item |-> i, zoho_sku |-> z]
  OBVIOUS
<1>2. x \in Request
  BY <1>1 DEF Request, Creations
<1>3. Knows(x)
  BY <1>1 DEF Knows
<1>4. req' = [req EXCEPT ![r] = x] /\ UNCHANGED <<items, map, audit, version>>
  BY <1>1 DEF StartCreate
<1> QED BY <1>2, <1>3, <1>4, OnlyAsks

\* An item is created under a SKU that is nobody's.
LEMMA InsertItemOk ==
  ASSUME IInv, WellFormed, NEW r \in Managers, InsertItem(r)
  PROVE  IInv'
<1>1. PICK y \in Request : y = req[r]
  BY DEF IInv
<1>2. y \in Creations /\ y.item \in Items /\ y.zoho_sku \in ZohoSkus
  BY <1>1, Carries DEF InsertItem, Creations
<1>3. UNCHANGED <<map, audit, version>> /\ version \in Nat
  BY DEF InsertItem, IInv, TypeOK
<1>4. PICK table : table = [items EXCEPT ![y.item] = y.zoho_sku]
  OBVIOUS
<1>5. CASE items[y.item] = None /\ Unique(table)
  <2>1. items' = table /\ Goto(r, "find")
    BY <1>1, <1>4, <1>5 DEF InsertItem
  <2>2. Unique(items)'
    BY <1>5, <2>1 DEF Unique
  <2>3. /\ items' \in [Items -> ZohoSkus \cup {None}]
        /\ items'[y.item] # None
        /\ \A i \in Items : items[i] # None => items'[i] # None
    BY <1>2, <1>4, <1>5, <2>1 DEF WellFormed, IInv, TypeOK
  <2>4. \A s \in Skus : map[s] # Absent => map[s].item \in Items
    BY DEF IInv, TypeOK, Row
  <2>5. TypeOK' /\ Grown
    BY <1>3, <2>2, <2>3, <2>4 DEF IInv, TypeOK, Grown
  <2>6. PICK x : x = [y EXCEPT !.pc = "find"]
    OBVIOUS
  <2>7. x \in Request /\ x.pc = "find" /\ x.item = y.item
    BY <1>2, <2>6, Gone DEF Request
  <2>8. Knows(x)'
    BY <2>3, <2>7 DEF Knows
  <2>9. req' = [req EXCEPT ![r] = x]
    BY <1>1, <2>1, <2>6 DEF Goto, IInv
  <2> QED BY <2>5, <2>7, <2>8, <2>9, StepOk
<1>6. CASE ~(items[y.item] = None /\ Unique(table))
  <2>1. Finish(r) /\ UNCHANGED items
    BY <1>1, <1>4, <1>6 DEF InsertItem
  <2> QED BY <1>3, <2>1, FinishOk
<1> QED BY <1>5, <1>6

\* A row of that SKU is looked for.
LEMMA FindRowOk ==
  ASSUME IInv, NEW r \in Managers, FindRow(r)
  PROVE  IInv'
<1>1. PICK y \in Request : y = req[r]
  BY DEF IInv
<1>2. y \in Creations /\ y.sku \in Skus /\ y.item \in Items /\ items[y.item] # None
  BY <1>1, Carries DEF FindRow, Creations, IInv, Knows
<1>3. UNCHANGED <<items, map, audit, version>> /\ version \in Nat
  BY DEF FindRow, IInv, TypeOK
<1>4. PICK row \in Rows : row = map[y.sku]
  BY <1>2 DEF IInv, TypeOK, Rows
<1>5. CASE Finish(r)
  BY <1>3, <1>5, FinishOk
<1>6. CASE ~Finish(r) /\ row = Absent
  <2>1. Goto(r, "insert")
    BY <1>1, <1>4, <1>6 DEF FindRow
  <2>2. PICK x : x = [y EXCEPT !.pc = "insert"]
    OBVIOUS
  <2>3. x \in Request /\ x.pc = "insert" /\ x.item = y.item
    BY <1>2, <2>2, Gone DEF Request
  <2>4. Knows(x)
    BY <1>2, <2>3 DEF Knows
  <2>5. req' = [req EXCEPT ![r] = x]
    BY <1>1, <2>1, <2>2 DEF Goto, IInv
  <2> QED BY <1>3, <2>3, <2>4, <2>5, OnlyAsks
<1>7. CASE ~Finish(r) /\ row # Absent /\ row.item = y.item
  <2>1. Goto(r, "revive")
    BY <1>1, <1>4, <1>7 DEF FindRow
  <2>2. PICK x : x = [y EXCEPT !.pc = "revive"]
    OBVIOUS
  <2>3. x \in Request /\ x.pc = "revive" /\ x.item = y.item /\ x.sku = y.sku
    BY <1>2, <2>2, Gone DEF Request
  <2>4. Knows(x)
    BY <1>2, <1>4, <1>7, <2>3 DEF Knows
  <2>5. req' = [req EXCEPT ![r] = x]
    BY <1>1, <2>1, <2>2 DEF Goto, IInv
  <2> QED BY <1>3, <2>3, <2>4, <2>5, OnlyAsks
<1>8. CASE ~Finish(r) /\ row # Absent /\ row.item # y.item
  <2>1. PICK x : x = [pc |-> "audit", sku |-> y.sku, item |-> y.item, old |-> row.item]
    OBVIOUS
  <2>2. req' = [req EXCEPT ![r] = x]
    BY <1>1, <1>4, <1>8, <2>1 DEF FindRow
  <2>3. row.item \in Items
    BY <1>8 DEF Rows, Row
  <2>4. x \in Request
    BY <1>2, <2>1, <2>3 DEF Request, Revivals
  <2>5. Knows(x)
    BY <1>2, <1>4, <1>8, <2>1 DEF Knows
  <2> QED BY <1>3, <2>2, <2>4, <2>5, OnlyAsks
<1> QED BY <1>5, <1>6, <1>7, <1>8

\* A row that is not there is inserted.
LEMMA InsertRowOk ==
  ASSUME IInv, NEW r \in Managers, InsertRow(r)
  PROVE  IInv'
<1>1. PICK y \in Request : y = req[r]
  BY DEF IInv
<1>2. y \in Creations /\ y.sku \in Skus /\ y.item \in Items /\ items[y.item] # None
  BY <1>1, Carries DEF InsertRow, Creations, IInv, Knows
<1>3. UNCHANGED <<items, audit, version>> /\ version \in Nat /\ audit \subseteq Skus \X Items \X Items
  BY DEF InsertRow, IInv, TypeOK
<1>4. CASE map[y.sku] = Absent
  <2>1. PICK row : row = NewRow(y.item)
    OBVIOUS
  <2>2. row \in Row /\ row.item = y.item
    BY <1>2, <2>1 DEF NewRow, Row
  <2>3. map' = [map EXCEPT ![y.sku] = row] /\ Goto(r, "bump")
    BY <1>1, <1>4, <2>1 DEF InsertRow
  <2>4. TypeOK' /\ Grown
    BY <1>2, <1>3, <1>4, <2>2, <2>3, RowWritten DEF IInv
  <2> QED BY <1>1, <1>2, <2>3, <2>4, ThenBump
<1>5. CASE map[y.sku] # Absent
  BY <1>1, <1>3, <1>5, FinishOk DEF InsertRow
<1> QED BY <1>4, <1>5

\* The revival of an orphan is recorded first.
LEMMA AuditRevivalOk ==
  ASSUME IInv, NEW r \in Managers, AuditRevival(r)
  PROVE  IInv'
<1>1. PICK y \in Request : y = req[r]
  BY DEF IInv
<1>2. /\ y \in Revivals /\ y.sku \in Skus /\ y.item \in Items /\ y.old \in Items
      /\ items[y.item] # None /\ map[y.sku] # Absent
  BY <1>1, Carries DEF AuditRevival, Revivals, IInv, Knows
<1>3. UNCHANGED <<items, map, version>> /\ Goto(r, "revive")
  BY DEF AuditRevival
<1>4. audit' \subseteq Skus \X Items \X Items
  <2>1. audit' = audit \cup {<<y.sku, y.old, y.item>>}
    BY <1>1 DEF AuditRevival
  <2> QED BY <1>2, <2>1 DEF IInv, TypeOK
<1>5. TypeOK' /\ Grown
  BY <1>3, <1>4 DEF IInv, TypeOK, Unique, Grown
<1>6. PICK x : x = [y EXCEPT !.pc = "revive"]
  OBVIOUS
<1>7. x \in Request /\ x.pc = "revive" /\ x.item = y.item /\ x.sku = y.sku
  BY <1>2, <1>6, Gone DEF Request
<1>8. Knows(x)'
  BY <1>2, <1>3, <1>7 DEF Knows
<1>9. req' = [req EXCEPT ![r] = x]
  BY <1>1, <1>3, <1>6 DEF Goto, IInv
<1> QED BY <1>5, <1>7, <1>8, <1>9, StepOk

\* An orphan is mapped again.
LEMMA ReviveRowOk ==
  ASSUME IInv, NEW r \in Managers, ReviveRow(r)
  PROVE  IInv'
<1>1. PICK y \in Request : y = req[r]
  BY DEF IInv
<1>2. /\ y \in Creations \cup Revivals /\ y.sku \in Skus /\ y.item \in Items
      /\ items[y.item] # None /\ map[y.sku] # Absent
  BY <1>1, Carries DEF ReviveRow, Creations, Revivals, IInv, Knows
<1>3. PICK old \in Row : old = map[y.sku]
  BY <1>2 DEF IInv, TypeOK
<1>4. PICK row : row = Revived(old, y.item)
  OBVIOUS
<1>5. old.version \in Nat \ {0} /\ old.version + 1 \in Nat \ {0} /\ old.version + 1 > old.version
  BY DEF Row
<1>6. row \in Row /\ row.item = y.item /\ row.version = old.version + 1
  BY <1>2, <1>4, <1>5 DEF Revived, Row
<1>7. map' = [map EXCEPT ![y.sku] = row] /\ Goto(r, "bump") /\ UNCHANGED <<items, audit, version>>
  BY <1>1, <1>3, <1>4 DEF ReviveRow
<1>8. TypeOK' /\ Grown
  BY <1>2, <1>3, <1>5, <1>6, <1>7, RowWritten DEF IInv, TypeOK
<1> QED BY <1>1, <1>2, <1>7, <1>8, ThenBump

\* The removal of a row is sent.
LEMMA StartRemoveOk ==
  ASSUME IInv, NEW r \in Managers, NEW s \in Skus, StartRemove(r, s)
  PROVE  IInv'
<1>1. PICK x : x = [pc |-> "orphan", sku |-> s]
  OBVIOUS
<1>2. x \in Request /\ Knows(x)
  BY <1>1 DEF Request, Removals, Knows, StartRemove, Live
<1>3. req' = [req EXCEPT ![r] = x] /\ UNCHANGED <<items, map, audit, version>>
  BY <1>1 DEF StartRemove
<1> QED BY <1>2, <1>3, OnlyAsks

\* A row that is removed stays as an orphan.
LEMMA MarkOrphanOk ==
  ASSUME IInv, NEW r \in Managers, MarkOrphan(r)
  PROVE  IInv'
<1>1. PICK y \in Request : y = req[r]
  BY DEF IInv
<1>2. y \in Removals /\ y.sku \in Skus /\ map[y.sku] # Absent
  BY <1>1, Carries DEF MarkOrphan, Removals, IInv, Knows
<1>3. PICK old \in Row : old = map[y.sku]
  BY <1>2 DEF IInv, TypeOK
<1>4. PICK row : row = Orphaned(old)
  OBVIOUS
<1>5. old.version \in Nat \ {0} /\ old.version + 1 \in Nat \ {0} /\ old.version + 1 > old.version
  BY DEF Row
<1>6. row \in Row /\ row.item = old.item /\ row.version = old.version + 1
  BY <1>4, <1>5 DEF Orphaned, Row
<1>7. map' = [map EXCEPT ![y.sku] = row] /\ Goto(r, "bump") /\ UNCHANGED <<items, audit, version>>
  BY <1>1, <1>3, <1>4 DEF MarkOrphan
<1>8. items[row.item] # None /\ audit' \subseteq Skus \X Items \X Items
  BY <1>2, <1>3, <1>6, <1>7 DEF IInv, TypeOK
<1>9. TypeOK' /\ Grown
  BY <1>2, <1>3, <1>5, <1>6, <1>7, <1>8, RowWritten DEF IInv
<1> QED BY <1>1, <1>2, <1>7, <1>9, ThenBump

\* An import begins with the map as it reads it.
LEMMA StartImportOk ==
  ASSUME IInv, NEW r \in Managers, NEW f \in Files, StartImport(r, f)
  PROVE  IInv'
<1>1. PICK x : x = [pc |-> "import", file |-> f, before |-> map]
  OBVIOUS
<1>2. x \in Request
  BY <1>1 DEF Request, Imports, IInv, TypeOK, Rows
<1>3. Knows(x)
  BY <1>1 DEF Knows, StartImport
<1>4. req' = [req EXCEPT ![r] = x] /\ UNCHANGED <<items, map, audit, version>>
  BY <1>1 DEF StartImport
<1> QED BY <1>2, <1>3, <1>4, OnlyAsks

\* The items of a file that does not collide take SKUs that are nobody else's.
LEMMA ItemsImported ==
  ASSUME TypeOK, WellFormed, NEW file \in Files, validateSkuMapCsv(file), ~Collides(file),
         items' = [i \in Items |-> IF \E a \in RowsOf(file) : a.item = i
                                     THEN (CHOOSE a \in RowsOf(file) : a.item = i).zoho_sku
                                     ELSE items[i]]
  PROVE  /\ items' \in [Items -> ZohoSkus \cup {None}]
         /\ Unique(items')
         /\ \A i \in Items : items[i] # None => items'[i] # None
         /\ \A a \in RowsOf(file) : items'[a.item] # None
<1>1. \A n \in DOMAIN file : file[n] \in FileRow
  BY DEF WellFormed
<1>2. ASSUME NEW i \in Items, \E a \in RowsOf(file) : a.item = i
      PROVE  \E n \in DOMAIN file : file[n].item = i /\ items'[i] = file[n].zoho_sku
  <2>1. (CHOOSE a \in RowsOf(file) : a.item = i) \in RowsOf(file)
        /\ (CHOOSE a \in RowsOf(file) : a.item = i).item = i
    BY <1>2
  <2>2. items'[i] = (CHOOSE a \in RowsOf(file) : a.item = i).zoho_sku
    BY <1>2
  <2> QED BY <2>1, <2>2 DEF RowsOf
<1>3. ASSUME NEW i \in Items, ~\E a \in RowsOf(file) : a.item = i
      PROVE  items'[i] = items[i] /\ \A n \in DOMAIN file : file[n].item # i
  BY <1>3 DEF RowsOf
<1>4. \A i \in Items : items[i] \in ZohoSkus \cup {None}
  BY DEF TypeOK
<1>5. \A i \in Items : items'[i] \in ZohoSkus \cup {None}
  BY <1>1, <1>2, <1>3, <1>4 DEF FileRow
<1>6. items' \in [Items -> ZohoSkus \cup {None}]
  BY <1>5
<1>7. ASSUME NEW i \in Items, NEW j \in Items, items'[i] = items'[j], items'[i] # None
      PROVE  i = j
  <2>1. CASE (\E a \in RowsOf(file) : a.item = i) /\ (\E a \in RowsOf(file) : a.item = j)
    <3>1. PICK n \in DOMAIN file : file[n].item = i /\ items'[i] = file[n].zoho_sku
      BY <1>2, <2>1
    <3>2. PICK m \in DOMAIN file : file[m].item = j /\ items'[j] = file[m].zoho_sku
      BY <1>2, <2>1
    <3> QED BY <1>7, <3>1, <3>2 DEF validateSkuMapCsv
  <2>2. CASE (\E a \in RowsOf(file) : a.item = i) /\ ~(\E a \in RowsOf(file) : a.item = j)
    <3>1. PICK n \in DOMAIN file : file[n].item = i /\ items'[i] = file[n].zoho_sku
      BY <1>2, <2>2
    <3>2. items[j] = file[n].zoho_sku /\ \A m \in DOMAIN file : file[m].item # j
      BY <1>3, <1>7, <2>2, <3>1
    <3>3. \A m \in 1..(n - 1) : m \in DOMAIN file
      <4>1. file \in Seq(FileRow)
        BY DEF WellFormed
      <4>2. DOMAIN file = 1..Len(file) /\ Len(file) \in Nat /\ n \in 1..Len(file)
        BY <4>1
      <4> QED BY <4>2
    <3> QED BY <3>1, <3>2, <3>3 DEF Collides
  <2>3. CASE ~(\E a \in RowsOf(file) : a.item = i) /\ (\E a \in RowsOf(file) : a.item = j)
    <3>1. PICK n \in DOMAIN file : file[n].item = j /\ items'[j] = file[n].zoho_sku
      BY <1>2, <2>3
    <3>2. items[i] = file[n].zoho_sku /\ \A m \in DOMAIN file : file[m].item # i
      BY <1>3, <1>7, <2>3, <3>1
    <3>3. \A m \in 1..(n - 1) : m \in DOMAIN file
      <4>1. file \in Seq(FileRow)
        BY DEF WellFormed
      <4>2. DOMAIN file = 1..Len(file) /\ Len(file) \in Nat /\ n \in 1..Len(file)
        BY <4>1
      <4> QED BY <4>2
    <3> QED BY <3>1, <3>2, <3>3 DEF Collides
  <2>4. CASE ~(\E a \in RowsOf(file) : a.item = i) /\ ~(\E a \in RowsOf(file) : a.item = j)
    BY <1>3, <1>7, <2>4 DEF TypeOK, Unique
  <2> QED BY <2>1, <2>2, <2>3, <2>4
<1>8. ASSUME NEW i \in Items, items[i] # None \/ \E a \in RowsOf(file) : a.item = i
      PROVE  items'[i] # None
  BY <1>1, <1>2, <1>3, <1>8 DEF FileRow, WellFormed
<1>9. \A a \in RowsOf(file) : a.item \in Items
  BY <1>1 DEF RowsOf, FileRow
<1> QED BY <1>6, <1>7, <1>8, <1>9 DEF Unique

\* What an import makes of the row of a SKU: its old one, or one with a later version.
LEMMA RowImported ==
  ASSUME TypeOK, WellFormed, NEW file \in Files, NEW before,
         \A s \in Skus : before[s] # Absent => map[s] # Absent,
         NEW s \in Skus
  PROVE  LET row == ImportedMap(file, before)[s] IN
         /\ row \in Rows
         /\ map[s] # Absent => row # Absent /\ (row # map[s] => row.version > map[s].version)
         /\ row # Absent => \/ map[s] # Absent /\ row.item = map[s].item
                            \/ \E a \in RowsOf(file) : row.item = a.item
<1>1. PICK old \in Rows : old = map[s]
  BY DEF TypeOK, Rows
<1>2. PICK row : row = ImportedMap(file, before)[s]
  OBVIOUS
<1>3. old # Absent => old \in Row /\ old.version \in Nat \ {0} /\ old.version + 1 \in Nat \ {0}
                      /\ old.version + 1 > old.version
  BY DEF Rows, Row
<1>4. CASE InFile(file, s)
  <2>1. PICK a \in RowsOf(file) : a = RowFor(file, s)
    BY <1>4 DEF InFile, RowFor
  <2>2. a \in FileRow /\ a.item \in Items
    <3>1. \A n \in DOMAIN file : file[n] \in FileRow
      BY DEF WellFormed
    <3> QED BY <3>1 DEF RowsOf, FileRow
  <2>3. row = IF old = Absent THEN NewRow(a.item) ELSE Revived(old, a.item)
    BY <1>1, <1>2, <1>4, <2>1 DEF ImportedMap, Upserted
  <2>4. CASE old = Absent
    <3>1. row \in Row /\ row.item = a.item
      BY <2>2, <2>3, <2>4 DEF NewRow, Row
    <3> QED BY <1>1, <1>2, <2>4, <3>1 DEF Rows
  <2>5. CASE old # Absent
    <3>1. row \in Row /\ row.item = a.item /\ row.version = old.version + 1
      BY <1>3, <2>2, <2>3, <2>5 DEF Revived, Row
    <3> QED BY <1>1, <1>2, <1>3, <2>5, <3>1, AbsentIsNoRow DEF Rows
  <2> QED BY <2>4, <2>5
<1>5. CASE ~InFile(file, s) /\ Live(before[s])
  <2>1. old # Absent /\ row = Orphaned(old)
    BY <1>1, <1>2, <1>5 DEF ImportedMap, Live
  <2>2. row \in Row /\ row.item = old.item /\ row.version = old.version + 1
    BY <1>3, <2>1 DEF Orphaned, Row
  <2> QED BY <1>1, <1>2, <1>3, <2>1, <2>2, AbsentIsNoRow DEF Rows
<1>6. CASE ~InFile(file, s) /\ ~Live(before[s])
  BY <1>1, <1>2, <1>6 DEF ImportedMap
<1> QED BY <1>4, <1>5, <1>6

\* An import that does not collide writes items, rows and audit in one batch.
LEMMA ApplyImportOk ==
  ASSUME IInv, WellFormed, NEW r \in Managers, ApplyImport(r)
  PROVE  IInv'
<1>1. PICK y \in Request : y = req[r]
  BY DEF IInv
<1>2. y \in Imports /\ y.file \in Files /\ y.before \in [Skus -> Rows]
      /\ \A s \in Skus : y.before[s] # Absent => map[s] # Absent
  BY <1>1, Carries DEF ApplyImport, Imports, IInv, Knows
<1>3. PICK file \in Files, before \in [Skus -> Rows] : file = y.file /\ before = y.before
  BY <1>2
<1>4. Finish(r)
  BY DEF ApplyImport
<1>5. CASE Collides(file)
  <2>1. UNCHANGED <<items, map, audit, version>> /\ version \in Nat
    BY <1>1, <1>3, <1>5 DEF ApplyImport, IInv, TypeOK
  <2> QED BY <1>4, <2>1, FinishOk
<1>6. CASE ~Collides(file)
  <2>1. /\ items' = [i \in Items |-> IF \E a \in RowsOf(file) : a.item = i
                                       THEN (CHOOSE a \in RowsOf(file) : a.item = i).zoho_sku
                                       ELSE items[i]]
        /\ map' = ImportedMap(file, before)
        /\ audit' = audit \cup ImportedAudit(file, before)
        /\ version' = version + 1
    BY <1>1, <1>3, <1>6 DEF ApplyImport
  <2>2. validateSkuMapCsv(file)
    BY <1>1, <1>2, <1>3 DEF ApplyImport, IInv, Knows
  <2>3. /\ items' \in [Items -> ZohoSkus \cup {None}]
        /\ Unique(items')
        /\ \A i \in Items : items[i] # None => items'[i] # None
        /\ \A a \in RowsOf(file) : items'[a.item] # None
    BY <1>6, <2>1, <2>2, ItemsImported DEF IInv
  <2>4. \A s \in Skus :
         /\ map'[s] \in Rows
         /\ map[s] # Absent => map'[s] # Absent /\ (map'[s] # map[s] => map'[s].version > map[s].version)
         /\ map'[s] # Absent => \/ map[s] # Absent /\ map'[s].item = map[s].item
                                \/ \E a \in RowsOf(file) : map'[s].item = a.item
    BY <1>2, <1>3, <2>1, RowImported DEF IInv
  <2>5. map' \in [Skus -> Rows]
    BY <2>1, <2>4 DEF ImportedMap
  <2>6. \A s \in Skus : map'[s] # Absent => items'[map'[s].item] # None
    BY <2>3, <2>4 DEF IInv, TypeOK, Row
  <2>7. audit' \subseteq Skus \X Items \X Items
    <3>1. \A s \in Skus : InFile(file, s) => RowFor(file, s).item \in Items
      <4>1. \A n \in DOMAIN file : file[n] \in FileRow
        BY DEF WellFormed
      <4>2. \A a \in RowsOf(file) : a.item \in Items
        BY <4>1 DEF RowsOf, FileRow
      <4> QED BY <4>2 DEF InFile, RowFor
    <3>2. \A s \in Skus : before[s] # Absent => before[s].item \in Items
      BY DEF Rows, Row
    <3>3. ImportedAudit(file, before) \subseteq Skus \X Items \X Items
      BY <3>1, <3>2 DEF ImportedAudit
    <3> QED BY <2>1, <3>3 DEF IInv, TypeOK
  <2>8. version' \in Nat
    BY <2>1 DEF IInv, TypeOK
  <2>9. TypeOK' /\ Grown
    BY <2>3, <2>4, <2>5, <2>6, <2>7, <2>8 DEF TypeOK, Grown, Rows, Unique
  <2>10. PICK x \in Request : x = Rest
    BY DEF Request
  <2>11. Knows(x)'
    BY <2>10, RestKnows DEF Rest
  <2>12. req' = [req EXCEPT ![r] = x]
    BY <1>4, <2>10 DEF Finish
  <2> QED BY <2>9, <2>11, <2>12, StepOk
<1> QED BY <1>5, <1>6

\* Every step keeps the invariant.
LEMMA NextOk ==
  ASSUME WellFormed, IInv, [Next]_vars
  PROVE  IInv'
<1>1. ASSUME NEW r \in Managers, Editing(r)
      PROVE  IInv'
  BY <1>1, LoadOk, StartEditOk, WriteEditOk, BumpVersionOk DEF Editing
<1>2. ASSUME NEW r \in Managers, Creating(r)
      PROVE  IInv'
  BY <1>2, StartCreateOk, InsertItemOk, FindRowOk, InsertRowOk, AuditRevivalOk, ReviveRowOk DEF Creating
<1>3. ASSUME NEW r \in Managers, Others(r)
      PROVE  IInv'
  <2>1. CASE Abandon(r)
    <3>1. version' \in Nat /\ Finish(r) /\ UNCHANGED <<items, map, audit>>
      BY <2>1 DEF Abandon, IInv, TypeOK
    <3> QED BY <3>1, FinishOk
  <2> QED BY <1>3, <2>1, StartRemoveOk, MarkOrphanOk, StartImportOk, ApplyImportOk DEF Others
<1>4. CASE UNCHANGED vars
  <2>1. UNCHANGED <<items, map, audit, version, req>>
    BY <1>4 DEF vars
  <2>2. TypeOK'
    BY <2>1 DEF IInv, TypeOK, Unique
  <2>3. \A r \in Managers : Knows(req[r])'
    BY <2>1 DEF IInv, Knows, Shown
  <2> QED BY <2>1, <2>2, <2>3 DEF IInv
<1> QED BY <1>1, <1>2, <1>3, <1>4 DEF Next

\* The invariant above holds however the managers' requests interleave, and whichever
\* of them dies between two statements.
THEOREM MapInductive ==
  ASSUME WellFormed
  PROVE  Spec => []IInv
<1>1. IInv /\ [Next]_vars => IInv'
  BY NextOk
<1> QED BY <1>1, InitOk, PTL DEF Spec

\* The tables keep their types: SKUs of items stay unique and a row of the map always
\* names an item that is on record, the UNIQUE index and the foreign key that the
\* statements of an edit, a creation and an import must not break.
THEOREM MapTypes ==
  ASSUME WellFormed
  PROVE  Spec => []TypeOK
<1>1. IInv => TypeOK
  BY DEF IInv
<1> QED BY <1>1, MapInductive, PTL

\* An edit that takes effect finds the row as its editor was shown it.
LEMMA EditsShown ==
  ASSUME IInv, Next
  PROVE  \A r \in Managers :
           req[r].pc = "edit" /\ req'[r].pc = "bump" /\ map' # map => map[req[r].sku] = req[r].loaded
<1> SUFFICES ASSUME NEW r \in Managers, req[r].pc = "edit", req'[r].pc = "bump", map' # map
             PROVE  map[req[r].sku] = req[r].loaded
  OBVIOUS
<1>1. PICK q \in Managers : Editing(q) \/ Creating(q) \/ Others(q)
  BY DEF Next
<1>2. q # r => req'[r] = req[r]
  BY <1>1 DEF IInv, Editing, Creating, Others, Load, StartEdit, WriteEdit, BumpVersion, StartCreate,
              InsertItem, FindRow, InsertRow, AuditRevival, ReviveRow, StartRemove, MarkOrphan,
              StartImport, ApplyImport, Abandon, Finish, Goto
<1>3. q = r
  BY <1>2
<1>4. Busy(r)
  BY DEF Busy, Rest
<1>5. WriteEdit(r)
  BY <1>1, <1>3, <1>4 DEF Editing, Creating, Others, Load, StartEdit, BumpVersion, StartCreate,
              InsertItem, FindRow, InsertRow, AuditRevival, ReviveRow, StartRemove, MarkOrphan,
              StartImport, ApplyImport, Abandon
<1>6. map[req[r].sku].version = req[r].loaded.version
  BY <1>5 DEF WriteEdit
<1> QED BY <1>6 DEF IInv, Knows, Shown

\* An edit that takes effect is made to the very row its editor was shown, whichever
\* edits, revivals, removals and imports came between: the optimistic lock of
\* PATCH /sku-map/:goods_in_sku does what it is there for.
THEOREM EditsBuildOnTheShown ==
  ASSUME WellFormed
  PROVE  Spec => EditsBuildOnWhatWasSeen
<1>1. IInv /\ [Next]_vars =>
        [\A r \in Managers :
           req[r].pc = "edit" /\ req'[r].pc = "bump" /\ map' # map => map[req[r].sku] = req[r].loaded]_vars
  BY EditsShown
<1> QED BY <1>1, MapInductive, PTL DEF Spec, EditsBuildOnWhatWasSeen
=============================================================================
