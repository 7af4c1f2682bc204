-------------------------------- MODULE SkuMap --------------------------------
(***************************************************************************)
(* The map from goods-in SKUs to Zoho items: routes/skuMap.ts and          *)
(* lib/skuMapImport.ts over the tables of migration 0032.  A manager edits *)
(* a row that was loaded some time ago, creates or revives one, removes    *)
(* one (which only marks it), or imports a file; none of them waits for    *)
(* the others, and only the edit tests row_version.                        *)
(*                                                                         *)
(* The attributes of a row and the names of items are left out: every      *)
(* writer treats them as it does the item of the row.  A row is created    *)
(* without a note, which only the edit writes afterwards.                  *)
(***************************************************************************)
EXTENDS Integers, Sequences, FiniteSets

CONSTANTS
  Skus,        \* goods_in_sku
  Items,       \* zoho_item_id
  ZohoSkus,    \* zoho_sku
  Notes,
  Files,       \* sequences of rows [sku, item, zoho_sku]
  Managers,    \* one request of each at a time
  None,
  MaxWrites    \* bound: mapping_version, and row_version

VARIABLES
  items,       \* zoho_items: [Items -> zoho_sku, or None]
  map,         \* sku_map: [Skus -> row, or Absent]
  audit,       \* sku_map_audit, as the changes <<sku, old, new>> it records
  version,     \* sku_map_version.mapping_version
  req

vars == <<items, map, audit, version, req>>

Absent == [version |-> 0]
Live(row) == row # Absent /\ ~row.orphaned

NewRow(item) == [item |-> item, note |-> None, orphaned |-> FALSE, version |-> 1]

\* What the statements make of a row; each of them raises its version.
Edited(row, item, note) == [row EXCEPT !.item = item, !.note = note, !.version = @ + 1]
Revived(row, item)      == [row EXCEPT !.item = item, !.orphaned = FALSE, !.version = @ + 1]
Orphaned(row)           == [row EXCEPT !.orphaned = TRUE, !.version = @ + 1]

Rest    == [pc |-> "rest"]
Busy(r) == req[r] # Rest
Finish(r)   == req' = [req EXCEPT ![r] = Rest]
Goto(r, pc) == req' = [req EXCEPT ![r].pc = pc]

Init ==
  /\ items = [i \in Items |-> None]
  /\ map = [s \in Skus |-> Absent]
  /\ audit = {}
  /\ version = 0
  /\ req = [r \in Managers |-> Rest]

\* UNIQUE (zoho_sku).
Unique(table) == \A i, j \in Items : table[i] = table[j] /\ table[i] # None => i = j

May == version < MaxWrites /\ \A s \in Skus : map[s].version < MaxWrites

-----------------------------------------------------------------------------
(* PATCH /sku-map/:goods_in_sku, on a row loaded before.                   *)

Load(r, s) ==
  /\ ~Busy(r) /\ map[s] # Absent /\ May
  /\ req' = [req EXCEPT ![r] = [pc |-> "form", sku |-> s, loaded |-> map[s]]]
  /\ UNCHANGED <<items, map, audit, version>>

\* Refused when the row has another version by now, or the item is not on record.
StartEdit(r, item, note) ==
  /\ req[r].pc = "form"
  /\ IF map[req[r].sku].version = req[r].loaded.version /\ items[item] # None
       THEN req' = [req EXCEPT ![r] = [pc |-> "edit", sku |-> req[r].sku, loaded |-> req[r].loaded,
                                       item |-> item, note |-> note]]
       ELSE Finish(r)
  /\ UNCHANGED <<items, map, audit, version>>

\* Mutant: the update names the row only.
WriteEdit_AnyVersion(r) ==
  LET e == req[r] IN
  /\ e.pc = "edit"
  /\ map' = [map EXCEPT ![e.sku] = Edited(@, e.item, e.note)]
  /\ audit' = audit \cup (IF e.item = e.loaded.item THEN {} ELSE {<<e.sku, e.loaded.item, e.item>>})
  /\ Goto(r, "bump")
  /\ UNCHANGED <<items, version>>

\* One batch.  The audit row stands even when the update matches no row.
WriteEdit(r) ==
  LET e == req[r] IN
  /\ e.pc = "edit"
  /\ map' = IF map[e.sku].version # e.loaded.version THEN map
            ELSE [map EXCEPT ![e.sku] = Edited(@, e.item, e.note)]
  /\ audit' = audit \cup (IF e.item = e.loaded.item THEN {} ELSE {<<e.sku, e.loaded.item, e.item>>})
  /\ Goto(r, "bump")
  /\ UNCHANGED <<items, version>>

\* The last statement of an edit, a creation and a removal.
BumpVersion(r) ==
  /\ req[r].pc = "bump"
  /\ version' = version + 1
  /\ Finish(r)
  /\ UNCHANGED <<items, map, audit>>

-----------------------------------------------------------------------------
(* POST /sku-map.                                                          *)

\* An item that is not on record is created, if its SKU is nobody's.
StartCreate(r, s, item, zsku) ==
  /\ ~Busy(r) /\ May
  /\ items[item] = None => \A i \in Items : items[i] # zsku
  /\ req' = [req EXCEPT ![r] = [pc |-> IF items[item] = None THEN "item" ELSE "find",
                                sku |-> s, item |-> item, zoho_sku |-> zsku]]
  /\ UNCHANGED <<items, map, audit, version>>

InsertItem(r) ==
  LET table == [items EXCEPT ![req[r].item] = req[r].zoho_sku] IN
  /\ req[r].pc = "item"
  /\ IF items[req[r].item] = None /\ Unique(table)
       THEN items' = table /\ Goto(r, "find")
       ELSE Finish(r) /\ UNCHANGED items
  /\ UNCHANGED <<map, audit, version>>

\* A live row is refused, an orphaned one is revived.
FindRow(r) ==
  LET row == map[req[r].sku] IN
  /\ req[r].pc = "find"
  /\ IF Live(row) THEN Finish(r)
     ELSE IF row = Absent THEN Goto(r, "insert")
     ELSE IF row.item = req[r].item THEN Goto(r, "revive")
     ELSE req' = [req EXCEPT ![r] = [pc |-> "audit", sku |-> req[r].sku, item |-> req[r].item,
                                     old |-> row.item]]
  /\ UNCHANGED <<items, map, audit, version>>

InsertRow(r) ==
  /\ req[r].pc = "insert"
  /\ IF map[req[r].sku] = Absent
       THEN map' = [map EXCEPT ![req[r].sku] = NewRow(req[r].item)] /\ Goto(r, "bump")
       ELSE Finish(r) /\ UNCHANGED map
  /\ UNCHANGED <<items, audit, version>>

AuditRevival(r) ==
  /\ req[r].pc = "audit"
  /\ audit' = audit \cup {<<req[r].sku, req[r].old, req[r].item>>}
  /\ Goto(r, "revive")
  /\ UNCHANGED <<items, map, version>>

ReviveRow(r) ==
  /\ req[r].pc = "revive"
  /\ map' = [map EXCEPT ![req[r].sku] = Revived(@, req[r].item)]
  /\ Goto(r, "bump")
  /\ UNCHANGED <<items, audit, version>>

-----------------------------------------------------------------------------
(* DELETE /sku-map/:goods_in_sku.                                          *)

StartRemove(r, s) ==
  /\ ~Busy(r) /\ May
  /\ Live(map[s])
  /\ req' = [req EXCEPT ![r] = [pc |-> "orphan", sku |-> s]]
  /\ UNCHANGED <<items, map, audit, version>>

MarkOrphan(r) ==
  /\ req[r].pc = "orphan"
  /\ map' = [map EXCEPT ![req[r].sku] = Orphaned(@)]
  /\ Goto(r, "bump")
  /\ UNCHANGED <<items, audit, version>>

-----------------------------------------------------------------------------
(* POST /sku-map/import.                                                   *)

\* Only contradictions within the file refuse it.
validateSkuMapCsv(file) ==
  /\ \A i, j \in DOMAIN file : file[i].sku = file[j].sku => i = j
  /\ \A i, j \in DOMAIN file : (file[i].item = file[j].item) <=> (file[i].zoho_sku = file[j].zoho_sku)

\* before is the table as the file's differences are computed from.
StartImport(r, f) ==
  /\ ~Busy(r) /\ May
  /\ validateSkuMapCsv(f)
  /\ req' = [req EXCEPT ![r] = [pc |-> "import", file |-> f, before |-> map]]
  /\ UNCHANGED <<items, map, audit, version>>

RowsOf(file)    == { file[i] : i \in DOMAIN file }
RowFor(file, s) == CHOOSE a \in RowsOf(file) : a.sku = s
InFile(file, s) == \E a \in RowsOf(file) : a.sku = s

\* The upserts run one after the other, so that one that takes the SKU of an item that
\* no earlier row has renamed breaks UNIQUE; the batch then has no effect at all.
Collides(file) ==
  \E n \in DOMAIN file : \E i \in Items \ {file[n].item} :
    items[i] = file[n].zoho_sku /\ \A m \in 1..(n - 1) : file[m].item # i

Upserted(file, s) ==
  IF map[s] = Absent THEN NewRow(RowFor(file, s).item)
  ELSE Revived(map[s], RowFor(file, s).item)

\* Mutant: an upsert over an existing row leaves its version.
ImportedMap_SameVersion(file, before) ==
  [s \in Skus |-> IF InFile(file, s)
                    THEN IF map[s] = Absent THEN NewRow(RowFor(file, s).item)
                         ELSE [map[s] EXCEPT !.item = RowFor(file, s).item, !.orphaned = FALSE]
                  ELSE IF Live(before[s]) THEN Orphaned(map[s])
                  ELSE map[s]]

\* A live row that is not in the file is orphaned, never deleted.
ImportedMap(file, before) ==
  [s \in Skus |-> IF InFile(file, s) THEN Upserted(file, s)
                  ELSE IF Live(before[s]) THEN Orphaned(map[s])
                  ELSE map[s]]

\* The pre-images are those of the table as it was read.
ImportedAudit(file, before) ==
  { <<s, before[s].item, RowFor(file, s).item>> :
      s \in { s \in Skus : InFile(file, s) /\ before[s] # Absent /\ before[s].item # RowFor(file, s).item } }

ApplyImport(r) ==
  LET file == req[r].file IN
  /\ req[r].pc = "import"
  /\ IF Collides(file) THEN UNCHANGED <<items, map, audit, version>>
     ELSE /\ items' = [i \in Items |-> IF \E a \in RowsOf(file) : a.item = i
                                         THEN (CHOOSE a \in RowsOf(file) : a.item = i).zoho_sku
                                         ELSE items[i]]
          /\ map' = ImportedMap(file, req[r].before)
          /\ audit' = audit \cup ImportedAudit(file, req[r].before)
          /\ version' = version + 1
  /\ Finish(r)

\* A worker dies between two statements, or a form is closed.
Abandon(r) ==
  /\ Busy(r)
  /\ Finish(r)
  /\ UNCHANGED <<items, map, audit, version>>

-----------------------------------------------------------------------------

Editing(r) ==
  \/ \E s \in Skus : Load(r, s)
  \/ \E i \in Items, n \in Notes : StartEdit(r, i, n)
  \/ WriteEdit(r)
  \/ BumpVersion(r)

Creating(r) ==
  \/ \E s \in Skus, i \in Items, z \in ZohoSkus : StartCreate(r, s, i, z)
  \/ InsertItem(r)
  \/ FindRow(r)
  \/ InsertRow(r)
  \/ AuditRevival(r)
  \/ ReviveRow(r)

Others(r) ==
  \/ \E s \in Skus : StartRemove(r, s)
  \/ MarkOrphan(r)
  \/ \E f \in Files : StartImport(r, f)
  \/ ApplyImport(r)
  \/ Abandon(r)

Next == \E r \in Managers : Editing(r) \/ Creating(r) \/ Others(r)

Spec == Init /\ [][Next]_vars

-----------------------------------------------------------------------------

Row == [item : Items, note : Notes \cup {None}, orphaned : BOOLEAN, version : Nat \ {0}]

TypeOK ==
  /\ items \in [Items -> ZohoSkus \cup {None}] /\ Unique(items)
  /\ map \in [Skus -> Row \cup {Absent}]
  /\ \A s \in Skus : map[s] # Absent => items[map[s].item] # None
  /\ audit \subseteq Skus \X Items \X Items
  /\ version \in Nat

\* An edit that takes effect is made to the very row its editor was shown, whichever
\* edits, revivals, removals and imports came between: nothing that the editor has not
\* seen is overwritten.
EditsBuildOnWhatWasSeen ==
  [][\A r \in Managers :
       req[r].pc = "edit" /\ req'[r].pc = "bump" /\ map' # map => map[req[r].sku] = req[r].loaded]_vars
=============================================================================
