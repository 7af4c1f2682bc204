# A TLA+ verification of goods-in-inventory-receiving

The repository is a Cloudflare Worker (TypeScript, Hono) over one D1 (SQLite)
database. It follows mobile devices from goods-in to sale: receiving against a
manifest, in-house repair, export for repair under Outward Processing Relief
(OPR), return, restocking and the sales imported from Zoho, with the customs
file, the bills, the labels and the mail that go with them. This directory holds
TLA+ models of it, TLC configurations that check them on small instances, and
theorems that TLAPS proves for every value of the constants.

Paths below are relative to the repository; a bare file name is under `src/`.

## 1. The system

Requests are handled by Worker isolates. A request is a sequence of `await`ed
database statements; D1 runs each statement, or each `db.batch()`, atomically,
but nothing spans two of them. Hence three sources of difficulty run through
the whole code: two requests interleave between statements; a request stops
between statements (client disconnects, isolate is evicted; the code records
such an incident in `routes/opr.ts:2176-2188`); and a value read in one
statement is stale when a later one uses it.

| Component | State | Operations | Interacts with | Correct when |
|---|---|---|---|---|
| Device ledger: `lib/deviceLifecycle.ts`, `routes/devices.ts` | `received_devices.status`, append-only `device_events` | `transitionDevice`, `logDeviceEvent`, generic and bulk transition routes, webhook dispatch | every component that moves a device calls `transitionDevice` | only listed edges are recorded, the status is that of the latest event, rejections are made by managers, workflow-only statuses belong to their workflow |
| Receiving: `routes/scan.ts`, `lib/bulkSerialImport.ts` | `received_devices`, `expected_devices`, `scan_events` | scan, confirm, bulk, force-add, manual, reject | manifests, catalog, ledger, printing | a device is received once; the manifest line and the device agree |
| Manifests: `routes/manifests.ts` | `manifests`, `expected_devices` | upload, apply-sku, close, delete | receiving, bills | what is deleted is forgotten, what is received is not |
| In-house repair: `lib/repairWorkflow.ts` | `repair_jobs`, the READY_FOR_ZOHO gate | start, scan back, QC, reopen, close | ledger | one live job per device; into READY_FOR_ZOHO only after a passed QC and with complete data |
| Export consignments: `routes/opr.ts` | `shipments`, `shipment_lines` | add (single, scanned list, serials file), remove, finalise, resume | ledger, customs file | status follows the lines; one request finalises; nobody is exported on a draft |
| Return consignments: `routes/opr.ts`, `lib/returnCorrections.ts` | the same tables, `return_line_corrections`, `partial_return_declarations` | add, remove, correct, review, receive, restock | export consignments, ledger, grade correction | never more returned than exported; a corrected identity takes effect at restock; an IMEI change blocks receipt |
| Customs file and its rules: `routes/opr.ts`, `lib/opr.ts`, `lib/oprValidation.ts`, `lib/oprImport.ts` | the header of `shipments`, `shipment_misdeclaration_acks`, `shipment_value_deltas` | create, edit, acknowledge, validate, finalise, proof, reconcile | consignments | nothing is received with an unacknowledged variance; the C&E1154 never states what nobody supplied; deadlines agree |
| Sale import: `lib/zohoSaleImport.ts` | `sold_*` and `zoho_*` columns | parse, classify, apply | ledger, consignments | a device whose latest event is an import's sale is SOLD, with the invoice of that sale |
| Bills and cost: `routes/bills.ts`, `lib/billBuilder.ts`, `lib/costEntry.ts`, `lib/freightApportionment.ts`, `lib/customsApportionment.ts`, `lib/acquisitionCost.ts`, `lib/manifestBillReconciliation.ts` | `bills`, `bill_lines`, `bill_line_serials`, `bill_close_overrides`, `cost_ledger` | build, create, close, force-close, post, apportion, reconcile | manifests, devices, repair | amounts add up to the penny; a closed bill is accounted for; a line is costed once to every device it names |
| SKU map: `routes/skuMap.ts`, `lib/skuMapImport.ts` | `sku_map`, `zoho_items`, `sku_map_audit`, `sku_map_version` | create, edit, remove, import | sale import | no edit overwrites what its editor has not seen |
| Catalog: `lib/catalog.ts`, `routes/catalog.ts`, `lib/sku.ts` | `sku_catalog` | upload, resolve, heal | receiving, grade correction | |
| Grade correction and inventory: `lib/gradeCorrection.ts`, `routes/inventory.ts`, `routes/devices.ts` | grade and SKU of a device, `grade_audit`, `removal_flags` | regrade, correct, flag, delete | restock, catalog, printing | no label with an old SKU is forgotten |
| Printing: `routes/print.ts` | `print_jobs`, the print mode | queue, send, page, mark, invalidate | receiving, grade correction | every label that is owed is queued or printed |
| Email and webhooks: `lib/email.ts`, `lib/webhook.ts`, `lib/oprComms.ts`, `routes/webhooks.ts` | `sent_emails`, `shipment_replies`, `webhooks` | send, record, reply, flag, dispatch | consignments, ledger | the log is true; a missing answer is chased when due |
| Authentication: `lib/auth.ts`, `lib/password.ts`, `routes/auth.ts` | `users` | login, roles | all routes | roles gate the routes |
| Reports, documents, settings, front end: `routes/reports.ts`, `lib/oprDocs.ts`, `public/` | none of their own | read | all | |

## 2. Modules, in the order they build on one another

| Module | Models | Uses |
|---|---|---|
| `DeviceStatus` | statuses, edges, gates of `lib/deviceLifecycle.ts` | |
| `DeviceLedger` | what the ledger promises (abstract) | `DeviceStatus` |
| `DeviceLifecycle` | the ledger as it is written; implements `DeviceLedger` | `DeviceStatus`, `DeviceLedger` |
| `RepairWorkflow` | in-house repair | `DeviceStatus` |
| `Consignment` | what a consignment promises (abstract) | |
| `ExportConsignment` | the export routes; implements `Consignment` | `DeviceStatus`, `Consignment` |
| `ReturnConsignment` | returns, receipt, restock | `DeviceStatus` |
| `Receiving` | goods-in against manifests, deletions | |
| `CustomsRules`, `ReturnRules` | the customs algorithms | |
| `CustomsFile` | the customs file of an export and its return | `CustomsRules`, `ReturnRules` |
| `Apportionment`, `BillBuilder` | the algorithms of money | |
| `Bills` | bills and `cost_ledger` | `BillBuilder` |
| `SaleImport` | the import of sales | `DeviceStatus` |
| `SkuMap` | the SKU map under edits and imports | |
| `Labels` | labels, regrades, corrections, the print queue | |
| `Comms` | the mail of a consignment, its chase, the checklist | |
| `Office` | seven desks (`CustomsFile`, `Bills`, `SaleImport`, `RepairWorkflow`, `SkuMap`, `Labels`, `Comms`) side by side, and what each promises | those modules |
| `X_proofs`, for `DeviceLifecycle`, `RepairWorkflow`, `ExportConsignment`, `ReturnConsignment`, `Receiving`, `SaleImport`, `SkuMap`, `Office` | theorems about `X` | `X`, TLAPS |
| `MCDeviceLifecycle`, `MCRepairWorkflow`, `MCExportConsignment`, `MCReturnConsignment`, `MCReceiving`, `MCBills`, `MCOffice` | instances for TLC | |

What is left of the plan: racing requests in `ReturnConsignment`; the upload of the
catalogue; the types of `CustomsFile`, `Bills`, `SaleImport` and `Labels` as theorems.

## 3. The modules and the code

Every module takes its data (devices, requests, shipments...) as CONSTANTS.
Unless said otherwise one `await` on the database is one action, a request
keeps its local variables in `req[r]` (its `pc` says which statement is next),
and a request that a guard refuses changes nothing. `Abandon` is a worker that
dies, or a client that hangs up, between two statements. What a property is about
is in the comment above it. Definitions named `X_Something` under a comment
"Mutant" are not part of the model: each is `X` with a plausible bug, with which
some property must fail.

**`DeviceStatus`** — `lib/deviceLifecycle.ts` without state: the statuses, the
edges of `ALLOWED_TRANSITIONS`, the workflow-only statuses, and the gate on
rejecting and un-rejecting.

**`DeviceLedger`** — what the ledger promises: a device is received, then moves
along edges of the table, each in one step.

**`DeviceLifecycle`** — what the code does instead. `status` is
`received_devices.status`, `events` the rows of `device_events` that carry a
status. `GenericTransition` and `BulkTransitionRow` are the two routes of
`routes/devices.ts` up to their own read; `WorkflowTransition` stands for the
repair, consignment and sale routes; `ReadDevice` and `CommitTransition` are
the two halves of `transitionDevice()`, its SELECT with the checks and its
unconditional `db.batch`; `RereadEvent` and `DispatchWebhook` are the webhook;
`ReceiveInsert` and `ReceiveLog` are goods-in. `Serialised` is the set of the devices
that the staff work on in one request at a time; the others are raced for.

**`RepairWorkflow`** — `lib/repairWorkflow.ts`. `jobs` is `repair_jobs`, `ready`
the data that the READY_FOR_ZOHO gate looks at. Each of `startRepair`,
`scanBackRepair`, `recordQc`, `reopenRepair` and `closeToInventory` is a request
that looks for its job, writes it and then calls `transitionDevice()`.
`EditDevice` is the editing of the row by other routes, `Move` and `ImportSale`
are the other ways a device moves.

**`Consignment`** — the abstract consignment: a device is in stock, packed on
one shipment or sold; a shipment is finalised once; a packed device departs
after that and never before.

**`ExportConsignment`** — the export routes of `routes/opr.ts`: add (single,
`scan-bulk` and `bulk-serials`, the loop included), remove, finalise, resume and
the sale import that competes for the same devices. `bulk-serials` classifies
its file against one snapshot (`AddTakesMatched`) and then adds what it matched
one by one. `lines` is `shipment_lines`; the undo of the insert when the
transition throws is `AddUndoesLine`; the guarded UPDATE is
`FinaliseFlipsShipment`. `Consignment` is instantiated with a refinement mapping
(a device is packed where it has a line, once it reads IN_EXPORT_CONSIGNMENT).

**`ReturnConsignment`** — the returns that discharge one finalised export: lines,
declared `supplementary_units`, corrections and their review, `IMP_RETURN_BALANCE`
and `IMP_RETURN_LINE_REVIEW`, receipt (`finaliseImportShipment`), the row of
`partial_return_declarations`, restock with the write-through of corrections.
Requests are served one at a time here (`req` is one record); a worker dies
between the statements of receipt and restock. A correction is abstracted to
whether it changes the IMEI, the grade, or other fields only. `WriteThrough` is the
plan and the batch of `lib/gradeCorrection.ts`: the identity fields are written in
every case, the grade and its SKU only when the catalogue has one SKU for the
corrected device (`matched`), which the catalogue decides. `ApplyCorrection` may also
fail, before or after the batch: the caller catches that and names the device in
`correction_apply_errors` (`reported`). What the legs returned
together (`CountedOver`) is a sum, written as the number of pieces they count.

**`Receiving`** — `routes/scan.ts` over the lines of `routes/manifests.ts`: the
reads in the order each route makes them, then insert, mark, log, queue. The
UNIQUE imei and the foreign keys of `device_events`, `print_jobs` and
`received_devices` are guards of the statements they refuse. `events` and `jobs`
are the rows of `device_events` and `print_jobs` as bags of the devices they name.
`DELETE /inventory/:id` and `DELETE /manifests/:id` take receipts back.

**`CustomsRules`** — what is computed and not stored: procedure codes and their
amendment (`lib/opr.ts`), every export check (`lib/oprValidation.ts`), the
misdeclaration variance and its acknowledgement, `computeCe1154` with the value
adjustment that may be the residual of the entry's VAT base. A check is its
colour, "green", "amber" or "red"; red refuses. An amount is a whole number of
pence, a rate foreign pence per pound, a duty rate hundredths of a percent, a
date a triple. The text of a column is whether it is usable.

**`ReturnRules`** — the import checks of `lib/oprImport.ts`, the discharge
tracker, the deltas of a reconciled value, box 47 of an entry as a sequence of
tokens (code, amount with its unit, other text), and `lib/returnCorrections.ts`.

**`CustomsFile`** — the routes that keep those columns: `POST` and `PATCH
/shipments`, the lines as their values, `misdeclaration-ack`, the validation and
the flip of finalise, proofs, `reconcile-value`. A request reads its shipment;
what it reads after that is one action; what it writes is one action each, so an
edit can come between the validation and the flip. `acks` and `deltas` are the
append-only tables. What the devices do meanwhile is in the two modules above.

**`Apportionment`** — the largest-remainder method of
`lib/freightApportionment.ts` and its copy in `lib/customsApportionment.ts`, with
exact fractions for the floating-point shares.

**`BillBuilder`** — `lib/billBuilder.ts`: the rows of a file are grouped under the
row that leads them into lines with their serials, in the two modes, with every
way a row can be refused; the sum that lets a bill close;
`lib/manifestBillReconciliation.ts`.

**`Bills`** — `routes/bills.ts`: create in three statements (bill, lines, serials),
close and force-close, posting in its three (rows, ledger, insert), and the two
postings by hand of `lib/costEntry.ts` and `lib/repairWorkflow.ts`. `received` is
who has a `received_devices` row, which decides what a serial is linked to when it is
inserted (`linked`); nothing links it later.

**`SaleImport`** — `lib/zohoSaleImport.ts`: the disposition of a contact, the sign
and the pence of a price, the latest row of each code, classification against one
snapshot, the low-yield gate, one batch of the moves that are no revenue, and for
each sale its columns, the read and the write of `transitionDevice()`. The other
routes call the same function: `Look` is their read and check, `Move` their
batch, which may come any number of statements later and overwrites whatever is
there, SOLD included. `sold` is the invoice of the sale that is the latest event of a
device, if it is one.

**`SkuMap`** — `routes/skuMap.ts` and `lib/skuMapImport.ts`. `map[s].version` is
`row_version`, which only the edit tests. Create is four statements and may revive
a removed row; an import is one batch from a table read before. `audit` and
`version` are written as the code writes them, whether or not the UPDATE matched.

**`Labels`** — the queue of `routes/print.ts`, the regrade of `POST
/inventory/grade`, the owner's correction of `PATCH /devices/:id/correct` with its
cascade to the manifest line, the removal flags. PrintNode and the printer are
external: `spool` is what PrintNode took, `label` the SKU on the last label.

**`Comms`** — the mails of `routes/opr.ts` through `lib/email.ts`: the dispatch and
the row that records it are two steps, Gmail may take a mail, refuse it, or throw
either way. `Flagged` is the unanswered flag of `lib/oprComms.ts`, with working
days counted as it counts them and stamps compared as the strings they are. The
checklist of a return is `checklist`.

## 4. The runs

| Run | Instance | States | What it shows |
|---|---|---|---|
| `ledger` | one device that two requests race for in any interleaving (three events) and one with a request at a time (six events); operators and managers, three kinds of reason code, workers dying | 78 000 | in any race: only listed edges and gated rejections are recorded, generic routes never enter workflow statuses; on the second device: status and latest event agree, webhooks report edges, the routes implement `DeviceLedger`, generic routes never take a device out of a workflow status |
| `ledger_late` | the same | violated | the RECEIVE event lands after the event of a move |
| `repair_orphan` | one device, one repair request at a time, nobody dying | violated | a repair started on a device in stock inserts a job and is refused |
| `export_serial` | two devices, two shipments of different type, two deaths in finalise or resume, lists and files of two devices | 12 400 | status follows lines, routes implement `Consignment`, stranded devices move on (fairness) |
| `export_race` | the same with two interleaved requests | 233 000 | one finaliser, nothing leaves on a draft |
| `export_salerace` | one device, one shipment, two requests | violated | a sale overwrites IN_EXPORT_CONSIGNMENT |
| `return_receipt` | three devices, two returns, units NULL, 0 or 1, two corrected lines, one death | 2 470 000 | balance, declarations, IMEI block, corrections written or reported |
| `return_stuck` | the same without corrections | violated | receipt strands devices when its worker dies |
| `receiving_race` | two handsets, three lines, two manifests that share a handset, two interleaved requests, two deaths, four receipts | 264 000 | lines and devices agree, nothing received twice, a received line stands |
| `receiving_delete` | one request, confirm and delete only | violated | deletion is refused once the receipt is logged |
| `bills_late` | the bills of `office`, alone | violated | a device received after its bill was entered is not linked to it |
| `office` | seven desks and the samples of the rules, below | 1 275 000 | what each desk owes, and what the algorithms owe |

*The run `office`.* The customs file, the bills, the import of sales, the repairs, the
SKU map, the labels and the mail with the checklist are each modelled with the tables
they write; what they share (`received_devices`) each module has in its own view, with
the moves of the others as its environment (`Look` and `Move`, `EditDevice`). `MCOffice` therefore puts one desk in each behaviour, chosen at the start: every
interleaving inside a desk is explored, and no product between desks. What a desk promises (`Office` names it) is checked while it is at work, and
holds of its initial state at all other times. Some behaviours have, instead
of a desk, a *sample* of the inputs of the pure algorithms (6 000 of them); an
algorithm is checked in that one state, which has no successor: this is what
`CHECK_DEADLOCK FALSE` is for. (The two passing runs of `ExportConsignment` say it
too: with every device departed or sold and the bounds reached nothing is left to
do.)

| Desk | Instance | Property |
|---|---|---|
| customs | an export and its return, two devices, two requests; a return in dollars with a declared total that its lines do or do not meet; an authorisation that ends, a policy that starts | `ReceivedAsAcknowledged`: a variance is received only with an acknowledgement of the figures as they stand at receipt |
| bills | one invoice submitted twice, of two devices on one line, one submission with a total that does not add up; receipts of the devices at any time; two requests | `ClosedIsAccountedFor`: a closed bill adds up or has an override; `CostedAsLinked`: a purchase line is costed once to each device it was linked to at entry, or to none of them, and never to one received later |
| sales | three files over two devices: a device that left twice, one returned to its supplier, a sale with no price and an unknown contact, a file below the yield; another route that read a device and writes it later, dead workers, the same file again | `SoldAsRecorded`: a device whose latest event is an import's sale is SOLD and its columns name that invoice |
| repairs | one device, one request at a time, workers dying anywhere, four jobs | `OneLiveJob`, `ClosedIffCompleted`, `RepairIsResumable`: jobs stay consistent and a repair can go on; `IntoZohoThroughTheGate` |
| skus | two SKUs, two items, three files, two managers, two writes of a row | `EditsBuildOnWhatWasSeen`: an edit that takes effect is made to the very row its editor was shown |
| labels | one device received with its own SKU or another's, a catalogue of two SKUs, two jobs; PrintNode, browsers and hands that mark | `LabelsCatchUp`: a label that is out of date has a job, or PrintNode has one |
| mail | the mail about a return over a week and a day, two rows, a reply; Gmail throws, workers die | `LogIsHonest`: what is on record as sent was taken, as failed was not; `ChasedWhenDue`: flagged after five days at the latest, before the third never |

| Samples | What varies | Property |
|---|---|---|
| forms and entries | stored adjustment, VAT base, provenance of inputs, duty rate; every page of up to four tokens | `FormIsHonest`: the form does not balance by absorbing an input nobody gave; an entry reconciles only with both taxes on it |
| deadlines and corrections | exports at the ends of months, leap and common years; every pair of partial corrections | `ReturnRulesAgree`: the tracker and the import check call the same day late; corrections accumulate and the review sees what a line has become |
| shares, files and manifests | prices 0 to 4 of three devices, totals 0 to 7; every file of two rows, or of a leading row and two more; manifests of two lines in two currencies against a bill in dollars or in pounds | `AmountsAddUp`: shares add up to the penny, within a penny and in order; every row of a file is on one line or reported; a manifest in one currency balances exactly when its lines add up (of one in two nothing is claimed: section 7) |

`TypesOK` is the type invariant of the desk at work.

*Bounds and why they are enough.* Devices are independent of one another but for
the rows that join them: one is enough for the ledger, for repair and for labels,
two for consignments, bills and sales, three for returns (two partial returns in a
row must still leave something outstanding). The conflicts in this code are
between a read and a later write of the same row, so two requests show each of
them; three add only losers. `MaxEvents`, `MaxJobs`, `MaxLines`, `MaxIds`,
`MaxRows`, `MaxReplies`, `MaxManual`, `MaxWrites`, `MaxFlags` cap counters and logs; the
values let a device be rejected and un-rejected, fail QC, be reopened and repaired
again, a line be removed and added again, a SKU be mapped, edited and imported
over, a job be invalidated and queued anew. `MaxDay` makes eight days from a
Monday, so that a send is followed over a weekend. `MaxDeaths` counts dead workers; two
show a death during the recovery from a death; the desks of `office` have no such
bound. In `ledger` three events on the raced device let one move
overwrite another and a third follow, and six on the other let it be received,
rejected, un-rejected and go on; a behaviour is about one of the two, which never
meet. `Bare` gives a request whose target is neither REJECTED nor RECEIVED no role and
no code that matter, since only the gate on these edges reads them. `MaxCorrected`
lines of a return get a correction: two are on one leg or on both. `MaxOthers` is one:
one route that has read a device and not yet written is enough to overwrite a sale,
and can do so again and again. The theorems of section 6 cover any number.

*Serialised runs.* `transitionDevice()` writes without testing the status it
read, and so do most other writes, so that almost no invariant across two tables
survives two requests on the same rows at the same moment. The runs therefore ask
two questions apart: which properties hold whatever interleaves (`*_race`, the raced
device of `ledger`), and which hold when the staff work on a thing in one request at a
time, workers dying included (`export_serial`, the other device of `ledger`, the
repairs of `office`). The second kind says nothing of what a second request does to
the same row meanwhile. In `receiving_race` the scanning routes interleave freely
and only the two deletions run alone. In `office`: acknowledgements interleave
with everything, the other writers of a consignment's file run one at a time; one
submission and one posting at a time, beside closes, force-closes, receipts and
postings by hand; one import of sales, beside stale moves of its devices; one repair request of a
device; one correction, beside every way to send or mark a label; SKU edits, creations,
removals and imports, and mails, interleave freely. What happens otherwise is in
section 7.

## 5. Fairness

Only `export_serial` checks liveness. `FairSpec` assumes weak fairness of the
statements of a request (a request that is not killed runs on) and strong
fairness of `StartResume` for each shipment: the resume route is called by an
administrator, and does nothing unless devices are stranded, so the assumption is
that somebody who keeps finding stranded devices calls it again. Nothing is
assumed of `Abandon`, and the number of deaths is bounded, without which no loop
need ever end. Other routes owe nothing: users may stop at any time.
(`LabelsCatchUp` and `ChasedWhenDue` say as invariants what must still be possible,
or already be shown, at each moment; that a person then acts is nobody's promise.)

## 6. What is proved

**`DeviceLifecycle_proofs`** proves, for any devices, requests, users, reason codes
and number of events:

- in any race: `TypeCorrect`, `RecordedMovesAreAllowed`, `RejectionsStayGated`, and
  the action property `GenericStaysOut`;
- on the devices of `Serialised`: `StatusFollowsLog` (status and latest event agree,
  RECEIVE included: what `ledger_late` shows to fail on the others);
  `LifecycleImplementsLedger`, the refinement of `DeviceLedger`;
  `WebhooksReportEdges`; and `GenericLeavesWorkflowAlone`, an action property.

The only assumptions are `LifecycleAssumption`'s types of the constants. The
invariants speak of the log, and a step appends to the log what a request
decided a step before; they are not inductive alone. `IInv` adds `InFlight(r)`,
what a request has established at each `pc` (at "commit": the edge is in the
table and the gate was open for the status it read, not for the status the
device has by now), and `AbsentHasNoEvents`. One lemma per action shows that it
preserves `IInv`; `OthersInFlight` covers the requests that do not move. The
refinement adds that a request on a device is alone there (`Alone`) and that the
status it read is therefore still the device's (`ReadIsFresh`), which is what
turns the unconditional write into an atomic move. `Relies(r)` is what else a
request may count on then: the device that a generic request tested is still
outside the workflows, and the event it reads back is the one it wrote.

**`RepairWorkflow_proofs`** proves, for any devices, requests and number of jobs,
whether workers die or not, from `Serialised` (no two requests work on a device):

- `RepairTypes`, `NeverTwoLiveJobs`, `ClosedWhileCompleted`, `RepairCanGoOn`:
  invariants;
- `ZohoIsGated`: an action property.

`Office_proofs` restates the last four of the repair desk of `office`
(`NoSecondLiveJob`, `JobsCloseAsCompleted`, `RepairsCanGoOn`,
`ZohoIsEnteredThroughTheGate`), from `OneRepair`.

The job is written a step before the device, and the request decides what to write
two steps before. `IInv` therefore says what a request in flight knows
(`Knows(r)`): that the row it loaded is still the device's, that the job it holds
is the latest one and live where it looked for a live one, and that what it will
commit is backed by that job: a pass on record and data that pass the gate for
READY_FOR_ZOHO, a live job for IN_HOUSE_REPAIR. `JobsOk(d)` says that only the
latest job can be live, which is stronger than `OneLiveJob` and inductive where
that is not; `Resumable(d)` says, of every moment, what `RepairIsResumable` says of
a device at rest, the request that has a pass on record and the move still to do
(`PassInFlight`) included. `OneDeviceStep` carries all that concerns other devices
and requests; one lemma per action does the rest.

**`ExportConsignment_proofs`** proves, for any devices, shipments and requests:

- `ExportTypes`, `OneFinaliserWins`, `DraftsStayHome`: with requests interleaved in
  any way and workers dying anywhere, so for more than `export_race` explores;
- `StatusAndLinesAgree`, `RoutesImplementConsignment`: with requests one at a time
  (`Serialised`) and workers dying only in finalise and resume
  (`Mortal \subseteq Moves`), as in `export_serial`. A worker that dies between
  inserting a line and moving its device breaks both (section 7).

The two need different invariants. `IInv` is what no race can break: a request in the
loop of finalise or resume works on a shipment that is FINALISED, nothing takes a
shipment out of FINALISED, and the guarded UPDATE is passed from DRAFT only, so that a
second finaliser cannot be in the loop. `SInv` is about one request at a time: a
device has one line at most, and its status is what that line calls for, but for the
step that the request at work still owes (`DeviceOk`, `KnowsAlone`): between the
insert of a line and the move, between the move back and the deletion of the line,
and in the loop of a finalisation. The refinement maps each statement that moves a
device to a step of `Consignment`, and every other one to a stutter.

**`ReturnConsignment_proofs`** proves, without hypotheses, for any export, any returns,
declared units, corrections and deaths, the invariants of `return_receipt`:
`ReturnTypes`, `NeverTooMany`, `DraftsCanBeReceived`, `OutstandingIsOnRecord`,
`CorrectionsApplied`. `IInv` is what holds whoever dies: the receipt weighs its leg
with the others before the flip and a leg that is received changes no more, drafts
share no device, and what the loop of a receipt has left is on no draft. `OInv` is about a system in which nobody died yet: no declaration says less than is
owed and one says exactly that, unless it is being written. `CInv` counts: the devices
in stock that are as none of their returns says and that no restock reported, but for
the one whose correction is at hand, are no more than the workers that died, since a
restock has one device at hand; and a grade is rewritten only for a line that corrects
it. (That the count of a leg only grows the balance is a fact
about cardinalities, `FiniteSetTheorems`.)

**`Receiving_proofs`** proves, for any handsets, manifests, lines and requests:

- `ReceivingTypes`, `ReceivedOnlyOnce`: in any race, without hypotheses;
- `LinesAndDevices`, `ReceivedLinesStand`: where a deletion or a wipe runs alone and
  to its end (`UndoneWithCare`), while scans race and die as they like. The run has
  the same condition; section 7 says what happens without it.

What ties the statements of a receipt together is the id that its INSERT was given:
`IInv` says that ids are given out once, that a request past its insert is the only
one with its id, and that no event and no label of that id is there until that
request writes them. `AInv` adds, of each line and each device, that they name one
another unless a request has still to write that (or a worker that had to is dead, or
a wipe has taken the devices and not yet the lines).

**`SaleImport_proofs`** proves `SalesAreAsRecorded`, for any files, devices and
requests, from `OneFileAtATime`: managers import one file at a time (`OneImport`, as
in the run; section 7 says what two imports do), a file is a sequence of rows with a
last day, and it spells a serial in one way (a serial spelled in two ways is two
sales of a device). The columns of a sale are written before the event, by a statement
of its own, and the property looks at them after. `IInv` therefore says that the
sales an import has left are of different devices, none of which has an import's sale
as its latest event (a SOLD device is no sale of a later file, and what the other
routes write, stale or not, is no sale of an import), and that between columns and
event the columns are those of the sale at hand. That a sold device stays SOLD is not
claimed: a route that read it before the sale writes over it (section 7).

**`SkuMap_proofs`** proves `MapTypes` (with the foreign key to the items and the
uniqueness of their SKUs) and `EditsBuildOnTheShown`, for any SKUs, items, files and
managers, with requests interleaved and dying anywhere, from `WellFormed`: a file
consists of rows, and the value that stands for NULL is neither a SKU nor a note.
The edit compares `row_version` only. That the row is then the one that was shown
rests on all the other writers, which test nothing: none deletes a row, and each
that changes one raises its version (`Grown`). `Knows` says what a request keeps of
what it read: the row is there, at the version it had and unchanged, or at a later
one.

**`Office_proofs`** has a part on each of four desks, and states of the other three
(`SalesStandAsRecorded`, `EditsAreOfTheShown` and the four on repairs) what their
modules prove.

*Bills*, for any bills, files, devices and requests, dying anywhere:

- `ClosedBillsAccountedFor`, from `NoBillIsNone` alone (the value that stands for no
  bill is not one);
- `LinesCostedAsLinked`, where in addition the staff post one bill at a time
  (`OnePosting`; two postings at once cost a device twice, section 7). A device
  received after its bill was entered is not linked, and is proved never to be costed
  by a posting of that bill: the line stays costed in part, against migration 0028
  (`bills_late`).

A bill can be closed, and posted, before its lines and its serials are inserted.
`Kept` and `Stage` say why a closed bill is accounted for all the same: lines are
inserted once, by the one request that created the bill; a bill without lines adds up
to nought, which no close accepts against an amount; and from then on the lines stay.
`Ledgered` says that the ledger has no purchase of a bill until its serials name
devices, and from then on each line is costed for all the devices linked or for none; `Stage`
that what a posting found not to be posted stays so until it writes. The ledger is a
bag, and what a batch does to the number of its copies is a lemma (`BagGrows`).

*Mail*, for any consignments, senders and calendars, interleaved and dying anywhere:
`MailLogIsHonest` and `MailChasedWhenDue` without hypotheses, `MailTypes` where the
calendar has days. `Sound` says what a request owes between Gmail's answer and its row:
no row is its own yet, and the outcome it will write is the answer. That a send is
chased when it is due is a fact about the working days between two days
(`workingDaysBetween`: seven days hold five) and
about the latest send and reply, whose stamps the log bounds by today.

*Labels*, for any devices, catalogue, arrivals and number of jobs:
`LabelsAreCaughtUp`, where one correction is at work at a time (`LabelsAtWork`, as in
the run; two corrections at once can leave no job queued, section 7). A job may be
marked as sent, or invalidated, long after it was read. `Spared` says of a request that
is about to mark a job as sent that its device does not need that job; `Prepared` of a
correction that is about to write that it knows every queued job of the device;
`OneAtWork` that no other correction can then add to them.

*Customs file*, for any consignments, headers, changes, lines and requests, dying
anywhere: `VariancesAreAcknowledged`, where the staff create, edit, line up and finalise
in turn (`FiledInTurn`, which also says that a row has its columns and that PATCH changes
no status; section 7 says what two at once do). Acknowledgements, proofs and reconciled
values interleave with all of that, the last two more freely than in the run. A form
that can be computed is one whose row, lines, export and authorisation say enough
(`FormIsComputed`), and a return that the checks let through has then its variance
acknowledged by its figures (`ValidatedIsSigned`, through the latest acknowledgement).
`FileInv` keeps it so (`Signed`) from the checks to the flip, which are statements
apart, and for good after it: what reads nothing of the form is `Gentle`, and nothing
else is written to a return while it is being finalised.

*Form and entry*, for any header whose figures are amounts or NULL, any authorisation and
lines, and any page of tokens: `FormsAreHonest`, where the default adjustment is an
amount. A charge has a rate wherever the form is not refused (`ChargeIsAmount`), and
the adjustment is solved only where no input is assumed, so that the solved form
balances to the entry and the other says what gap is left (`ComputedIsHonest`); a tax
line of box 47 comes from a token with its code (`EntriesAreRead`).

In all of them but the last one lemma per action shows that the invariant is kept, and the
theorems at the end combine them.

Only model-checked: the types of the desks that have no theorem above (`TypesOK`; those
of the map and the mail are parts of what is proved),
and the liveness `StrandedMoveOn`, which the prover cannot treat. What the other
rules compute is checked on samples (`AmountsAddUp`, `ReturnRulesAgree`): the
sums over shares and rows and the dates that months are added to are folds over data,
whose value for every input would need an induction that is out of the prover's reach.

## 7. Where the code and what is said of it part

Each violated run is such a place: its counterexample is a run of the code.

- `ledger_late`: "the device's `status` always equals the `to_status` of its most recent
  event" (`lib/deviceLifecycle.ts:8-9`). Goods-in logs RECEIVE a statement after the
  insert (`routes/scan.ts:348`); a move that falls between leaves RECEIVED as the
  latest event of a device that is elsewhere.
- `repair_orphan`: `startRepair()` accepts ACTIVE_INVENTORY
  (`lib/repairWorkflow.ts:35`), inserts an open job and then fails, the
  table having no edge from there to IN_HOUSE_REPAIR.
- `export_salerace`: SOLD written over IN_EXPORT_CONSIGNMENT.
- `return_stuck`: receipt has the stuck state that `opr.ts:2291` denies; resume
  refuses imports. (The device can be put on another return, and then counts
  twice against the balance.)
- `receiving_delete`: `device_events.device_id` refuses the deletion of any
  device whose receipt was logged, and the `DEVICE_DELETED` event of any other.

- `bills_late`: migration `0028:153-156` says that a serial is matched to its device in
  either direction. `POST /bills` links what is received when it inserts the serial
  (`routes/bills.ts:211`), and no statement updates the column: a device received
  later is never costed, and its line stays costed in part for good.
  (`test/bills.spec.ts:50-54` leaves the case out.)

Met while modelling, from reading or from instances that are not kept as runs:

*Ledger, repair, consignments, receiving*

- Two requests on a device: a generic move may take it out of a workflow-only
  status (`routes/devices.ts:1258` tests a row read earlier; the repository's
  `README.md:46` says it refuses), and SOLD may be overwritten
  (`deviceLifecycle.ts:73`: terminal) by a route that read the device before the sale.
  The webhook of one may report the event of the other (`devices.ts:1300`).
- A second QC result written after the first has moved the device
  (`repairWorkflow.ts:205` updates the job by id).
- A worker that dies after a pass is recorded and before the device moves leaves
  it IN_HOUSE_REPAIR with no live job: `RepairIsResumable` states the exception.
- A line added after the shipment was finalised by another request
  (`opr.ts:983-996` tests DRAFT at the start), and one device on two drafts when
  a worker dies in the undo (`opr.ts:871-890`).
- Two requests that add one device to two open returns at once: the guard reads,
  the insert follows (`opr.ts:937`).
- A worker that dies between restock and write-through loses the correction for
  good: the next restock skips the device (`opr.ts:2568`). `CorrectionApplied` allows
  one device for each death.
- A write-through problem is said to be "surfaced separately so it is not silently
  lost" (`opr.ts:2580-2586`, a missing mapping included). A corrected grade that the
  catalogue has no single SKU for is skipped without an error: the device comes back
  with its old grade and SKU, its identity fields corrected.
- "The whole point of the write-through is to land the device on the SKU that matches
  its corrected spec" (`opr.ts:2484-2486`). With the grade unchanged the SKU stays,
  whatever model, capacity or colour was corrected
  (`gradeCorrection.ts:79-97`), unless its suffix disagrees with the grade.
- A worker that dies between the flip of a receipt and its declaration leaves the
  outstanding balance undeclared (`opr.ts:2046`): `OutstandingOnRecord` speaks of
  behaviours without a death.
- The gate of READY_FOR_ZOHO tests the row that the request loaded; an edit during the
  request is not seen (`repairWorkflow.ts:195`).
- A worker that dies between the insert of a receipt and the mark of its line
  leaves the line pending, and every retry is refused as already received.
- A deletion that falls between the insert and the mark of the same receipt
  leaves the line received by a device that is gone (`inventory.ts:100`).

*Customs file*

- `lib/oprImport.ts:1099-1103` says that a form that cannot be computed is covered
  by an earlier check, and `:1126` that the misdeclaration is what gates finalise.
  No `IMP_*` check looks for missing freight; `computeCe1154` refuses it (`:638`),
  the misdeclaration check is then amber (`:1120`), and the return is received with
  an unacknowledged variance. `ReceivedAsAcknowledged` speaks of the forms that can
  be computed.
- The edit and the writes of lines are unconditional: one that read DRAFT takes
  effect after another request finalised the shipment.
- Creating a shipment is two statements; a worker that dies between leaves no
  worksheet, and the retry is refused as a duplicate.
- `reconcile-value` updates the shipment and then inserts the delta, though every
  call is said to leave one (`oprImport.ts:1505-1509`); neither it nor the
  acknowledgement tests the status, though the export proof is said to be the only
  change a finalised shipment accepts (`opr.ts:2328-2330`).
- `PATCH` accepts on a TEMP_EXPORT_STANDARD shipment the worksheet fields that
  `oprImport.ts:971-973` says it cannot have.
- An acknowledged count or weight is compared by the declared figure only
  (`oprImport.ts:228`, `:231`); discharge counts units where its comments say units
  and values (`:1363-1366`).

*Bills and cost*

- Posting reads and then inserts: two postings of one bill at once cost its devices
  twice; a manual repair cost that names a line blocks that line.
- The check for a duplicate invoice has no UNIQUE behind it; a worker that dies
  before the lines leaves an empty draft, and the retry is refused.
- A bill that declares 0 can be closed before its lines are inserted; the close
  itself tests nothing. The sum of a bill ignores quantity.
- A manifest line in another currency than the bill's is said to be converted at the
  bill's rate (`lib/manifestBillReconciliation.ts:67-70`). It is left out of the sum
  (`:97-103`) and still counted as a unit, so a manifest with a priced line left out
  may read as balanced; and a bill in pounds takes it for pounds (`:95-96`), though
  "rather than silently mixing currencies" (`:100`). `Convertible` follows the code,
  and `AmountsAddUp` claims nothing of such a manifest. A bill without a rate has the
  amounts added as they are; `buildBill` refuses such a header.
- The guard against a second purchase cost (`lib/costEntry.ts`) reads before it
  inserts.

*Sales*

- Two imports at once: the second may write its columns over those of the event
  that sold the device.
- The columns are written before a transition that may be refused or never come; a
  row that is no revenue overwrites `zoho_out_entity_number` of a SOLD device; the
  acknowledgement of QC_FAILED is of a stale snapshot.
- The sign of a price is taken from its whole part (`zohoSaleImport.ts:343`):
  "-0.50" is +50 pence.
- Codes are grouped as they are spelled and matched in upper case, so a serial
  spelled in two ways is two sales of one device.

*SKU map*

- An import is said never to fail against rows loaded before; `zoho_items.zoho_sku`
  is UNIQUE and refuses some (`Collides`).
- An edit that matches no row still writes its audit row and bumps the version.
- Migration 0032 says that every UPDATE checks and increments `row_version`: removal,
  revival and import do not check, and `EditsBuildOnWhatWasSeen` holds because those
  that matter increment.
- An audit row may name an item that was no longer the row's; a file of only a
  header removes every mapping.

*Labels*

- The same label can be printed twice: after a worker that dies between PrintNode
  and the mark, or by two "send all" at once; `afterprint` also fires on a
  cancelled dialog.
- A worker that dies at receipt before `queueLabel` leaves a device without a job.
- Two corrections at once leave a label with an old SKU and no job
  (`LabelsCatchUp` fails when `OneCorrection` is FALSE); the old grade in the audit
  and the removal flag are of a stale row; the manifest line misses the cascade
  when the worker dies before it.

*Mail*

- "An empty list genuinely means nothing was ever attempted" (`opr.ts:2831`): a
  worker that dies, or a `fetch` that throws, between the mail and its row leaves
  none, and a retry sends the mail again.
- Correspondence entered by hand is recorded as sent through Gmail on the caller's
  word.
- Stamps in two formats are compared as strings, so that of two on one day the one
  with a "T" is the later.

## 8. Not modelled

The table of components in `PROJECT.json` says it part by part.

- *Authentication, sessions, passwords*: I/O and cryptography. The role of a user is
  an input of the gates that read it.
- *Webhooks*: what a webhook reports is in `DeviceLifecycle`; registering one and
  delivering it is a `fetch` whose outcome nothing reads.
- *Catalogue*: its upload and the matching of free text to a SKU. `Labels` takes a
  catalogue as given.
- *Manifests*: upload, apply-sku, open and closed, which no receipt reads. A
  manifest's lines are the initial state of `Receiving`.
- *Authorisations and procedure policies*: constants of `CustomsFile`.
- *Bills*: the read-only views (repair-control, acquisition cost).
- *Reports, documents, settings, the front end (`public/static/app.js`)*: they read
  and render; the front end calls the routes that are modelled and keeps no state
  that a route relies on.
- *Text*: character sets, HTML, label sizes, CSV quoting.
- *Multi-tenancy (`organisation_id`)*: every query is scoped to one organisation,
  and a model is of one.
