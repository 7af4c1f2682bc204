------------------------------ MODULE Receiving ------------------------------
(***************************************************************************)
(* Goods-in (routes/scan.ts) against the manifests (routes/manifests.ts),  *)
(* and the two routes that take a receipt back: deleting a device          *)
(* (routes/inventory.ts) and deleting a manifest with every device booked  *)
(* against it.                                                             *)
(*                                                                         *)
(*   confirm   line -> device -> insert -> mark -> log -> queue            *)
(*   bulk row  device -> line -> insert -> mark -> log -> queue            *)
(*   add       device ---------> insert ---------> log -> queue            *)
(*   delete    device -> delete -> log                                     *)
(*   wipe      wipe_devices -> wipe_manifest                               *)
(*                                                                         *)
(* "add" is force-add and manual receive, which look at no manifest line.  *)
(* The rows of a bulk scan share nothing but their request and are         *)
(* requests of their own here.  scan_events, which no route reads back, is *)
(* left out.  device_events and print_jobs refer to the device, with and   *)
(* without ON DELETE CASCADE: D1 refuses a statement that would leave a    *)
(* dangling reference.                                                     *)
(***************************************************************************)
EXTENDS Naturals, FiniteSets, Bags

CONSTANTS
  Imeis,      \* what identifies a handset
  Manifests,
  Lines,      \* the uploaded expected_devices rows
  ImeiOf,     \* their imei
  ManifestOf, \* their manifest_id
  NoImei, NoLine, NoManifest,
  Requests,   \* HTTP requests in flight
  Ops,        \* the routes in use
  Alone,      \* the routes that the staff run with no other request in flight
  Mortal,     \* the routes whose worker may die between two statements
  MaxDeaths,  \* how many do
  MaxIds      \* bound on the ids of received_devices

RouteNames == {"confirm", "bulk", "add", "delete", "wipe"}

ASSUME ReceivingAssumption ==
  /\ ImeiOf \in [Lines -> Imeis]
  /\ ManifestOf \in [Lines -> Manifests]
  /\ NoImei \notin Imeis
  /\ NoLine \notin Lines
  /\ NoManifest \notin Manifests
  /\ Ops \subseteq RouteNames /\ Alone \subseteq RouteNames /\ Mortal \subseteq RouteNames
  /\ MaxDeaths \in Nat
  /\ MaxIds \in Nat

VARIABLES
  device,  \* the received_devices row of each imei (UNIQUE)
  line,    \* the expected_devices rows
  events,  \* the device_id of each device_events row, a bag
  jobs,    \* the received_device_id of each print_jobs row, a bag
  lastId,  \* the AUTOINCREMENT of received_devices
  req,     \* the local variables of each request
  deaths   \* workers that have died

vars == <<device, line, events, jobs, lastId, req, deaths>>

Row == [id : Nat, line : Lines \cup {NoLine}, manifest : Manifests \cup {NoManifest}]

Absent == [id |-> 0]

\* A line whose manifest was deleted is "gone".
LineRow == [status : {"pending", "received", "gone"}, device : Nat]

Pending == [status |-> "pending", device |-> 0]
Gone    == [status |-> "gone", device |-> 0]

Request == [ pc       : {"device", "line", "insert", "mark", "log", "queue",
                         "delete", "wipe_devices", "wipe_manifest"},
             op       : RouteNames,
             imei     : Imeis \cup {NoImei},
             line     : Lines \cup {NoLine},
             manifest : Manifests \cup {NoManifest},
             id       : Nat ]       \* the device inserted, or to be deleted

Rest == [pc |-> "idle"]

Busy(r) == req[r] # Rest

Ids == { device[i].id : i \in Imeis } \ {0}

-----------------------------------------------------------------------------

\* The manifests are uploaded and nothing has been received.
Init ==
  /\ device = [i \in Imeis |-> Absent]
  /\ line   = [l \in Lines |-> Pending]
  /\ events = EmptyBag
  /\ jobs   = EmptyBag
  /\ lastId = 0
  /\ req    = [r \in Requests |-> Rest]
  /\ deaths = 0

Scanning == {"confirm", "bulk", "add"}

\* A receipt starts only while ids are left for all that are under way.
MayStart(r, op) ==
  /\ op \in Ops
  /\ ~Busy(r)
  /\ op \in Scanning => lastId + Cardinality({ q \in Requests : Busy(q) }) < MaxIds
  /\ \A q \in Requests \ {r} : Busy(q) => op \notin Alone /\ req[q].op \notin Alone

Finish(r)     == req' = [req EXCEPT ![r] = Rest]
Goto(r, step) == req' = [req EXCEPT ![r].pc = step]

Enter(r, op, step, i, l, m, id) ==
  /\ MayStart(r, op)
  /\ req' = [req EXCEPT ![r] =
               [pc |-> step, op |-> op, imei |-> i, line |-> l, manifest |-> m, id |-> id]]
  /\ UNCHANGED <<device, line, events, jobs, lastId, deaths>>

-----------------------------------------------------------------------------
(* The reads that come before the insert.                                  *)

\* POST /scan/confirm reads the line first,
StartConfirm(r, l) ==
  /\ line[l].status = "pending"
  /\ Enter(r, "confirm", "device", ImeiOf[l], l, ManifestOf[l], 0)

\* and then looks for the imei.
ConfirmLooksForDevice(r) ==
  /\ req[r].pc = "device"
  /\ IF device[req[r].imei] = Absent THEN Goto(r, "insert") ELSE Finish(r)
  /\ UNCHANGED <<device, line, events, jobs, lastId, deaths>>

\* A row of POST /scan/bulk looks for the imei first,
StartBulkRow(r, l) ==
  /\ device[ImeiOf[l]] = Absent
  /\ Enter(r, "bulk", "line", ImeiOf[l], l, ManifestOf[l], 0)

\* and then reads the line.
BulkReadsLine(r) ==
  /\ req[r].pc = "line"
  /\ IF line[req[r].line].status = "pending" THEN Goto(r, "insert") ELSE Finish(r)
  /\ UNCHANGED <<device, line, events, jobs, lastId, deaths>>

\* POST /scan/force-add, with or without a manifest, and POST /scan/manual.
StartAdd(r, i, m) ==
  /\ device[i] = Absent
  /\ Enter(r, "add", "insert", i, NoLine, m, 0)

-----------------------------------------------------------------------------
(* The writes of a receipt.                                                *)

\* The references of the new row exist.
RefersToRows(r) ==
  /\ req[r].line # NoLine => line[req[r].line].status # "gone"
  /\ req[r].manifest # NoManifest =>
       \E l \in Lines : ManifestOf[l] = req[r].manifest /\ line[l].status # "gone"

AfterInsert(r) == IF req[r].line = NoLine THEN "log" ELSE "mark"

InsertRow(r) ==
  /\ lastId' = lastId + 1
  /\ device' = [device EXCEPT ![req[r].imei] =
                  [id |-> lastId + 1, line |-> req[r].line, manifest |-> req[r].manifest]]
  /\ req' = [req EXCEPT ![r].pc = AfterInsert(r), ![r].id = lastId + 1]

\* Mutant: the row of another request is taken for this one's.
InsertDevice_TakesTheOther(r) ==
  /\ req[r].pc = "insert"
  /\ IF RefersToRows(r)
       THEN IF device[req[r].imei] = Absent
              THEN InsertRow(r)
              ELSE /\ req' = [req EXCEPT ![r].pc = AfterInsert(r),
                                         ![r].id = device[req[r].imei].id]
                   /\ UNCHANGED <<device, lastId>>
       ELSE Finish(r) /\ UNCHANGED <<device, lastId>>
  /\ UNCHANGED <<line, events, jobs, deaths>>

\* Mutant: INSERT OR REPLACE.
InsertDevice_Replaces(r) ==
  /\ req[r].pc = "insert"
  /\ IF RefersToRows(r)
       THEN InsertRow(r)
       ELSE Finish(r) /\ UNCHANGED <<device, lastId>>
  /\ UNCHANGED <<line, events, jobs, deaths>>

\* Refused by the UNIQUE imei when another request was first.
InsertDevice(r) ==
  /\ req[r].pc = "insert"
  /\ IF device[req[r].imei] = Absent /\ RefersToRows(r)
       THEN InsertRow(r)
       ELSE Finish(r) /\ UNCHANGED <<device, lastId>>
  /\ UNCHANGED <<line, events, jobs, deaths>>

\* Mutant: the status of a manifest is written to its line.
MarkLine_WrongStatus(r) ==
  /\ req[r].pc = "mark"
  /\ line' = [line EXCEPT ![req[r].line] = [status |-> "closed", device |-> req[r].id]]
  /\ Goto(r, "log")
  /\ UNCHANGED <<device, events, jobs, lastId, deaths>>

\* Mutant: a bulk row does not mark its line.
MarkLine_NotBulk(r) ==
  /\ req[r].pc = "mark"
  /\ line' = IF req[r].op = "bulk"
               THEN line
               ELSE [line EXCEPT ![req[r].line] =
                       [status |-> "received", device |-> req[r].id]]
  /\ Goto(r, "log")
  /\ UNCHANGED <<device, events, jobs, lastId, deaths>>

\* UPDATE expected_devices.
MarkLine(r) ==
  /\ req[r].pc = "mark"
  /\ line' = IF line[req[r].line].status = "gone"
               THEN line
               ELSE [line EXCEPT ![req[r].line] =
                       [status |-> "received", device |-> req[r].id]]
  /\ Goto(r, "log")
  /\ UNCHANGED <<device, events, jobs, lastId, deaths>>

\* logDeviceEvent(), which throws when the device is no longer there.
LogEvent(r) ==
  /\ req[r].pc = "log"
  /\ IF req[r].id \in Ids
       THEN events' = events (+) SetToBag({req[r].id}) /\ Goto(r, "queue")
       ELSE Finish(r) /\ UNCHANGED events
  /\ UNCHANGED <<device, line, jobs, lastId, deaths>>

\* The print job; force-add always queues one, the others unless told not to.
QueueJob(r) ==
  /\ req[r].pc = "queue"
  /\ jobs' \in {jobs} \cup { jobs (+) SetToBag({i}) : i \in Ids \cap {req[r].id} }
  /\ Finish(r)
  /\ UNCHANGED <<device, line, events, lastId, deaths>>

-----------------------------------------------------------------------------
(* Taking a receipt back.                                                  *)

Logged(S) == \E i \in S : BagIn(device[i].id, events)

\* Rows go, and with them their print jobs.
DeleteRows(S) ==
  LET gone == { device[i].id : i \in S } IN
  /\ device' = [i \in Imeis |-> IF i \in S THEN Absent ELSE device[i]]
  /\ jobs' = [id \in BagToSet(jobs) \ gone |-> jobs[id]]

\* DELETE /inventory/:id, up to its read.
StartDelete(r, i) ==
  /\ device[i] # Absent
  /\ Enter(r, "delete", "delete", i, device[i].line, NoManifest, device[i].id)

\* Mutant: the line is not opened again.
DeleteDevice_LineStays(r) ==
  LET i == req[r].imei IN
  /\ req[r].pc = "delete"
  /\ IF ~Logged({i})
       THEN DeleteRows({i}) /\ Goto(r, "log")
       ELSE Finish(r) /\ UNCHANGED <<device, jobs>>
  /\ UNCHANGED <<line, events, lastId, deaths>>

\* The batch, refused as a whole when device_events refers to the device.
DeleteDevice(r) ==
  LET i == req[r].imei  found == device[i].id = req[r].id IN
  /\ req[r].pc = "delete"
  /\ IF found /\ Logged({i})
       THEN Finish(r) /\ UNCHANGED <<device, line, jobs>>
       ELSE /\ line' = IF req[r].line = NoLine \/ line[req[r].line].status = "gone"
                         THEN line
                         ELSE [line EXCEPT ![req[r].line] = Pending]
            /\ DeleteRows(IF found THEN {i} ELSE {})
            /\ Goto(r, "log")
  /\ UNCHANGED <<events, lastId, deaths>>

\* DELETE /manifests/:id.
StartWipe(r, m) ==
  Enter(r, "wipe", "wipe_devices", NoImei, NoLine, m, 0)

BookedOn(m) == { i \in Imeis : device[i] # Absent /\ device[i].manifest = m }

WipeDevices(r) ==
  LET S == BookedOn(req[r].manifest) IN
  /\ req[r].pc = "wipe_devices"
  /\ IF Logged(S)
       THEN Finish(r) /\ UNCHANGED <<device, jobs>>
       ELSE DeleteRows(S) /\ Goto(r, "wipe_manifest")
  /\ UNCHANGED <<line, events, lastId, deaths>>

\* Its lines go with it; a device that refers to either is kept without.
WipeManifest(r) ==
  LET m == req[r].manifest IN
  /\ req[r].pc = "wipe_manifest"
  /\ line' = [l \in Lines |-> IF ManifestOf[l] = m THEN Gone ELSE line[l]]
  /\ device' = [i \in Imeis |->
                  IF i \in BookedOn(m)
                    THEN [device[i] EXCEPT !.manifest = NoManifest, !.line = NoLine]
                    ELSE device[i]]
  /\ Finish(r)
  /\ UNCHANGED <<events, jobs, lastId, deaths>>

Abandon(r) ==
  /\ Busy(r) /\ req[r].op \in Mortal
  /\ deaths < MaxDeaths
  /\ deaths' = deaths + 1
  /\ Finish(r)
  /\ UNCHANGED <<device, line, events, jobs, lastId>>

-----------------------------------------------------------------------------

Begin(r) ==
  \/ \E l \in Lines : StartConfirm(r, l) \/ StartBulkRow(r, l)
  \/ \E i \in Imeis :
       \/ StartDelete(r, i)
       \/ \E m \in Manifests \cup {NoManifest} : StartAdd(r, i, m)
  \/ \E m \in Manifests : StartWipe(r, m)

Step(r) ==
  \/ ConfirmLooksForDevice(r) \/ BulkReadsLine(r)
  \/ InsertDevice(r) \/ MarkLine(r) \/ LogEvent(r) \/ QueueJob(r)
  \/ DeleteDevice(r) \/ WipeDevices(r) \/ WipeManifest(r)

Next == \E r \in Requests : Begin(r) \/ Step(r) \/ Abandon(r)

Spec == Init /\ [][Next]_vars

-----------------------------------------------------------------------------
(* Properties.                                                             *)

\* Every variable has its type.
TypeOK ==
  /\ device \in [Imeis -> Row \cup {Absent}]
  /\ line \in [Lines -> LineRow]
  /\ IsABag(events) /\ BagToSet(events) \subseteq Nat
  /\ IsABag(jobs) /\ BagToSet(jobs) \subseteq Nat
  /\ lastId \in Nat
  /\ req \in [Requests -> Request \cup {Rest}]
  /\ deaths \in Nat

AtRest == \A r \in Requests : ~Busy(r)

\* However scanners race on an imei that is on two manifests, and die, a line that
\* reads received names the one device that was booked on that line; and while no
\* worker died, a device booked against a line is on the record: the line reads
\* received and names it, and the receipt is in device_events, "the record the
\* downstream OPR customs process depends on" (confirm).
LinesAndDevicesAgree ==
  /\ (\A r \in Requests : Busy(r) => req[r].op \notin {"delete", "wipe"}) =>
       \A l \in Lines : line[l].status = "received" =>
         /\ device[ImeiOf[l]].id = line[l].device
         /\ device[ImeiOf[l]].line = l
  /\ AtRest /\ deaths = 0 =>
       \A i \in Imeis : device[i] # Absent =>
         /\ BagIn(device[i].id, events)
         /\ device[i].line # NoLine => line[device[i].line].device = device[i].id

\* A handset is received once: one event and at most one label per device,
\* whoever loses the race.
ReceivedOnce ==
  /\ \A id \in BagToSet(events) : events[id] = 1
  /\ \A id \in BagToSet(jobs) : jobs[id] = 1

\* A received line stays received, by the same device, unless the device or
\* the manifest is deleted.
ReceivedLineStands ==
  [][\A l \in Lines : line[l].status = "received" /\ line'[l] # line[l] =>
       \E r \in Requests : req[r].pc \in {"delete", "wipe_manifest"} /\ req'[r] # req[r]]_vars

\* "Delete a received device. Restores the original manifest line to 'pending'
\* (so it can be re-scanned)" (inventory.ts): once the route has run the batch,
\* the device is gone and its line is pending.
DeleteRestoresLine ==
  [][\A r \in Requests : req[r].pc = "delete" /\ req'[r] # req[r] /\ deaths' = deaths =>
       /\ \A i \in Imeis : device'[i].id # req[r].id
       /\ req[r].line # NoLine => line'[req[r].line] = Pending]_vars
=============================================================================
