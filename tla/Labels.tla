------------------------------- MODULE Labels -------------------------------
(***************************************************************************)
(* The label of a device and what it says: the queue of print jobs         *)
(* (routes/print.ts), the regrade of POST /inventory/grade with            *)
(* lib/gradeCorrection.ts, the owner's correction of PATCH                 *)
(* /devices/:id/correct, and the removal flags of routes/inventory.ts.     *)
(*                                                                         *)
(* A catalogue is the grade of each SKU of the one model at hand; the      *)
(* grade is also the suffix of the SKU.  An SKU outside the catalogue is a *)
(* legacy one, which has no suffix.  A label is rendered from the row of   *)
(* the device at the time, never from the payload of its job, so a job     *)
(* here has no payload.                                                    *)
(***************************************************************************)
EXTENDS DeviceStatus, Integers, Sequences, SequencesExt, FiniteSets

CONSTANTS
  Devices,
  Catalogue,      \* sku_catalog: [SKUs -> grade]
  Arrivals,       \* the [sku, grade] a device may be received with
  Visited,        \* the statuses devices are in
  Requests,
  OneCorrection,  \* TRUE: one regrade or correction is under way at a time
  MaxJobs,        \* bound: print jobs ever queued
  MaxFlags,       \* bound: open removal flags of a device
  None

VARIABLES
  row,        \* received_devices of each device, or None
  line,       \* expected_devices.sku of its manifest line
  jobs,       \* print_jobs, oldest first: [dev, status]
  queuing,    \* devices inserted, whose receive has yet to queue the job
  mode,       \* app_settings.print_mode
  flags,      \* open removal flags of each device
  spool,      \* what PrintNode took and has not printed (external)
  label,      \* the SKU on the last label printed, or None (external)
  excused,    \* devices with no label owed to them, see LabelsCatchUp
  req

vars == <<row, line, jobs, queuing, mode, flags, spool, label, excused, req>>

Grades == { Catalogue[s] : s \in DOMAIN Catalogue }
Modes  == {"browser", "printnode"}     \* "manual" is "browser" to every route

Rest    == [pc |-> "rest"]
Busy(r) == req[r] # Rest
Here    == { d \in Devices : row[d] # None }

Init ==
  /\ row = [d \in Devices |-> None]
  /\ line = [d \in Devices |-> None]
  /\ jobs = << >>
  /\ queuing = {}
  /\ mode = "browser"
  /\ flags = [d \in Devices |-> 0]
  /\ spool = [d \in Devices |-> 0]
  /\ label = [d \in Devices |-> None]
  /\ excused = {}
  /\ req = [r \in Requests |-> Rest]

-----------------------------------------------------------------------------
(* Receiving a device and queueing its label are two statements.           *)

NewJob(d) == [dev |-> d, status |-> "queued"]
Queued(d) == { j \in DOMAIN jobs : jobs[j] = NewJob(d) }

Receive(d) ==
  /\ row[d] = None
  /\ \E a \in Arrivals :
       /\ row' = [row EXCEPT ![d] =
            [sku |-> a.sku, grade |-> a.grade, status |-> "RECEIVED", pushed |-> FALSE, printed |-> FALSE]]
       /\ line' = [line EXCEPT ![d] = a.sku]
  /\ queuing' = queuing \cup {d}
  /\ UNCHANGED <<jobs, mode, flags, spool, label, excused, req>>

QueueLabel(d) ==
  /\ d \in queuing
  /\ Len(jobs) < MaxJobs
  /\ jobs' = Append(jobs, NewJob(d))
  /\ queuing' = queuing \ {d}
  /\ UNCHANGED <<row, line, mode, flags, spool, label, excused, req>>

\* auto_print is off, or the worker died: nothing queues a label later.
NoLabel(d) ==
  /\ d \in queuing
  /\ queuing' = queuing \ {d}
  /\ UNCHANGED <<row, line, jobs, mode, flags, spool, label, excused, req>>

\* Other routes move the device; closing a repair job is the push to Zoho.
Move(d, to) ==
  /\ d \in Here /\ to \in Visited
  /\ Allowed(row[d].status, to)
  /\ row' = [row EXCEPT ![d].status = to,
                        ![d].pushed = @ \/ (row[d].status = "READY_FOR_ZOHO" /\ to = "ACTIVE_INVENTORY")]
  /\ UNCHANGED <<line, jobs, queuing, mode, flags, spool, label, excused, req>>

-----------------------------------------------------------------------------
(* Regrading.                                                              *)

Suffix(sku) == IF sku \in DOMAIN Catalogue THEN Catalogue[sku] ELSE None

\* resolveCatalogSku(): one SKU must match, neither none nor several.
CatalogueMatches(g) == { s \in DOMAIN Catalogue : Catalogue[s] = g }

\* The SKU a device gets by a regrade to g, or None where the device is skipped: the
\* SKU of a new grade, or the SKU that its grade should have had.
planGradeCorrection(dev, g) ==
  LET matches == CatalogueMatches(g)
      wanted  == IF Cardinality(matches) = 1 THEN CHOOSE s \in matches : TRUE ELSE None
  IN  IF dev.grade # g THEN wanted
      ELSE IF Suffix(dev.sku) \in {None, g} \/ wanted = dev.sku THEN None
      ELSE wanted

Correcting == \E r \in Requests : Busy(r) /\ req[r].op \in {"grade", "correct"}

\* POST /inventory/grade: what the rows of the request say, read at once.
StartRegrade(r, ds, g) ==
  LET plan(d) == planGradeCorrection(row[d], g)
      hit == { d \in ds \cap Here : plan(d) # None }
  IN
  /\ ~Busy(r) /\ (OneCorrection => ~Correcting)
  /\ hit # {}
  /\ req' = [req EXCEPT ![r] =
       [op |-> "grade", pc |-> "jobs", grade |-> g, sku |-> [d \in hit |-> plan(d)],
        regraded |-> { d \in hit : row[d].grade # g },
        flagged |-> { d \in hit : /\ row[d].grade # g /\ g = "UG"
                                  /\ row[d].status = "ACTIVE_INVENTORY" },
        looks |-> { d \in hit : plan(d) # row[d].sku }, todo |-> hit, jobs |-> [d \in hit |-> {}]]]
  /\ UNCHANGED <<row, line, jobs, queuing, mode, flags, spool, label, excused>>

\* The queued jobs of one device after another.  A regrade looks for them only where
\* the SKU changes, a correction always.
ReadJobs(r) ==
  /\ Busy(r) /\ req[r].pc = "jobs"
  /\ \E d \in req[r].todo :
       req' = [req EXCEPT ![r].todo = @ \ {d},
                          ![r].jobs[d] = IF d \in req[r].looks THEN Queued(d) ELSE {},
                          ![r].pc = IF req[r].todo = {d} THEN "write" ELSE "jobs"]
  /\ UNCHANGED <<row, line, jobs, queuing, mode, flags, spool, label, excused>>

\* Mutant: what was queued is invalidated, and nothing queued in its place.
Requeued_NotAnew(r) ==
  LET outdated == UNION { req[r].jobs[d] : d \in DOMAIN req[r].jobs } IN
  [ j \in DOMAIN jobs |->
      IF j \in outdated THEN [jobs[j] EXCEPT !.status = "invalidated"] ELSE jobs[j] ]

\* Every job read is invalidated, printed meanwhile or not, and one is queued for
\* each device that had any.
Requeued(r) ==
  LET outdated == UNION { req[r].jobs[d] : d \in DOMAIN req[r].jobs }
      kept == [ j \in DOMAIN jobs |->
                  IF j \in outdated THEN [jobs[j] EXCEPT !.status = "invalidated"] ELSE jobs[j] ]
      anew == SetToSeq({ NewJob(d) : d \in { e \in DOMAIN req[r].jobs : req[r].jobs[e] # {} } })
  IN  kept \o anew

\* A correction that finds no job queued leaves the label that was printed as it is.
Excused(r) ==
  { d \in DOMAIN req[r].jobs : req[r].jobs[d] = {} /\ d \in req[r].looks /\ req[r].sku[d] # row[d].sku }
  \cup { d \in excused : d \in DOMAIN req[r].jobs => req[r].jobs[d] = {} }

\* One batch.  The removal flag goes by the status that was read.
WriteRegrade(r) ==
  /\ Busy(r) /\ req[r].op = "grade" /\ req[r].pc = "write"
  /\ row' = [d \in Devices |->
       IF d \in DOMAIN req[r].sku
         THEN [row[d] EXCEPT !.sku = req[r].sku[d],
                             !.grade = IF d \in req[r].regraded THEN req[r].grade ELSE @]
         ELSE row[d]]
  /\ \A d \in req[r].flagged : flags[d] < MaxFlags
  /\ flags' = [d \in Devices |-> IF d \in req[r].flagged THEN flags[d] + 1 ELSE flags[d]]
  /\ Len(Requeued(r)) <= MaxJobs
  /\ jobs' = Requeued(r)
  /\ excused' = Excused(r)
  /\ req' = [req EXCEPT ![r] = Rest]
  /\ UNCHANGED <<line, queuing, mode, spool, label>>

resolveFlag(d) ==
  /\ flags[d] > 0
  /\ flags' = [flags EXCEPT ![d] = @ - 1]
  /\ UNCHANGED <<row, line, jobs, queuing, mode, spool, label, excused, req>>

-----------------------------------------------------------------------------
(* The owner's correction of one device.                                   *)

CORRECTION_LOCKED_STATUSES == OPR_WORKFLOW_ONLY_STATUSES \cup {"SOLD"}

\* The lock of Zoho batches is left out: nothing writes their table.
StartCorrect(r, d, sku, cascade) ==
  /\ ~Busy(r) /\ (OneCorrection => ~Correcting)
  /\ d \in Here /\ sku \in DOMAIN Catalogue
  /\ row[d].status \notin CORRECTION_LOCKED_STATUSES
  /\ ~row[d].pushed
  /\ req' = [req EXCEPT ![r] =
       [op |-> "correct", pc |-> "jobs", grade |-> Catalogue[sku], sku |-> [e \in {d} |-> sku],
        looks |-> {d}, todo |-> {d}, jobs |-> [e \in {d} |-> {}], cascade |-> cascade]]
  /\ UNCHANGED <<row, line, jobs, queuing, mode, flags, spool, label, excused>>

WriteCorrect(r) ==
  /\ Busy(r) /\ req[r].op = "correct" /\ req[r].pc = "write"
  /\ row' = [d \in Devices |->
       IF d \in DOMAIN req[r].sku
         THEN [row[d] EXCEPT !.sku = req[r].sku[d], !.grade = req[r].grade] ELSE row[d]]
  /\ Len(Requeued(r)) <= MaxJobs
  /\ jobs' = Requeued(r)
  /\ excused' = Excused(r)
  /\ req' = [req EXCEPT ![r].pc = "line"]
  /\ UNCHANGED <<line, queuing, mode, flags, spool, label>>

\* The manifest line follows only where the owner said so.
CascadeToLine(r) ==
  /\ Busy(r) /\ req[r].pc = "line"
  /\ line' = [d \in Devices |->
       IF req[r].cascade /\ d \in DOMAIN req[r].sku THEN req[r].sku[d] ELSE line[d]]
  /\ req' = [req EXCEPT ![r] = Rest]
  /\ UNCHANGED <<row, jobs, queuing, mode, flags, spool, label, excused>>

-----------------------------------------------------------------------------
(* Printing.                                                               *)

\* POST /settings; loadSettings() has the mode "browser" until then.
SetMode(m) ==
  /\ m # mode
  /\ mode' = m
  /\ UNCHANGED <<row, line, jobs, queuing, flags, spool, label, excused, req>>

AllQueued == { j \in DOMAIN jobs : jobs[j].status = "queued" }

\* POST /send/:id takes a job of any status, POST /send-all what is queued now.  In
\* the other modes the browser is handed a page, see OpenPage.
StartSend(r, js) ==
  /\ ~Busy(r) /\ mode = "printnode" /\ js # {}
  /\ req' = [req EXCEPT ![r] = [op |-> "send", pc |-> "dispatch", todo |-> js]]
  /\ UNCHANGED <<row, line, jobs, queuing, mode, flags, spool, label, excused>>

NextJob(r) == CHOOSE j \in req[r].todo : \A k \in req[r].todo : j <= k

AfterJob(r) ==
  req' = IF req[r].todo = {NextJob(r)} THEN [req EXCEPT ![r] = Rest]
         ELSE [req EXCEPT ![r].pc = "dispatch", ![r].todo = @ \ {NextJob(r)}]

sendToPrintNode(r) ==
  /\ Busy(r) /\ req[r].pc = "dispatch"
  /\ \/ spool' = [spool EXCEPT ![jobs[NextJob(r)].dev] = 1] /\ req' = [req EXCEPT ![r].pc = "mark"]
     \/ AfterJob(r) /\ UNCHANGED spool        \* no key, no printer, or rejected
  /\ UNCHANGED <<row, line, jobs, queuing, mode, flags, label, excused>>

\* One batch: the job is sent, whatever it had become, and the device has its label.
MarkJobs(js) ==
  /\ jobs' = [j \in DOMAIN jobs |-> IF j \in js THEN [jobs[j] EXCEPT !.status = "sent"] ELSE jobs[j]]
  /\ row' = [d \in Devices |->
       IF \E j \in js : jobs[j].dev = d THEN [row[d] EXCEPT !.printed = TRUE] ELSE row[d]]

MarkSent(r) ==
  /\ Busy(r) /\ req[r].pc = "mark"
  /\ MarkJobs({NextJob(r)})
  /\ AfterJob(r)
  /\ UNCHANGED <<line, queuing, mode, flags, spool, label, excused>>

\* PrintNode fetches the page of the label and prints it, or never does.
PrintSpooled(d) ==
  /\ spool[d] > 0
  /\ spool' = [spool EXCEPT ![d] = 0]
  /\ \/ label' = [label EXCEPT ![d] = row[d].sku] /\ UNCHANGED excused
     \/ excused' = excused \cup {d} /\ UNCHANGED label
  /\ UNCHANGED <<row, line, jobs, queuing, mode, flags, req>>

\* The page of a job, of any status, printed from the browser.
OpenPage(j) ==
  /\ label' = [label EXCEPT ![jobs[j].dev] = row[jobs[j].dev].sku]
  /\ UNCHANGED <<row, line, jobs, queuing, mode, flags, spool, excused, req>>

\* POST /mark-sent/:id and /mark-sent-batch: those that are sent already are left out.
StartMark(r, js) ==
  LET unsent == { j \in js : jobs[j].status # "sent" } IN
  /\ ~Busy(r) /\ unsent # {}
  /\ req' = [req EXCEPT ![r] = [op |-> "mark", pc |-> "by_hand", todo |-> unsent]]
  /\ UNCHANGED <<row, line, jobs, queuing, mode, flags, spool, label, excused>>

MarkByHand(r) ==
  /\ Busy(r) /\ req[r].pc = "by_hand"
  /\ MarkJobs(req[r].todo)
  /\ excused' = excused \cup { jobs[j].dev : j \in req[r].todo }
  /\ req' = [req EXCEPT ![r] = Rest]
  /\ UNCHANGED <<line, queuing, mode, flags, spool, label>>

\* A worker dies between two statements.
Abandon(r) ==
  /\ Busy(r)
  /\ req' = [req EXCEPT ![r] = Rest]
  /\ UNCHANGED <<row, line, jobs, queuing, mode, flags, spool, label, excused>>

-----------------------------------------------------------------------------

Correction(r) ==
  \/ \E ds \in SUBSET Devices, g \in Grades : StartRegrade(r, ds, g)
  \/ \E d \in Devices, s \in DOMAIN Catalogue, cascade \in BOOLEAN : StartCorrect(r, d, s, cascade)
  \/ ReadJobs(r)
  \/ WriteRegrade(r)
  \/ WriteCorrect(r)
  \/ CascadeToLine(r)

Printing(r) ==
  \/ \E j \in DOMAIN jobs : StartSend(r, {j}) \/ StartMark(r, {j})
  \/ StartSend(r, AllQueued)
  \/ StartMark(r, AllQueued)
  \/ sendToPrintNode(r)
  \/ MarkSent(r)
  \/ MarkByHand(r)

Next ==
  \/ \E d \in Devices : Receive(d) \/ QueueLabel(d) \/ NoLabel(d) \/ resolveFlag(d) \/ PrintSpooled(d)
  \/ \E d \in Devices, to \in Visited : Move(d, to)
  \/ \E r \in Requests : Correction(r) \/ Printing(r) \/ Abandon(r)
  \/ \E m \in Modes : SetMode(m)
  \/ \E j \in DOMAIN jobs : OpenPage(j)

Spec == Init /\ [][Next]_vars

-----------------------------------------------------------------------------

TypeOK ==
  /\ \A d \in Here : row[d].grade \in Grades /\ row[d].status \in Visited
  /\ \A j \in DOMAIN jobs : jobs[j].dev \in Here /\ jobs[j].status \in {"queued", "sent", "invalidated"}
  /\ \A d \in Devices : label[d] # None \/ flags[d] > 0 => d \in Here

\* A label that is not that of the device's SKU is never forgotten: once a job was
\* queued for a device, then as long as its last label has another SKU, or there is
\* no label, a job is queued for it or PrintNode has one to print.  This is so for
\* every order of corrections, sends, marks and deaths of workers, a correction that
\* reads the queue before a job of it is sent included.  Excused are the devices
\* whose label was printed before a correction looked for a queued job, those marked
\* as printed by a person, and those whose print PrintNode lost.
LabelsCatchUp ==
  \A d \in Here :
    (\E j \in DOMAIN jobs : jobs[j].dev = d) /\ label[d] # row[d].sku
      => Queued(d) # {} \/ spool[d] > 0 \/ d \in excused
=============================================================================
