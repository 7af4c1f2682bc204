--------------------------- MODULE RepairWorkflow ---------------------------
(***************************************************************************)
(* In-house repair (lib/repairWorkflow.ts): repair_jobs rows next to the   *)
(* status of the device they belong to.  Every route reads the device and  *)
(* its job, writes the job, and only then calls transitionDevice(), each   *)
(* in a statement of its own:                                              *)
(*                                                                         *)
(*   idle -> job -> write -> read -> commit -> idle                        *)
(*                                                                         *)
(* so a request can be refused, or its worker can die, with the job        *)
(* written and the device not moved.  The other routes that may move the   *)
(* device (the generic transition, a Zoho sale) appear as "move".          *)
(***************************************************************************)
EXTENDS DeviceStatus, Naturals, Sequences

CONSTANTS
  Devices,     \* device ids
  Requests,    \* HTTP requests in flight
  Serialised,  \* TRUE: the staff never work on a device in two requests at once
  WorkersDie,  \* TRUE: a worker may die between two statements
  MaxJobs      \* no repair is started on a device with so many jobs

VARIABLES
  status,  \* received_devices.status
  ready,   \* the parts of the READY_FOR_ZOHO gate the device would pass
  jobs,    \* repair_jobs of each device, in id order
  req      \* the local variables of each request

vars == <<status, ready, jobs, req>>

\* "row": the columns of the device (model, capacity, grade A/B/C), tested on
\* the row loaded first.  "tables": its SKU is in the catalog and it is on no
\* DRAFT consignment, queried when the gate runs.
GateParts == {"row", "tables"}

Job == [ status : {"open", "awaiting_qc", "completed"},
         qc     : {"PENDING", "PASSED", "FAILED"},
         closed : BOOLEAN ]                        \* closed_at IS NOT NULL

Ops == {"start", "scan_back", "qc_pass", "qc_fail", "reopen", "close", "move"}

Request == [ pc    : {"job", "write", "read", "commit"},
             op    : Ops,
             dev   : Devices,
             to    : DEVICE_STATUSES,
             seen  : DEVICE_STATUSES,  \* the status in the row loaded first
             row   : BOOLEAN,          \* that row passes its part of the gate
             job   : Nat ]             \* the job found, 0 for none

Rest == [pc |-> "idle"]

Busy(r) == req[r] # Rest

-----------------------------------------------------------------------------

Live(j) == j.status \in {"open", "awaiting_qc"}

\* openRepairJobFor(): the latest live job of d, 0 for none.
LiveJobs(d) == { i \in DOMAIN jobs[d] : Live(jobs[d][i]) }

OpenRepairJobFor(d) ==
  IF LiveJobs(d) = {} THEN 0
  ELSE CHOOSE i \in LiveJobs(d) : \A j \in LiveJobs(d) : j <= i

\* ORDER BY id DESC LIMIT 1, whatever the job's status; 0 for none.
LatestJob(d) == Len(jobs[d])

REPAIR_STARTABLE_STATUSES == {"SORTING", "ACTIVE_INVENTORY"}

\* Mutant: the result of the QC is written as the status of the device.
Target_QcResult(op) ==
  CASE op \in {"start", "reopen"} -> "IN_HOUSE_REPAIR"
    [] op = "qc_pass"             -> "READY_FOR_ZOHO"
    [] op = "qc_fail"             -> "FAILED"
    [] OTHER                      -> "ACTIVE_INVENTORY"

Target(op) ==
  CASE op \in {"start", "reopen"} -> "IN_HOUSE_REPAIR"
    [] op = "qc_pass"             -> "READY_FOR_ZOHO"
    [] op = "qc_fail"             -> "QC_FAILED"
    [] OTHER                      -> "ACTIVE_INVENTORY"

-----------------------------------------------------------------------------

\* A device is modelled from the end of goods-in sorting.
Init ==
  /\ status = [d \in Devices |-> "SORTING"]
  /\ ready \in [Devices -> SUBSET GateParts]
  /\ jobs   = [d \in Devices |-> <<>>]
  /\ req    = [r \in Requests |-> Rest]

NobodyElse(d) == Serialised => \A q \in Requests : Busy(q) => req[q].dev # d

Goto(r, step) == req' = [req EXCEPT ![r].pc = step]
Finish(r)     == req' = [req EXCEPT ![r] = Rest]

Enter(r, d, op, to, step, job) ==
  /\ ~Busy(r)
  /\ NobodyElse(d)
  /\ req' = [req EXCEPT ![r] = [ pc |-> step, op |-> op, dev |-> d, to |-> to,
                                 seen |-> status[d], row |-> "row" \in ready[d],
                                 job |-> job ]]
  /\ UNCHANGED <<status, ready, jobs>>

(* The first statement of each route: loadDevice(), and its refusals.      *)

StartRepair(r, d) ==
  /\ Len(jobs[d]) < MaxJobs
  /\ status[d] \in REPAIR_STARTABLE_STATUSES
  /\ Enter(r, d, "start", Target("start"), "job", 0)

ScanBackRepair(r, d) ==
  LET j == OpenRepairJobFor(d) IN
  /\ j # 0
  /\ jobs[d][j].status = "open"
  /\ Enter(r, d, "scan_back", status[d], "write", j)

RecordQc(r, d) ==
  \E op \in {"qc_pass", "qc_fail"} : Enter(r, d, op, Target(op), "job", 0)

ReopenRepair(r, d) ==
  /\ status[d] = "QC_FAILED"
  /\ Enter(r, d, "reopen", Target("reopen"), "job", 0)

CloseToInventory(r, d) ==
  /\ status[d] \in {"READY_FOR_ZOHO", "ACTIVE_INVENTORY"}
  /\ Enter(r, d, "close", Target("close"), "job", 0)

\* Another route moves the device: straight to transitionDevice().
Move(r, d) ==
  /\ status[d] \notin WorkflowOnly
  /\ \E to \in {"ACTIVE_INVENTORY", "READY_FOR_EXPORT", "SOLD"} :
       Enter(r, d, "move", to, "read", 0)

ImportSale(r, d) == Enter(r, d, "move", "SOLD", "read", 0)

(* The second statement: the job, and the refusals that depend on it.      *)

\* Mutant: a live job does not stop a second one.
StartFindsNoJob_NoCheck(r) ==
  /\ req[r].pc = "job"
  /\ req[r].op = "start"
  /\ Goto(r, "write")
  /\ UNCHANGED <<status, ready, jobs>>

\* Mutant: the device is moved and the job is never inserted.
StartFindsNoJob_NoInsert(r) ==
  /\ req[r].pc = "job"
  /\ req[r].op = "start"
  /\ IF OpenRepairJobFor(req[r].dev) = 0 THEN Goto(r, "read") ELSE Finish(r)
  /\ UNCHANGED <<status, ready, jobs>>

StartFindsNoJob(r) ==
  /\ req[r].pc = "job"
  /\ req[r].op = "start"
  /\ IF OpenRepairJobFor(req[r].dev) = 0 THEN Goto(r, "write") ELSE Finish(r)
  /\ UNCHANGED <<status, ready, jobs>>

\* checkReadyForZohoGate().
GatePasses(r) == req[r].row /\ "tables" \in ready[req[r].dev]

\* Mutant: a pass does not go through checkReadyForZohoGate().
QcFindsJob_NoGate(r) ==
  LET j == OpenRepairJobFor(req[r].dev) IN
  /\ req[r].pc = "job"
  /\ req[r].op \in {"qc_pass", "qc_fail"}
  /\ IF j # 0 /\ jobs[req[r].dev][j].status = "awaiting_qc"
       THEN req' = [req EXCEPT ![r].pc = "write", ![r].job = j]
       ELSE Finish(r)
  /\ UNCHANGED <<status, ready, jobs>>

\* Mutant: the device is moved before the result is on the job.
QcFindsJob_MovesFirst(r) ==
  LET j == OpenRepairJobFor(req[r].dev) IN
  /\ req[r].pc = "job"
  /\ req[r].op \in {"qc_pass", "qc_fail"}
  /\ IF j # 0 /\ jobs[req[r].dev][j].status = "awaiting_qc"
              /\ (req[r].op = "qc_pass" => GatePasses(r))
       THEN req' = [req EXCEPT ![r].pc = "read", ![r].job = j]
       ELSE Finish(r)
  /\ UNCHANGED <<status, ready, jobs>>

QcFindsJob(r) ==
  LET j == OpenRepairJobFor(req[r].dev) IN
  /\ req[r].pc = "job"
  /\ req[r].op \in {"qc_pass", "qc_fail"}
  /\ IF /\ j # 0
        /\ jobs[req[r].dev][j].status = "awaiting_qc"
        /\ req[r].op = "qc_pass" => GatePasses(r)
       THEN req' = [req EXCEPT ![r].pc = "write", ![r].job = j]
       ELSE Finish(r)
  /\ UNCHANGED <<status, ready, jobs>>

ReopenFindsJob(r) ==
  LET j == LatestJob(req[r].dev) IN
  /\ req[r].pc = "job"
  /\ req[r].op = "reopen"
  /\ req' = [req EXCEPT ![r].pc = IF j = 0 THEN "read" ELSE "write", ![r].job = j]
  /\ UNCHANGED <<status, ready, jobs>>

\* A device already in stock is refused, or answered as already closed.
CloseFindsJob(r) ==
  LET d == req[r].dev  j == LatestJob(d) IN
  /\ req[r].pc = "job"
  /\ req[r].op = "close"
  /\ IF req[r].seen # "READY_FOR_ZOHO" THEN Finish(r)
     ELSE req' = [req EXCEPT
                    ![r].pc = IF j # 0 /\ ~jobs[d][j].closed THEN "write" ELSE "read",
                    ![r].job = j]
  /\ UNCHANGED <<status, ready, jobs>>

(* The third statement: the job row is written, by id and unconditionally. *)

Fresh == [status |-> "open", qc |-> "PENDING", closed |-> FALSE]

InsertJob(r) ==
  /\ req[r].pc = "write"
  /\ req[r].op = "start"
  /\ jobs' = [jobs EXCEPT ![req[r].dev] = Append(@, Fresh)]
  /\ Goto(r, "read")
  /\ UNCHANGED <<status, ready>>

\* Mutant: a pass does not set closed_at.
Written_NotClosed(op, j) ==
  CASE op = "scan_back" -> [j EXCEPT !.status = "awaiting_qc"]
    [] op = "qc_pass"   -> [j EXCEPT !.status = "completed", !.qc = "PASSED"]
    [] op = "qc_fail"   -> [j EXCEPT !.status = "open", !.qc = "FAILED"]
    [] op = "reopen"    -> Fresh
    [] op = "close"     -> [j EXCEPT !.status = "completed", !.closed = TRUE]

Written(op, j) ==
  CASE op = "scan_back" -> [j EXCEPT !.status = "awaiting_qc"]
    [] op = "qc_pass"   -> [status |-> "completed", qc |-> "PASSED", closed |-> TRUE]
    [] op = "qc_fail"   -> [j EXCEPT !.status = "open", !.qc = "FAILED"]
    [] op = "reopen"    -> Fresh
    [] op = "close"     -> [j EXCEPT !.status = "completed", !.closed = TRUE]

UpdateJob(r) ==
  /\ req[r].pc = "write"
  /\ req[r].op # "start"
  /\ jobs' = [jobs EXCEPT ![req[r].dev][req[r].job] = Written(req[r].op, @)]
  /\ IF req[r].op = "scan_back" THEN Finish(r) ELSE Goto(r, "read")
  /\ UNCHANGED <<status, ready>>

(* transitionDevice(): it throws when the edge is not in the table, and    *)
(* nothing undoes the job.                                                 *)

ReadDevice(r) ==
  /\ req[r].pc = "read"
  /\ IF Allowed(status[req[r].dev], req[r].to) THEN Goto(r, "commit") ELSE Finish(r)
  /\ UNCHANGED <<status, ready, jobs>>

CommitTransition(r) ==
  /\ req[r].pc = "commit"
  /\ status' = [status EXCEPT ![req[r].dev] = req[r].to]
  /\ Finish(r)
  /\ UNCHANGED <<ready, jobs>>

Abandon(r) ==
  /\ WorkersDie
  /\ Busy(r)
  /\ Finish(r)
  /\ UNCHANGED <<status, ready, jobs>>

\* A grade correction, a catalog edit or a consignment line changes what the
\* READY_FOR_ZOHO gate would say.
EditDevice(d) ==
  /\ NobodyElse(d)
  /\ \E parts \in SUBSET GateParts : ready' = [ready EXCEPT ![d] = parts]
  /\ UNCHANGED <<status, jobs, req>>

-----------------------------------------------------------------------------

Begin(r, d) ==
  \/ StartRepair(r, d) \/ ScanBackRepair(r, d) \/ RecordQc(r, d)
  \/ ReopenRepair(r, d) \/ CloseToInventory(r, d) \/ Move(r, d) \/ ImportSale(r, d)

Step(r) ==
  \/ StartFindsNoJob(r) \/ QcFindsJob(r) \/ ReopenFindsJob(r) \/ CloseFindsJob(r)
  \/ InsertJob(r) \/ UpdateJob(r) \/ ReadDevice(r) \/ CommitTransition(r) \/ Abandon(r)

Next ==
  \/ \E r \in Requests : Step(r) \/ \E d \in Devices : Begin(r, d)
  \/ \E d \in Devices : EditDevice(d)

Spec == Init /\ [][Next]_vars

-----------------------------------------------------------------------------
(* Properties.                                                             *)

\* Every variable has its type.
TypeOK ==
  /\ status \in [Devices -> DEVICE_STATUSES]
  /\ ready \in [Devices -> SUBSET GateParts]
  /\ jobs \in [Devices -> Seq(Job)]
  /\ req \in [Requests -> Request \cup {Rest}]

AtRest(d) == \A r \in Requests : Busy(r) => req[r].dev # d

\* A device never has two live repair jobs, wherever workers die: the retry of
\* a start, a scan-back or a reopen always finds the job already there
\* (openRepairJobFor() before the insert in startRepair()).
OneLiveJob ==
  \A d \in Devices : \A i, j \in LiveJobs(d) : i = j

\* A job carries closed_at exactly while it is completed, through any number of
\* failed QC rounds, reopens and retries.
ClosedIffCompleted ==
  \A d \in Devices : \A i \in DOMAIN jobs[d] :
    jobs[d][i].closed <=> jobs[d][i].status = "completed"

EntersZoho(d) == status[d] # "READY_FOR_ZOHO" /\ status'[d] = "READY_FOR_ZOHO"

\* "Gate for entering READY_FOR_ZOHO (all must hold)" (the slice-1 design): when a
\* device enters READY_FOR_ZOHO its job is completed and its QC passed (1 and 2), and
\* its data pass the gate at that moment (3 to 6), not only when checkReadyForZohoGate()
\* looked at them.
IntoZohoThroughTheGate ==
  [][\A d \in Devices : EntersZoho(d) =>
       /\ jobs[d] # <<>>
       /\ jobs[d][Len(jobs[d])].status = "completed"
       /\ jobs[d][Len(jobs[d])].qc = "PASSED"
       /\ ready[d] = GateParts]_vars

\* A device waiting in IN_HOUSE_REPAIR or QC_FAILED has a job that scan-back and
\* QC, or reopen, can pick up; the only way to be stranded is a worker that died
\* after it recorded a pass and before it moved the device.
RepairIsResumable ==
  \A d \in Devices :
    AtRest(d) =>
      /\ status[d] = "IN_HOUSE_REPAIR" =>
           LiveJobs(d) # {} \/ (WorkersDie /\ jobs[d] # <<>> /\ jobs[d][LatestJob(d)].qc = "PASSED")
      /\ status[d] = "QC_FAILED" => jobs[d] # <<>>

\* "there is no window where the device reads ACTIVE_INVENTORY while its own
\* repair_jobs row still claims ... 'awaiting_qc'/'open'" (repairWorkflow.ts).
NoLiveJobInStock ==
  \A d \in Devices :
    AtRest(d) /\ status[d] = "ACTIVE_INVENTORY" => LiveJobs(d) = {}
=============================================================================
