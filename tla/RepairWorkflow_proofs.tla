------------------------ MODULE RepairWorkflow_proofs ------------------------
(***************************************************************************)
(* Proofs about in-house repair, for any number of devices, requests and   *)
(* jobs and with workers that may die: while no two requests work on a     *)
(* device (Serialised), its jobs are consistent, a device in repair can be *)
(* resumed, and READY_FOR_ZOHO is entered through its gate.                *)
(*                                                                         *)
(* The invariants of the runs speak of jobs and statuses alone.  What      *)
(* makes them inductive is what a request in flight knows (Knows): that    *)
(* the job it is about to write is the latest one and in the state it was  *)
(* found in, and that what it will commit is backed by that job.           *)
(***************************************************************************)
EXTENDS RepairWorkflow, TLAPS

Latest(d) == jobs[d][Len(jobs[d])]

LatestIsLive(d) == jobs[d] # <<>> /\ Live(Latest(d))

PassRecorded(d) ==
  jobs[d] # <<>> /\ Latest(d).status = "completed" /\ Latest(d).qc = "PASSED"

\* What request r knows of its device, by the step it has reached.
Knows(r) ==
  LET q == req[r]  d == q.dev IN
  /\ q.seen = status[d]
  /\ q.row = ("row" \in ready[d])
  /\ q.op = "scan_back" => q.pc = "write"
  /\ q.op = "move" =>
       q.pc \in {"read", "commit"} /\ q.to \notin REPAIR_WORKFLOW_ONLY_STATUSES
  /\ q.op \notin {"scan_back", "move"} => q.to = Target(q.op)
  /\ q.op = "reopen" => q.seen = "QC_FAILED"
  /\ q.op = "close" /\ q.pc # "job" => q.seen = "READY_FOR_ZOHO"
  /\ q.pc = "write" =>
       /\ q.op = "start" => ~LatestIsLive(d)
       /\ q.op # "start" => jobs[d] # <<>> /\ q.job = Len(jobs[d])
       /\ q.op \in {"scan_back", "qc_pass", "qc_fail"} => LatestIsLive(d)
       /\ q.op = "qc_pass" => ready[d] = GateParts
  /\ q.pc \in {"read", "commit"} =>
       /\ q.op \in {"start", "reopen"} => LatestIsLive(d)
       /\ q.op = "qc_fail" => jobs[d] # <<>>
       /\ q.op = "qc_pass" => PassRecorded(d) /\ ready[d] = GateParts

\* No two requests work on the same device.
Alone ==
  \A q, r \in Requests : Busy(q) /\ Busy(r) /\ req[q].dev = req[r].dev => q = r

\* Only the latest job of d may be live, and only a completed one is closed.
JobsOk(d) ==
  \A i \in DOMAIN jobs[d] :
    /\ Live(jobs[d][i]) => i = Len(jobs[d])
    /\ jobs[d][i].closed <=> jobs[d][i].status = "completed"

\* A request that recorded a pass and has yet to move the device.
PassInFlight(d) ==
  \E r \in Requests : /\ Busy(r) /\ req[r].dev = d
                      /\ req[r].op = "qc_pass" /\ req[r].pc \in {"read", "commit"}

Resumable(d) ==
  /\ status[d] = "IN_HOUSE_REPAIR" =>
       LatestIsLive(d) \/ (PassRecorded(d) /\ (WorkersDie \/ PassInFlight(d)))
  /\ status[d] = "QC_FAILED" => jobs[d] # <<>>

\* The inductive invariant.
IInv ==
  /\ TypeOK
  /\ Alone
  /\ \A r \in Requests : Busy(r) => Knows(r)
  /\ \A d \in Devices : JobsOk(d) /\ Resumable(d)

-----------------------------------------------------------------------------
(* Facts about the rows and the requests.                                  *)

\* A request that is busy carries the locals of a route.
LEMMA BusyIsRequest ==
  ASSUME TypeOK, NEW r \in Requests
  PROVE  /\ Busy(r) => req[r] \in Request
         /\ req[r].pc \in {"job", "write", "read", "commit"} => Busy(r)
BY DEF TypeOK, Busy, Rest, Request

\* The jobs of a device are a finite sequence, whose last element is the latest job.
LEMMA JobFacts ==
  ASSUME TypeOK, NEW d \in Devices
  PROVE  /\ jobs[d] \in Seq(Job)
         /\ Len(jobs[d]) \in Nat
         /\ DOMAIN jobs[d] = 1..Len(jobs[d])
         /\ \A i \in DOMAIN jobs[d] : jobs[d][i] \in Job
         /\ jobs[d] # <<>> => Len(jobs[d]) \in DOMAIN jobs[d]
BY DEF TypeOK

\* openRepairJobFor() finds the latest job when that is live, and nothing when not.
LEMMA TheLiveJob ==
  ASSUME TypeOK, NEW d \in Devices, JobsOk(d)
  PROVE  /\ LatestIsLive(d) => OpenRepairJobFor(d) = Len(jobs[d])
         /\ ~LatestIsLive(d) => OpenRepairJobFor(d) = 0
<1>1. CASE LatestIsLive(d)
  <2>1. LiveJobs(d) = {Len(jobs[d])}
    BY <1>1, JobFacts DEF LiveJobs, JobsOk, LatestIsLive, Latest
  <2>2. \E i \in LiveJobs(d) : \A j \in LiveJobs(d) : j <= i
    BY <2>1, JobFacts
  <2> QED
    BY <1>1, <2>1, <2>2 DEF OpenRepairJobFor
<1>2. CASE ~LatestIsLive(d)
  <2>1. LiveJobs(d) = {}
    BY <1>2, JobFacts DEF LiveJobs, JobsOk, LatestIsLive, Latest
  <2> QED
    BY <1>2, <2>1 DEF OpenRepairJobFor
<1> QED
  BY <1>1, <1>2

\* A step of one request, on the one device it is alone on, keeps the invariant when
\* it keeps what concerns the two of them.
LEMMA OneDeviceStep ==
  ASSUME IInv, NEW r \in Requests, NEW d \in Devices,
         \A q \in Requests : Busy(q) /\ req[q].dev = d => q = r,
         Busy(r) => req[r].dev = d,
         TypeOK',
         \A q \in Requests : q # r => req'[q] = req[q],
         \A c \in Devices : c # d =>
           status'[c] = status[c] /\ ready'[c] = ready[c] /\ jobs'[c] = jobs[c],
         Busy(r)' => req'[r].dev = d /\ Knows(r)',
         JobsOk(d)', Resumable(d)'
  PROVE  IInv'
<1>1. Alone'
  BY DEF IInv, Alone, Busy
<1>2. ASSUME NEW q \in Requests, Busy(q)'
      PROVE  Knows(q)'
  <2>1. CASE q = r
    BY <1>2, <2>1
  <2>2. CASE q # r
    <3>1. Busy(q) /\ req'[q] = req[q] /\ req[q].dev # d
      BY <1>2, <2>2 DEF Busy
    <3>2. req[q].dev \in Devices
      BY <3>1, BusyIsRequest DEF IInv, Request
    <3>3. Knows(q)
      BY <3>1 DEF IInv
    <3> QED
      BY <3>1, <3>2, <3>3 DEF Knows, LatestIsLive, PassRecorded, Latest
  <2> QED
    BY <2>1, <2>2
<1>3. ASSUME NEW c \in Devices, c # d
      PROVE  JobsOk(c)' /\ Resumable(c)'
  <2>1. JobsOk(c) /\ Resumable(c)
    BY DEF IInv
  <2>2. JobsOk(c)'
    BY <1>3, <2>1 DEF JobsOk
  <2>3. PassInFlight(c) => PassInFlight(c)'
    BY <1>3 DEF PassInFlight, Busy
  <2> QED
    BY <1>3, <2>1, <2>2, <2>3 DEF Resumable, LatestIsLive, PassRecorded, Latest
<1> QED
  BY <1>1, <1>2, <1>3 DEF IInv

-----------------------------------------------------------------------------
(* The first statement of a route.                                         *)

\* A request that enters finds nobody else on its device, which stays as it was.
LEMMA EnterStep ==
  ASSUME Serialised, IInv, NEW r \in Requests, NEW d \in Devices,
         NEW op \in Ops, NEW to \in DEVICE_STATUSES,
         NEW step \in {"job", "write", "read"}, NEW job \in Nat,
         Enter(r, d, op, to, step, job),
         Knows(r)'
  PROVE  IInv'
<1>1. \A q \in Requests : ~(Busy(q) /\ req[q].dev = d)
  BY DEF Enter, NobodyElse
<1>2. req'[r] = [ pc |-> step, op |-> op, dev |-> d, to |-> to,
                  seen |-> status[d], row |-> "row" \in ready[d], job |-> job ]
  BY DEF Enter, IInv, TypeOK
<1>3. req'[r] \in Request
  BY <1>2 DEF Request, IInv, TypeOK
<1>4. TypeOK'
  BY <1>3 DEF Enter, IInv, TypeOK
<1>5. JobsOk(d)'
  BY DEF Enter, IInv, JobsOk
<1>6. Resumable(d)'
  BY <1>1 DEF Enter, IInv, Resumable, PassInFlight, LatestIsLive, PassRecorded, Latest
<1>7. ~Busy(r) /\ req'[r].dev = d /\ \A q \in Requests : q # r => req'[q] = req[q]
  BY <1>2 DEF Enter, IInv, TypeOK
<1> QED
  BY <1>1, <1>4, <1>5, <1>6, <1>7, OneDeviceStep DEF Enter

\* The locals a request enters with.
LEMMA Entered ==
  ASSUME TypeOK, NEW r \in Requests, NEW d \in Devices, NEW op, NEW to, NEW step, NEW job,
         Enter(r, d, op, to, step, job)
  PROVE  /\ req'[r].pc = step /\ req'[r].op = op /\ req'[r].dev = d /\ req'[r].to = to
         /\ req'[r].seen = status[d] /\ req'[r].row = ("row" \in ready[d])
         /\ req'[r].job = job
         /\ UNCHANGED <<status, ready, jobs>>
BY DEF Enter, TypeOK

\* Every route enters with what it has to know.
LEMMA BeginStep ==
  ASSUME Serialised, IInv, NEW r \in Requests, NEW d \in Devices, Begin(r, d)
  PROVE  IInv'
<1>1. TypeOK
  BY DEF IInv
<1>2. CASE StartRepair(r, d)
  <2>1. Enter(r, d, "start", Target("start"), "job", 0)
    BY <1>2 DEF StartRepair
  <2>2. Knows(r)'
    BY <1>1, <2>1, Entered DEF Knows
  <2> QED
    BY <2>1, <2>2, EnterStep DEF Ops, Target, DEVICE_STATUSES
<1>3. CASE ScanBackRepair(r, d)
  <2> DEFINE j == OpenRepairJobFor(d)
  <2>1. LatestIsLive(d) /\ j = Len(jobs[d]) /\ jobs[d] # <<>> /\ j \in Nat
    BY <1>3, TheLiveJob, JobFacts DEF ScanBackRepair, IInv, LatestIsLive
  <2>2. Enter(r, d, "scan_back", status[d], "write", j)
    BY <1>3 DEF ScanBackRepair
  <2>3. Knows(r)'
    <3>1. /\ req'[r].pc = "write" /\ req'[r].op = "scan_back" /\ req'[r].dev = d
          /\ req'[r].seen = status[d] /\ req'[r].row = ("row" \in ready[d])
          /\ req'[r].job = Len(jobs[d])
          /\ UNCHANGED <<status, ready, jobs>>
      BY <1>1, <2>1, <2>2 DEF Enter, TypeOK
    <3> QED
      BY <2>1, <3>1 DEF Knows, LatestIsLive, Latest
  <2> QED
    BY <2>1, <2>2, <2>3, EnterStep DEF Ops, IInv, TypeOK
<1>4. CASE RecordQc(r, d)
  <2>1. PICK op \in {"qc_pass", "qc_fail"} : Enter(r, d, op, Target(op), "job", 0)
    BY <1>4 DEF RecordQc
  <2>2. Knows(r)'
    BY <1>1, <2>1, Entered DEF Knows
  <2> QED
    BY <2>1, <2>2, EnterStep DEF Ops, Target, DEVICE_STATUSES
<1>5. CASE ReopenRepair(r, d)
  <2>1. Enter(r, d, "reopen", Target("reopen"), "job", 0) /\ status[d] = "QC_FAILED"
    BY <1>5 DEF ReopenRepair
  <2>2. Knows(r)'
    BY <1>1, <2>1, Entered DEF Knows
  <2> QED
    BY <2>1, <2>2, EnterStep DEF Ops, Target, DEVICE_STATUSES
<1>6. CASE CloseToInventory(r, d)
  <2>1. Enter(r, d, "close", Target("close"), "job", 0)
    BY <1>6 DEF CloseToInventory
  <2>2. Knows(r)'
    BY <1>1, <2>1, Entered DEF Knows
  <2> QED
    BY <2>1, <2>2, EnterStep DEF Ops, Target, DEVICE_STATUSES
<1>7. CASE Move(r, d) \/ ImportSale(r, d)
  <2>1. PICK to \in {"ACTIVE_INVENTORY", "READY_FOR_EXPORT", "SOLD"} :
          Enter(r, d, "move", to, "read", 0)
    BY <1>7 DEF Move, ImportSale
  <2>2. Knows(r)'
    BY <1>1, <2>1, Entered DEF Knows, REPAIR_WORKFLOW_ONLY_STATUSES
  <2> QED
    BY <2>1, <2>2, EnterStep DEF Ops, DEVICE_STATUSES
<1> QED
  BY <1>2, <1>3, <1>4, <1>5, <1>6, <1>7 DEF Begin

-----------------------------------------------------------------------------
(* The later statements.                                                   *)

\* The device of a request in flight is its own.
LEMMA OwnDevice ==
  ASSUME IInv, NEW r \in Requests, Busy(r)
  PROVE  /\ req[r] \in Request
         /\ req[r].dev \in Devices
         /\ Knows(r) /\ JobsOk(req[r].dev) /\ Resumable(req[r].dev)
         /\ \A q \in Requests : Busy(q) /\ req[q].dev = req[r].dev => q = r
<1>1. req[r] \in Request
  BY BusyIsRequest DEF IInv
<1> QED
  BY <1>1 DEF IInv, Alone, Request

\* A statement that only reads: the request goes on with new locals, or ends.
LEMMA ReadStep ==
  ASSUME IInv, NEW r \in Requests, Busy(r), NEW d \in Devices, req[r].dev = d,
         NEW x \in Request \cup {Rest},
         req' = [req EXCEPT ![r] = x],
         UNCHANGED <<status, ready, jobs>>,
         x # Rest => x.dev = d /\ Knows(r)',
         req[r].op = "qc_pass" /\ req[r].pc \in {"read", "commit"}
           /\ status[d] = "IN_HOUSE_REPAIR"
           => WorkersDie \/ (x # Rest /\ x.op = "qc_pass" /\ x.pc \in {"read", "commit"})
  PROVE  IInv'
<1>1. /\ req'[r] = x
      /\ \A q \in Requests : q # r => req'[q] = req[q]
      /\ TypeOK'
  BY DEF IInv, TypeOK
<1>2. JobsOk(d)'
  BY OwnDevice DEF JobsOk
<1>3. Resumable(d)'
  <2>1. PassInFlight(d) /\ status[d] = "IN_HOUSE_REPAIR" => WorkersDie \/ PassInFlight(d)'
    BY <1>1, OwnDevice DEF PassInFlight, Busy
  <2> QED
    BY <2>1, OwnDevice DEF Resumable, LatestIsLive, PassRecorded, Latest
<1>4. Busy(r)' => req'[r].dev = d /\ Knows(r)'
  BY <1>1 DEF Busy
<1> QED
  BY <1>1, <1>2, <1>3, <1>4, OwnDevice, OneDeviceStep

\* The jobs a route looks for are those of its device as they are.
LEMMA FindsJobStep ==
  ASSUME IInv, NEW r \in Requests, NEW d \in Devices, req[r].dev = d,
         StartFindsNoJob(r) \/ QcFindsJob(r) \/ ReopenFindsJob(r) \/ CloseFindsJob(r)
  PROVE  IInv'
<1>1. Busy(r) /\ req[r].pc = "job"
  BY BusyIsRequest DEF IInv, StartFindsNoJob, QcFindsJob, ReopenFindsJob, CloseFindsJob
<1>2. /\ req[r] \in Request
      /\ Knows(r) /\ JobsOk(d) /\ Resumable(d)
      /\ UNCHANGED <<status, ready, jobs>>
  BY <1>1, OwnDevice DEF StartFindsNoJob, QcFindsJob, ReopenFindsJob, CloseFindsJob
<1>3. /\ LatestIsLive(d) => OpenRepairJobFor(d) = Len(jobs[d]) /\ Len(jobs[d]) # 0
      /\ ~LatestIsLive(d) => OpenRepairJobFor(d) = 0
      /\ Len(jobs[d]) \in Nat /\ (jobs[d] = <<>> <=> Len(jobs[d]) = 0)
  BY <1>2, TheLiveJob, JobFacts DEF IInv, LatestIsLive
<1>4. CASE Finish(r)
  BY <1>1, <1>2, <1>4, ReadStep DEF Finish
<1>5. ASSUME NEW step \in {"write", "read"}, NEW job \in Nat,
             req' = [req EXCEPT ![r] = [@ EXCEPT !.pc = step, !.job = job]],
             Knows(r)'
      PROVE  IInv'
  <2> DEFINE x == [req[r] EXCEPT !.pc = step, !.job = job]
  <2>1. x \in Request /\ x.dev = d
    BY <1>2 DEF Request
  <2>2. req' = [req EXCEPT ![r] = x]
    BY <1>5
  <2> QED
    BY <1>1, <1>2, <1>5, <2>1, <2>2, ReadStep
<1>6. ASSUME NEW step \in {"write", "read"}, NEW job \in Nat,
             req' = [req EXCEPT ![r] = [@ EXCEPT !.pc = step, !.job = job]]
      PROVE  req'[r] = [req[r] EXCEPT !.pc = step, !.job = job]
  BY <1>6 DEF IInv, TypeOK
<1>7. CASE StartFindsNoJob(r) /\ ~Finish(r)
  <2>1. req' = [req EXCEPT ![r] = [@ EXCEPT !.pc = "write", !.job = req[r].job]]
        /\ req[r].job \in Nat /\ ~LatestIsLive(d) /\ req[r].op = "start"
    BY <1>2, <1>3, <1>7 DEF StartFindsNoJob, Goto, Request
  <2>2. req'[r] = [req[r] EXCEPT !.pc = "write", !.job = req[r].job]
    BY <1>6, <2>1
  <2>3. Knows(r)'
    BY <1>2, <2>1, <2>2 DEF Knows, LatestIsLive, Latest, Request
  <2> QED
    BY <1>5, <2>1, <2>3
<1>8. CASE QcFindsJob(r) /\ ~Finish(r)
  <2> DEFINE j == OpenRepairJobFor(d)
  <2>1. /\ req' = [req EXCEPT ![r] = [@ EXCEPT !.pc = "write", !.job = j]]
        /\ j # 0 /\ req[r].op \in {"qc_pass", "qc_fail"}
        /\ req[r].op = "qc_pass" => GatePasses(r)
    BY <1>2, <1>8 DEF QcFindsJob
  <2>2. LatestIsLive(d) /\ jobs[d] # <<>> /\ j = Len(jobs[d]) /\ j \in Nat
    BY <1>3, <2>1 DEF LatestIsLive
  <2>3. req[r].op = "qc_pass" => ready[d] = GateParts
    BY <1>2, <2>1 DEF GatePasses, Knows, GateParts, IInv, TypeOK
  <2>4. req'[r] = [req[r] EXCEPT !.pc = "write", !.job = j]
    BY <1>6, <2>1, <2>2
  <2>5. Knows(r)'
    <3>1. /\ req'[r].pc = "write" /\ req'[r].job = Len(jobs[d]) /\ req'[r].dev = d
          /\ req'[r].op = req[r].op /\ req'[r].to = req[r].to
          /\ req'[r].seen = req[r].seen /\ req'[r].row = req[r].row
      BY <1>2, <2>2, <2>4 DEF Request
    <3> HIDE DEF j
    <3> QED
      BY <1>2, <2>1, <2>2, <2>3, <3>1 DEF Knows, LatestIsLive, Latest
  <2> QED
    BY <1>5, <2>1, <2>2, <2>5
<1>9. CASE ReopenFindsJob(r)
  <2> DEFINE j == LatestJob(d)
  <2>1. jobs[d] # <<>> /\ req[r].op = "reopen"
    BY <1>2, <1>9 DEF ReopenFindsJob, Knows, Resumable
  <2>2. j # 0 /\ j = Len(jobs[d]) /\ j \in Nat
    BY <1>3, <2>1 DEF LatestJob
  <2>3. req' = [req EXCEPT ![r] = [@ EXCEPT !.pc = "write", !.job = j]]
    BY <1>9, <2>2 DEF ReopenFindsJob
  <2>4. req'[r] = [req[r] EXCEPT !.pc = "write", !.job = j]
    BY <1>6, <2>2, <2>3
  <2>5. Knows(r)'
    BY <1>2, <2>1, <2>2, <2>4 DEF Knows, LatestIsLive, Latest, Request
  <2> QED
    BY <1>5, <2>2, <2>3, <2>5
<1>10. CASE CloseFindsJob(r) /\ ~Finish(r)
  <2> DEFINE j == LatestJob(d)
             step == IF j # 0 /\ ~jobs[d][j].closed THEN "write" ELSE "read"
  <2>1. /\ req' = [req EXCEPT ![r] = [@ EXCEPT !.pc = step, !.job = j]]
        /\ req[r].seen = "READY_FOR_ZOHO" /\ req[r].op = "close"
    BY <1>2, <1>10 DEF CloseFindsJob
  <2>2. j = Len(jobs[d]) /\ j \in Nat /\ (step = "write" => jobs[d] # <<>>)
    BY <1>3 DEF LatestJob
  <2>3. step \in {"write", "read"}
    OBVIOUS
  <2>4. req'[r] = [req[r] EXCEPT !.pc = step, !.job = j]
    BY <1>6, <2>1, <2>2, <2>3
  <2> HIDE DEF step, j
  <2>5. Knows(r)'
    <3>1. /\ req'[r].pc = step /\ req'[r].job = Len(jobs[d]) /\ req'[r].dev = d
          /\ req'[r].op = req[r].op /\ req'[r].to = req[r].to
          /\ req'[r].seen = req[r].seen /\ req'[r].row = req[r].row
      BY <1>2, <2>2, <2>4 DEF Request
    <3> QED
      BY <1>2, <2>1, <2>2, <2>3, <3>1 DEF Knows
  <2> QED
    BY <1>5, <2>1, <2>2, <2>3, <2>5
<1> QED
  BY <1>4, <1>7, <1>8, <1>9, <1>10

\* What a write makes of a job is a job, live unless it passed QC or was closed.
LEMMA WrittenFacts ==
  ASSUME NEW j \in Job, NEW op \in {"scan_back", "qc_pass", "qc_fail", "reopen", "close"}
  PROVE  /\ Written(op, j) \in Job
         /\ op \in {"qc_fail", "reopen"} => Live(Written(op, j))
         /\ op = "scan_back" /\ Live(j) => Live(Written(op, j))
         /\ op = "qc_pass" => Written(op, j).status = "completed" /\ Written(op, j).qc = "PASSED"
         /\ (j.closed <=> j.status = "completed") /\ (op \in {"scan_back", "qc_fail"} => Live(j))
              => (Written(op, j).closed <=> Written(op, j).status = "completed")
BY DEF Written, Fresh, Job, Live

\* startRepair() adds a job where none is live.
LEMMA InsertJobStep ==
  ASSUME IInv, NEW r \in Requests, InsertJob(r), NEW d \in Devices, req[r].dev = d
  PROVE  IInv'
<1> DEFINE n == Len(jobs[d])
<1>1. Busy(r) /\ req[r].pc = "write" /\ req[r].op = "start"
  BY BusyIsRequest DEF IInv, InsertJob
<1>2. /\ req[r] \in Request
      /\ Knows(r) /\ JobsOk(d) /\ Resumable(d)
  BY <1>1, OwnDevice
<1>3. jobs[d] \in Seq(Job) /\ n \in Nat /\ DOMAIN jobs[d] = 1..n /\ Fresh \in Job
  BY <1>2, JobFacts DEF IInv, Fresh, Job
<1>4. /\ jobs'[d] = Append(jobs[d], Fresh)
      /\ \A c \in Devices : c # d => jobs'[c] = jobs[c]
      /\ jobs' \in [Devices -> Seq(Job)]
  BY <1>2, <1>3 DEF InsertJob, IInv, TypeOK
<1>5. /\ Len(jobs'[d]) = n + 1 /\ jobs'[d] # <<>>
      /\ DOMAIN jobs'[d] = 1..(n + 1)
      /\ jobs'[d][n + 1] = Fresh
      /\ \A i \in 1..n : jobs'[d][i] = jobs[d][i]
  <2>1. Len(jobs'[d]) = n + 1 /\ jobs'[d] \in Seq(Job)
    BY <1>3, <1>4
  <2>2. jobs'[d] # <<>>
    BY <1>3, <2>1
  <2> QED
    BY <1>3, <1>4, <2>1, <2>2
<1>6. ~LatestIsLive(d)
  BY <1>1, <1>2 DEF Knows
<1>7. \A i \in 1..n : ~Live(jobs[d][i])
  BY <1>2, <1>3, <1>6 DEF JobsOk, LatestIsLive, Latest
<1>8. JobsOk(d)'
  <2> SUFFICES ASSUME NEW i \in 1..(n + 1)
               PROVE  /\ Live(jobs'[d][i]) => i = n + 1
                      /\ jobs'[d][i].closed <=> jobs'[d][i].status = "completed"
    BY <1>5 DEF JobsOk
  <2>1. CASE i \in 1..n
    BY <1>2, <1>3, <1>5, <1>7, <2>1 DEF JobsOk
  <2>2. CASE i = n + 1
    BY <1>5, <2>2 DEF Fresh
  <2> QED
    BY <1>3, <2>1, <2>2
<1>9. LatestIsLive(d)'
  BY <1>5 DEF LatestIsLive, Latest, Live, Fresh
<1>10. req'[r] = [req[r] EXCEPT !.pc = "read"] /\ \A q \in Requests : q # r => req'[q] = req[q]
  BY DEF InsertJob, Goto, IInv, TypeOK
<1>11. TypeOK'
  <2>1. req'[r] \in Request
    BY <1>2, <1>10 DEF Request
  <2> QED
    BY <1>4, <2>1 DEF InsertJob, Goto, IInv, TypeOK
<1>12. Knows(r)'
  <2>1. /\ req'[r].pc = "read" /\ req'[r].op = "start" /\ req'[r].dev = d
        /\ req'[r].to = req[r].to /\ req'[r].seen = req[r].seen /\ req'[r].row = req[r].row
        /\ UNCHANGED <<status, ready>>
    BY <1>1, <1>2, <1>10 DEF InsertJob, Request
  <2>2. req[r].to = Target("start") /\ req[r].seen = status[d] /\ req[r].row = ("row" \in ready[d])
    BY <1>1, <1>2 DEF Knows
  <2> QED
    BY <1>9, <2>1, <2>2 DEF Knows
<1>13. Resumable(d)'
  BY <1>5, <1>9 DEF Resumable
<1>14. req'[r].dev = d
  BY <1>2, <1>10 DEF Request
<1>15. /\ \A c \in Devices : c # d =>
            status'[c] = status[c] /\ ready'[c] = ready[c] /\ jobs'[c] = jobs[c]
       /\ \A q \in Requests : Busy(q) /\ req[q].dev = d => q = r
  BY <1>1, <1>4, OwnDevice DEF InsertJob
<1> QED
  BY <1>8, <1>10, <1>11, <1>12, <1>13, <1>14, <1>15, OneDeviceStep

\* The latest job is written by the request that is alone with it.
LEMMA UpdateJobStep ==
  ASSUME IInv, NEW r \in Requests, UpdateJob(r), NEW d \in Devices, req[r].dev = d
  PROVE  IInv'
<1> DEFINE n == Len(jobs[d])
           op == req[r].op
           w == Written(op, jobs[d][n])
<1>1. Busy(r) /\ req[r].pc = "write" /\ op # "start"
  BY BusyIsRequest DEF IInv, UpdateJob
<1>2. /\ req[r] \in Request
      /\ Knows(r) /\ JobsOk(d) /\ Resumable(d)
  BY <1>1, OwnDevice
<1>3. /\ op \in {"scan_back", "qc_pass", "qc_fail", "reopen", "close"}
      /\ jobs[d] # <<>> /\ req[r].job = n
      /\ op \in {"scan_back", "qc_pass", "qc_fail"} => Live(jobs[d][n])
  BY <1>1, <1>2 DEF Knows, Request, Ops, LatestIsLive, Latest
<1>4. jobs[d] \in Seq(Job) /\ n \in Nat /\ DOMAIN jobs[d] = 1..n /\ n \in 1..n /\ jobs[d][n] \in Job
  BY <1>2, <1>3, JobFacts DEF IInv
<1>5. /\ w \in Job
      /\ op \in {"qc_fail", "reopen", "scan_back"} => Live(w)
      /\ op = "qc_pass" => w.status = "completed" /\ w.qc = "PASSED"
      /\ w.closed <=> w.status = "completed"
  BY <1>2, <1>3, <1>4, WrittenFacts DEF JobsOk
<1> HIDE DEF w
<1>6. /\ jobs'[d] = [jobs[d] EXCEPT ![n] = w]
      /\ \A c \in Devices : c # d => jobs'[c] = jobs[c]
  BY <1>2, <1>3 DEF UpdateJob, IInv, TypeOK, w
<1>7. /\ jobs'[d] \in Seq(Job) /\ Len(jobs'[d]) = n /\ jobs'[d] # <<>>
      /\ DOMAIN jobs'[d] = 1..n
      /\ jobs'[d][n] = w
      /\ \A i \in 1..n : i # n => jobs'[d][i] = jobs[d][i]
  <2>1. jobs'[d] \in Seq(Job) /\ Len(jobs'[d]) = n
    BY <1>4, <1>5, <1>6
  <2>2. jobs'[d] # <<>>
    BY <1>4, <2>1
  <2> QED
    BY <1>4, <1>5, <1>6, <2>1, <2>2
<1>8. JobsOk(d)'
  <2> SUFFICES ASSUME NEW i \in 1..n
               PROVE  /\ Live(jobs'[d][i]) => i = n
                      /\ jobs'[d][i].closed <=> jobs'[d][i].status = "completed"
    BY <1>7 DEF JobsOk
  <2>1. CASE i = n
    BY <1>5, <1>7, <2>1
  <2>2. CASE i # n
    BY <1>2, <1>4, <1>7, <2>2 DEF JobsOk
  <2> QED
    BY <2>1, <2>2
<1>9. /\ op \in {"qc_fail", "reopen", "scan_back"} => LatestIsLive(d)'
      /\ op = "qc_pass" => PassRecorded(d)'
  BY <1>5, <1>7 DEF LatestIsLive, PassRecorded, Latest
<1>10. /\ req'[r] = (IF op = "scan_back" THEN Rest ELSE [req[r] EXCEPT !.pc = "read"])
       /\ \A q \in Requests : q # r => req'[q] = req[q]
  BY DEF UpdateJob, Goto, Finish, IInv, TypeOK
<1>11. TypeOK'
  <2>1. req'[r] \in Request \cup {Rest}
    <3>1. [req[r] EXCEPT !.pc = "read"] \in Request
      BY <1>2 DEF Request
    <3> QED BY <1>10, <3>1
  <2>2. jobs' \in [Devices -> Seq(Job)]
    BY <1>7 DEF UpdateJob, IInv, TypeOK
  <2>3. req' \in [Requests -> Request \cup {Rest}]
    BY <2>1 DEF UpdateJob, Goto, Finish, IInv, TypeOK
  <2> QED
    BY <2>2, <2>3 DEF UpdateJob, IInv, TypeOK
<1>12. ASSUME op # "scan_back"
       PROVE  req'[r].dev = d /\ Knows(r)'
  <2>1. req'[r] = [req[r] EXCEPT !.pc = "read"]
    BY <1>10, <1>12
  <2>2. UNCHANGED <<status, ready>>
    BY DEF UpdateJob
  <2> QED
    BY <1>1, <1>2, <1>3, <1>7, <1>9, <1>12, <2>1, <2>2 DEF Knows, Request
<1>13. Resumable(d)'
  <2>1. status'[d] = status[d]
    BY DEF UpdateJob
  <2>2. CASE op \in {"qc_fail", "reopen", "scan_back"}
    BY <1>7, <1>9, <2>2 DEF Resumable
  <2>3. CASE op = "qc_pass"
    <3>1. req'[r] = [req[r] EXCEPT !.pc = "read"]
      BY <1>10, <2>3
    <3>2. PassInFlight(d)'
      BY <1>2, <2>3, <3>1 DEF PassInFlight, Busy, Request, Rest
    <3> QED
      BY <1>7, <1>9, <2>3, <3>2 DEF Resumable
  <2>4. CASE op = "close"
    <3>1. status'[d] = "READY_FOR_ZOHO"
      BY <1>1, <1>2, <2>1, <2>4 DEF Knows
    <3> QED
      BY <3>1 DEF Resumable
  <2> QED
    BY <1>3, <2>2, <2>3, <2>4
<1>14. Busy(r)' => req'[r].dev = d /\ Knows(r)'
  BY <1>10, <1>12 DEF Busy
<1> QED
  BY <1>1, <1>6, <1>8, <1>10, <1>11, <1>13, <1>14, OwnDevice, OneDeviceStep DEF UpdateJob

\* The edge out of IN_HOUSE_REPAIR that a pass needs is in the table.
LEMMA PassMayMove == Allowed("IN_HOUSE_REPAIR", "READY_FOR_ZOHO")
BY DEF Allowed, ALLOWED_TRANSITIONS

\* transitionDevice() reads, and refuses no pass of a device in repair.
LEMMA ReadDeviceStep ==
  ASSUME IInv, NEW r \in Requests, ReadDevice(r), NEW d \in Devices, req[r].dev = d
  PROVE  IInv'
<1> DEFINE x == IF Allowed(status[d], req[r].to) THEN [req[r] EXCEPT !.pc = "commit"] ELSE Rest
<1>1. Busy(r) /\ req[r].pc = "read"
  BY BusyIsRequest DEF IInv, ReadDevice
<1>2. /\ req[r] \in Request
      /\ Knows(r) /\ UNCHANGED <<status, ready, jobs>>
  BY <1>1, OwnDevice DEF ReadDevice
<1>3. req' = [req EXCEPT ![r] = x] /\ req'[r] = x
  BY DEF ReadDevice, Goto, Finish, IInv, TypeOK
<1>4. x \in Request \cup {Rest}
  BY <1>2 DEF Request
<1>5. ASSUME x # Rest
      PROVE  x.dev = d /\ Knows(r)'
  <2>1. req'[r] = [req[r] EXCEPT !.pc = "commit"] /\ x = [req[r] EXCEPT !.pc = "commit"]
    BY <1>3, <1>5
  <2> QED
    BY <1>1, <1>2, <2>1 DEF Knows, LatestIsLive, PassRecorded, Latest, Request
<1>6. ASSUME req[r].op = "qc_pass", status[d] = "IN_HOUSE_REPAIR"
      PROVE  x # Rest /\ x.op = "qc_pass" /\ x.pc \in {"read", "commit"}
  <2>1. req[r].to = "READY_FOR_ZOHO"
    BY <1>2, <1>6 DEF Knows, Target
  <2>2. x = [req[r] EXCEPT !.pc = "commit"]
    BY <1>6, <2>1, PassMayMove
  <2> QED
    BY <1>2, <1>6, <2>2 DEF Request, Rest
<1> HIDE DEF x
<1> QED
  BY <1>1, <1>2, <1>3, <1>4, <1>5, <1>6, ReadStep

\* What a request commits is backed by the job.
LEMMA CommitFacts ==
  ASSUME IInv, NEW r \in Requests, CommitTransition(r)
  PROVE  LET d == req[r].dev IN
         /\ d \in Devices
         /\ req[r].to \in DEVICE_STATUSES
         /\ status' = [status EXCEPT ![d] = req[r].to]
         /\ req[r].to = "IN_HOUSE_REPAIR" => LatestIsLive(d)
         /\ req[r].to = "QC_FAILED" => jobs[d] # <<>>
         /\ req[r].to = "READY_FOR_ZOHO" => PassRecorded(d) /\ ready[d] = GateParts
<1>1. Busy(r) /\ req[r].pc = "commit"
  BY BusyIsRequest DEF IInv, CommitTransition
<1>2. req[r] \in Request /\ req[r].dev \in Devices /\ Knows(r)
  BY <1>1, OwnDevice
<1>3. req[r].op # "scan_back" /\ req[r].op \in Ops
  BY <1>1, <1>2 DEF Knows, Request
<1>4. CASE req[r].op = "move"
  BY <1>2, <1>4 DEF Knows, Request, REPAIR_WORKFLOW_ONLY_STATUSES, CommitTransition
<1>5. CASE req[r].op # "move"
  <2>1. req[r].to = Target(req[r].op)
    BY <1>2, <1>3, <1>5 DEF Knows
  <2>2. /\ req[r].to = "IN_HOUSE_REPAIR" => req[r].op \in {"start", "reopen"}
        /\ req[r].to = "QC_FAILED" => req[r].op = "qc_fail"
        /\ req[r].to = "READY_FOR_ZOHO" => req[r].op = "qc_pass"
    BY <1>3, <2>1 DEF Target, Ops
  <2> QED
    BY <1>1, <1>2, <2>2 DEF Knows, Request, CommitTransition
<1> QED
  BY <1>4, <1>5

\* A transition is committed.
LEMMA CommitStep ==
  ASSUME IInv, NEW r \in Requests, CommitTransition(r), NEW d \in Devices, req[r].dev = d
  PROVE  IInv'
<1>1. Busy(r)
  BY BusyIsRequest DEF IInv, CommitTransition
<1>2. JobsOk(d)
  BY <1>1, OwnDevice
<1>3. status'[d] = req[r].to /\ \A c \in Devices : c # d => status'[c] = status[c]
  BY <1>2, CommitFacts DEF IInv, TypeOK
<1>4. req'[r] = Rest /\ \A q \in Requests : q # r => req'[q] = req[q]
  BY DEF CommitTransition, Finish, IInv, TypeOK
<1>5. TypeOK'
  BY CommitFacts DEF CommitTransition, Finish, IInv, TypeOK
<1>6. JobsOk(d)'
  BY <1>2 DEF JobsOk, CommitTransition
<1>7. Resumable(d)'
  BY <1>3, CommitFacts DEF Resumable, CommitTransition, LatestIsLive, Latest
<1>8. ~Busy(r)'
  BY <1>4 DEF Busy
<1>9. UNCHANGED <<ready, jobs>>
  BY DEF CommitTransition
<1> QED
  BY <1>1, <1>2, <1>3, <1>4, <1>5, <1>6, <1>7, <1>8, <1>9, OwnDevice, OneDeviceStep

\* A request dies.
LEMMA AbandonStep ==
  ASSUME IInv, NEW r \in Requests, Abandon(r), NEW d \in Devices, req[r].dev = d
  PROVE  IInv'
BY ReadStep DEF Abandon, Finish, IInv, TypeOK

\* An edit changes what the gate would say of a device nobody works on.
LEMMA EditStep ==
  ASSUME Serialised, IInv, NEW d \in Devices, EditDevice(d)
  PROVE  IInv'
<1>1. \A q \in Requests : Busy(q) => req[q].dev # d
  BY DEF EditDevice, NobodyElse
<1>2. PICK parts \in SUBSET GateParts : ready' = [ready EXCEPT ![d] = parts]
  BY DEF EditDevice
<1>3. \A c \in Devices : c # d => ready'[c] = ready[c]
  BY <1>2 DEF IInv, TypeOK
<1>4. TypeOK'
  BY <1>2 DEF EditDevice, IInv, TypeOK
<1>5. Alone'
  BY DEF EditDevice, IInv, Alone, Busy
<1>6. ASSUME NEW q \in Requests, Busy(q)'
      PROVE  Knows(q)'
  <2>1. Busy(q) /\ req' = req
    BY <1>6 DEF EditDevice, Busy
  <2>2. req[q].dev \in Devices /\ req[q].dev # d /\ Knows(q)
    BY <1>1, <2>1, OwnDevice
  <2> QED
    BY <1>3, <2>1, <2>2 DEF EditDevice, Knows, LatestIsLive, PassRecorded, Latest
<1>7. ASSUME NEW c \in Devices
      PROVE  JobsOk(c)' /\ Resumable(c)'
  BY DEF EditDevice, IInv, JobsOk, Resumable, LatestIsLive, PassRecorded, PassInFlight, Latest, Busy
<1> QED
  BY <1>4, <1>5, <1>6, <1>7 DEF IInv

-----------------------------------------------------------------------------
(* The theorems.                                                           *)

\* At first every device is being sorted, and there is no job.
LEMMA InitOk == Init => IInv
<1> SUFFICES ASSUME Init PROVE IInv
  OBVIOUS
<1>1. TypeOK
  BY DEF Init, TypeOK, DEVICE_STATUSES
<1>2. \A r \in Requests : ~Busy(r)
  BY DEF Init, Busy
<1>3. \A d \in Devices : JobsOk(d) /\ Resumable(d)
  BY DEF Init, JobsOk, Resumable
<1> QED
  BY <1>1, <1>2, <1>3 DEF IInv, Alone

\* Every step keeps the invariant.
LEMMA NextOk == Serialised /\ IInv /\ [Next]_vars => IInv'
<1> SUFFICES ASSUME Serialised, IInv, [Next]_vars PROVE IInv'
  OBVIOUS
<1>1. CASE UNCHANGED vars
  BY <1>1 DEF vars, IInv, TypeOK, Alone, Busy, Knows, JobsOk, Resumable, LatestIsLive,
     PassRecorded, PassInFlight, Latest
<1>2. ASSUME NEW r \in Requests, NEW d \in Devices, Begin(r, d)
      PROVE  IInv'
  BY <1>2, BeginStep
<1>3. ASSUME NEW r \in Requests, Step(r)
      PROVE  IInv'
  <2>1. Busy(r)
    BY <1>3, BusyIsRequest DEF IInv, Step, StartFindsNoJob, QcFindsJob, ReopenFindsJob,
       CloseFindsJob, InsertJob, UpdateJob, ReadDevice, CommitTransition, Abandon
  <2>2. PICK d \in Devices : req[r].dev = d
    BY <2>1, OwnDevice
  <2> QED
    BY <1>3, <2>2, FindsJobStep, InsertJobStep, UpdateJobStep, ReadDeviceStep, CommitStep,
       AbandonStep DEF Step
<1>4. ASSUME NEW d \in Devices, EditDevice(d)
      PROVE  IInv'
  BY <1>4, EditStep
<1> QED
  BY <1>1, <1>2, <1>3, <1>4 DEF Next

\* The strengthening holds for any number of devices, requests and jobs, wherever
\* workers die, while the staff never work on a device in two requests at once.
THEOREM RepairInductive == ASSUME Serialised PROVE Spec => []IInv
<1>1. IInv /\ [Next]_vars => IInv'
  BY NextOk
<1> QED
  BY <1>1, InitOk, PTL DEF Spec

\* Every variable has its type.
THEOREM RepairTypes == ASSUME Serialised PROVE Spec => []TypeOK
<1>1. IInv => TypeOK
  BY DEF IInv
<1> QED
  BY <1>1, RepairInductive, PTL

\* A device never has two live repair jobs: a retried start, scan-back or reopen
\* finds the job that is there (openRepairJobFor() in startRepair()).
THEOREM NeverTwoLiveJobs == ASSUME Serialised PROVE Spec => []OneLiveJob
<1>1. IInv => OneLiveJob
  BY DEF IInv, OneLiveJob, LiveJobs, JobsOk
<1> QED
  BY <1>1, RepairInductive, PTL

\* closed_at is set exactly while a job is completed, through every round of QC,
\* reopen and retry.
THEOREM ClosedWhileCompleted == ASSUME Serialised PROVE Spec => []ClosedIffCompleted
<1>1. IInv => ClosedIffCompleted
  BY DEF IInv, ClosedIffCompleted, JobsOk
<1> QED
  BY <1>1, RepairInductive, PTL

\* A device in IN_HOUSE_REPAIR or QC_FAILED has a job to go on with, unless a
\* worker died between recording a pass and moving the device (recordQc()).
THEOREM RepairCanGoOn == ASSUME Serialised PROVE Spec => []RepairIsResumable
<1>1. ASSUME IInv, NEW d \in Devices, AtRest(d), status[d] = "IN_HOUSE_REPAIR"
      PROVE  LiveJobs(d) # {} \/ (WorkersDie /\ jobs[d] # <<>> /\ jobs[d][LatestJob(d)].qc = "PASSED")
  <2>1. ~PassInFlight(d)
    BY <1>1 DEF AtRest, PassInFlight
  <2>2. LatestIsLive(d) \/ (PassRecorded(d) /\ WorkersDie)
    BY <1>1, <2>1 DEF IInv, Resumable
  <2>3. LatestIsLive(d) => LiveJobs(d) # {}
    BY <1>1, JobFacts DEF IInv, LatestIsLive, LiveJobs, Latest
  <2> QED
    BY <2>2, <2>3 DEF PassRecorded, Latest, LatestJob
<1>2. ASSUME IInv, NEW d \in Devices, status[d] = "QC_FAILED"
      PROVE  jobs[d] # <<>>
  BY <1>2 DEF IInv, Resumable
<1>3. IInv => RepairIsResumable
  BY <1>1, <1>2 DEF RepairIsResumable
<1> QED
  BY <1>3, RepairInductive, PTL

\* A device enters READY_FOR_ZOHO only with its latest job completed and passed,
\* and with data that pass checkReadyForZohoGate() at that moment.
THEOREM ZohoIsGated == ASSUME Serialised PROVE Spec => IntoZohoThroughTheGate
<1> DEFINE Gated == \A d \in Devices : EntersZoho(d) =>
              /\ jobs[d] # <<>>
              /\ jobs[d][Len(jobs[d])].status = "completed"
              /\ jobs[d][Len(jobs[d])].qc = "PASSED"
              /\ ready[d] = GateParts
<1>1. ASSUME IInv, [Next]_vars, NEW d \in Devices, EntersZoho(d)
      PROVE  PassRecorded(d) /\ ready[d] = GateParts
  <2>1. status' # status
    BY <1>1 DEF EntersZoho
  <2>2. ASSUME NEW r \in Requests, NEW c \in Devices, Begin(r, c)
        PROVE  status' = status
    BY <2>2 DEF Begin, StartRepair, ScanBackRepair, RecordQc, ReopenRepair, CloseToInventory,
       Move, ImportSale, Enter
  <2>3. ASSUME NEW r \in Requests, Step(r), ~CommitTransition(r)
        PROVE  status' = status
    BY <2>3 DEF Step, StartFindsNoJob, QcFindsJob, ReopenFindsJob, CloseFindsJob, InsertJob,
       UpdateJob, ReadDevice, Abandon
  <2>4. PICK r \in Requests : CommitTransition(r)
    BY <1>1, <2>1, <2>2, <2>3 DEF Next, EditDevice, vars
  <2>5. req[r].dev = d /\ req[r].to = "READY_FOR_ZOHO"
    BY <1>1, <2>4, CommitFacts DEF EntersZoho, IInv, TypeOK
  <2> QED
    BY <1>1, <2>4, <2>5, CommitFacts
<1>2. IInv /\ [Next]_vars => [Gated]_vars
  BY <1>1 DEF PassRecorded, Latest
<1> QED
  BY RepairInductive, <1>2, PTL DEF Spec, IntoZohoThroughTheGate
=============================================================================
