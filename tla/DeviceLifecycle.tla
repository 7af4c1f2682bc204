--------------------------- MODULE DeviceLifecycle ---------------------------
(***************************************************************************)
(* The device ledger: received_devices.status and the append-only          *)
(* device_events, as the HTTP requests that reach transitionDevice() write *)
(* them.  Each await of the code that touches the database is a step of    *)
(* its own, so that requests on the same device interleave:                *)
(*                                                                         *)
(*   idle -> read -> commit -> reread -> dispatch -> idle    (transitions) *)
(*   idle -> log -> idle                                     (goods-in)    *)
(*                                                                         *)
(* The generic route and the rows of a bulk transition read the device     *)
(* once before they call transitionDevice(), which reads it again; its     *)
(* batch writes the row and the event together but carries no condition    *)
(* on the status it read.  A worker may die between any two steps.         *)
(***************************************************************************)
EXTENDS DeviceStatus, Naturals, Sequences

CONSTANTS
  Devices,     \* device ids
  Requests,    \* HTTP requests in flight
  Users,       \* the roles of the users who send them
  ReasonCodes, \* the reason codes they send
  Serialised,  \* the devices that the staff never work on in two requests at once
  MaxEvents    \* bound on the events of each device

ASSUME LifecycleAssumption ==
  /\ Users \subseteq Roles
  /\ ReasonCodes \subseteq Reasons
  /\ Serialised \subseteq Devices
  /\ MaxEvents \in [Devices -> Nat]

VARIABLES
  status,  \* received_devices.status, "absent" before goods-in
  events,  \* the status-bearing rows of device_events, oldest first
  req      \* the local variables of each request

vars == <<status, events, req>>

NoStatus    == "none"
DeviceState == DEVICE_STATUSES \cup {"absent"}

\* A RECEIVE event has no from_status; every other one is a status change.
Event == [ from   : DEVICE_STATUSES \cup {NoStatus},
           to     : DEVICE_STATUSES,
           role   : Roles,
           reason : Reasons ]

\* A request before its write, and after it with a webhook still to send.  The
\* generic route and the bulk rows are one kind: they differ only in Begin.
Request == [ pc     : {"read", "commit", "log"},
             kind   : {"generic", "workflow", "receive"},
             dev    : Devices,
             from   : DEVICE_STATUSES \cup {NoStatus},
             to     : DEVICE_STATUSES,
             role   : Roles,
             reason : Reasons ]

Notice == [ pc   : {"reread", "dispatch"},
            dev  : Devices,
            from : DEVICE_STATUSES \cup {NoStatus},
            to   : DEVICE_STATUSES ]

\* What a request that is not running holds.
Rest == [pc |-> "idle"]

Busy(r) == req[r] # Rest

-----------------------------------------------------------------------------

Init ==
  /\ status = [d \in Devices |-> "absent"]
  /\ events = [d \in Devices |-> <<>>]
  /\ req    = [r \in Requests |-> Rest]

\* A request on d may start: nobody else is working on d, where the staff
\* keep to that.
MayStart(r, d) ==
  /\ ~Busy(r)
  /\ d \in Serialised => \A q \in Requests : Busy(q) => req[q].dev # d

\* The request is over: it answered, it was refused, or its worker died.
Finish(r) == req' = [req EXCEPT ![r] = Rest]

-----------------------------------------------------------------------------
(* Goods-in inserts the row, then logs the RECEIVE event.                  *)

ReceiveInsert(r, d) ==
  /\ MayStart(r, d)
  /\ status[d] = "absent"
  /\ status' = [status EXCEPT ![d] = "RECEIVED"]
  /\ req' = [req EXCEPT ![r] =
               [ pc |-> "log", kind |-> "receive", dev |-> d, from |-> NoStatus,
                 to |-> "RECEIVED", role |-> "operator", reason |-> "none" ]]
  /\ UNCHANGED events

AppendEvent(r) ==
  /\ Len(events[req[r].dev]) < MaxEvents[req[r].dev]
  /\ events' = [events EXCEPT ![req[r].dev] =
                  Append(@, [ from |-> req[r].from, to |-> req[r].to,
                              role |-> req[r].role, reason |-> req[r].reason ])]

ReceiveLog(r) ==
  /\ req[r].pc = "log"
  /\ AppendEvent(r)
  /\ Finish(r)
  /\ UNCHANGED status

-----------------------------------------------------------------------------
(* The callers of transitionDevice().  A request that a check refuses      *)
(* changes nothing, so only the requests that pass are steps.              *)

StartOn(r, d, kind, to, role, reason) ==
  /\ MayStart(r, d)
  /\ status[d] # "absent"
  /\ req' = [req EXCEPT ![r] =
               [ pc |-> "read", kind |-> kind, dev |-> d, from |-> NoStatus,
                 to |-> to, role |-> role, reason |-> reason ]]
  /\ UNCHANGED <<status, events>>

\* Mutant: the target is not tested against the workflow-only statuses.
GenericTransition_AnyTarget(r, d, to, role, reason) ==
  /\ status[d] \notin WorkflowOnly
  /\ GateOpen(status[d], to, role, reason)
  /\ StartOn(r, d, "generic", to, role, reason)

\* POST /:id/transition, up to its own read of the device.
GenericTransition(r, d, to, role, reason) ==
  /\ to \notin WorkflowOnly
  /\ status[d] \notin WorkflowOnly
  /\ GateOpen(status[d], to, role, reason)
  /\ StartOn(r, d, "generic", to, role, reason)

\* The status the bulk route's up-front gate assumes, from the target alone.
BulkGateFromStatus(to) ==
  CASE to = "REJECTED" -> "RECEIVED"
    [] to = "RECEIVED" -> "REJECTED"
    [] OTHER           -> NoStatus

\* Mutant: the status of the row is not tested.
BulkTransitionRow_AnyStatus(r, d, to, role, reason) ==
  /\ to \notin WorkflowOnly
  /\ GateOpen(BulkGateFromStatus(to), to, role, reason)
  /\ StartOn(r, d, "generic", to, role,
             IF BulkGateFromStatus(to) = NoStatus THEN "none" ELSE reason)

\* Mutant: the status the gate assumed is passed on where the code belongs.
BulkTransitionRow_WrongArgument(r, d, to, role, reason) ==
  /\ to \notin WorkflowOnly
  /\ GateOpen(BulkGateFromStatus(to), to, role, reason)
  /\ status[d] \notin WorkflowOnly
  /\ StartOn(r, d, "generic", to, role, BulkGateFromStatus(to))

\* One row of POST /bulk-transition, up to the row's read of the device.  A
\* reason code is carried into the row only when the target is gated.
BulkTransitionRow(r, d, to, role, reason) ==
  /\ to \notin WorkflowOnly
  /\ GateOpen(BulkGateFromStatus(to), to, role, reason)
  /\ status[d] \notin WorkflowOnly
  /\ StartOn(r, d, "generic", to, role,
             IF BulkGateFromStatus(to) = NoStatus THEN "none" ELSE reason)

\* The repair, consignment and sale-import routes, which call
\* transitionDevice() with targets of their own and no reason code; they are
\* given the lowest role.
WorkflowTargets == WorkflowOnly \cup {"READY_FOR_EXPORT", "ACTIVE_INVENTORY", "SOLD"}

WorkflowTransition(r, d, to) ==
  /\ to \in WorkflowTargets
  /\ StartOn(r, d, "workflow", to, "operator", "none")

-----------------------------------------------------------------------------
(* transitionDevice() itself.                                              *)

\* Mutant: the table of edges is not consulted.
ReadDevice_AnyEdge(r) ==
  LET d == req[r].dev IN
  /\ req[r].pc = "read"
  /\ IF GateOpen(status[d], req[r].to, req[r].role, req[r].reason)
       THEN req' = [req EXCEPT ![r].pc = "commit", ![r].from = status[d]]
       ELSE Finish(r)
  /\ UNCHANGED <<status, events>>

\* Mutant: the reject gate is left to the routes.
ReadDevice_NoGate(r) ==
  LET d == req[r].dev IN
  /\ req[r].pc = "read"
  /\ IF Allowed(status[d], req[r].to)
       THEN req' = [req EXCEPT ![r].pc = "commit", ![r].from = status[d]]
       ELSE Finish(r)
  /\ UNCHANGED <<status, events>>

ReadDevice(r) ==
  LET d == req[r].dev  to == req[r].to IN
  /\ req[r].pc = "read"
  /\ IF /\ Allowed(status[d], to)
        /\ GateOpen(status[d], to, req[r].role, req[r].reason)
       THEN req' = [req EXCEPT ![r].pc = "commit", ![r].from = status[d]]
       ELSE Finish(r)
  /\ UNCHANGED <<status, events>>

\* Mutant: the batch is two statements and the worker dies before the second.
CommitTransition_RowOnly(r) ==
  /\ req[r].pc = "commit"
  /\ status' = [status EXCEPT ![req[r].dev] = req[r].to]
  /\ Finish(r)
  /\ UNCHANGED events

\* db.batch([UPDATE, INSERT]): both rows, whatever the status is by now.
CommitTransition(r) ==
  /\ req[r].pc = "commit"
  /\ status' = [status EXCEPT ![req[r].dev] = req[r].to]
  /\ AppendEvent(r)
  /\ IF req[r].kind = "workflow"
       THEN Finish(r)
       ELSE req' = [req EXCEPT ![r] =
                      [ pc |-> "reread", dev |-> req[r].dev,
                        from |-> req[r].from, to |-> req[r].to ]]

\* Mutant: ORDER BY id without DESC, the oldest event.
RereadEvent_Oldest(r) ==
  /\ req[r].pc = "reread"
  /\ req' = [req EXCEPT ![r].pc = "dispatch", ![r].from = events[req[r].dev][1].from]
  /\ UNCHANGED <<status, events>>

\* The latest event of the device, which the webhook's from_status is taken
\* from.
RereadEvent(r) ==
  LET log == events[req[r].dev] IN
  /\ req[r].pc = "reread"
  /\ req' = [req EXCEPT ![r].pc = "dispatch", ![r].from = log[Len(log)].from]
  /\ UNCHANGED <<status, events>>

DispatchWebhook(r) ==
  /\ req[r].pc = "dispatch"
  /\ Finish(r)
  /\ UNCHANGED <<status, events>>

\* The worker dies with the request's statements so far already committed.
Abandon(r) ==
  /\ Busy(r)
  /\ Finish(r)
  /\ UNCHANGED <<status, events>>

-----------------------------------------------------------------------------

Step(r) ==
  \/ ReceiveLog(r)
  \/ ReadDevice(r)
  \/ CommitTransition(r)
  \/ RereadEvent(r)
  \/ DispatchWebhook(r)
  \/ Abandon(r)

Begin(r, d) ==
  \/ ReceiveInsert(r, d)
  \/ \E to \in DEVICE_STATUSES :
       \/ \E u \in Users, why \in ReasonCodes :
            \/ GenericTransition(r, d, to, u, why)
            \/ BulkTransitionRow(r, d, to, u, why)
       \/ WorkflowTransition(r, d, to)

Next == \E r \in Requests : Step(r) \/ \E d \in Devices : Begin(r, d)

Spec == Init /\ [][Next]_vars

-----------------------------------------------------------------------------
(* Properties.                                                             *)

\* Every variable has its type: statuses are the enum's, event rows and
\* request locals are well formed.
TypeOK ==
  /\ status \in [Devices -> DeviceState]
  /\ events \in [Devices -> Seq(Event)]
  /\ req \in [Requests -> Request \cup Notice \cup {Rest}]

IsMove(e) == e.from # NoStatus

\* "the device's `status` always equals the `to_status` of its most recent event"
\* (deviceLifecycle.ts): the RECEIVE of goods-in is an event like any other, and is
\* logged in a statement of its own.
StatusIsLastEvent ==
  \A d \in Devices : events[d] # <<>> => status[d] = events[d][Len(events[d])].to

\* So it is, through every death between the statements, of a device that the staff
\* work on in one request at a time; without an event it is where goods-in put it.
LogTellsStatus ==
  \A d \in Serialised :
    status[d] \in IF events[d] = <<>> THEN {"absent", "RECEIVED"}
                 ELSE {events[d][Len(events[d])].to}

\* No status change is recorded that the table of ALLOWED_TRANSITIONS does not
\* list, by whichever caller and in whatever race.
RecordedMovesAllowed ==
  \A d \in Devices : \A i \in DOMAIN events[d] :
    IsMove(events[d][i]) => Allowed(events[d][i].from, events[d][i].to)

\* Every recorded rejection and un-rejection was made by a manager with a
\* reason code of the right list, although the single and the bulk route test
\* this on a status they read earlier (or, in bulk, never read).
RejectionsAreGated ==
  \A d \in Devices : \A i \in DOMAIN events[d] :
    LET e == events[d][i] IN
      IsRejectEdge(e.from, e.to) \/ IsUnrejectEdge(e.from, e.to)
        => IsManager(e.role) /\ ReasonFits(e.from, e.to, e.reason)

\* A step of a generic or bulk request never puts a device in a status that
\* belongs to the consignment or repair workflow.
GenericStep(r) ==
  /\ req[r].pc \in {"read", "commit"}
  /\ req[r].kind = "generic"
  /\ req'[r] # req[r]

GenericNeverEntersWorkflow ==
  [][\A r \in Requests : GenericStep(r) =>
       \A d \in Devices : status'[d] \in WorkflowOnly => status'[d] = status[d]]_vars

\* "refuses to move a device into *or* out of these statuses" (README.md): a
\* step of a generic or bulk request never takes a device out of one, where no
\* other request moves the device between the route's test and its write.
GenericNeverLeavesWorkflow ==
  [][\A r \in Requests : GenericStep(r) =>
       \A d \in Serialised : status[d] \in WorkflowOnly => status'[d] = status[d]]_vars

\* A webhook reports an edge of the table: the from_status it reads back belongs to
\* the event of the same request, where no other request writes one in between.
WebhookReportsAnEdge ==
  \A r \in Requests : req[r].pc = "dispatch" /\ req[r].dev \in Serialised =>
    req[r].from # NoStatus /\ Allowed(req[r].from, req[r].to)

-----------------------------------------------------------------------------
(* The abstract ledger, in which a change of status is one atomic step.    *)

\* The statuses of the devices that are worked on in one request at a time.
statusOfSerialised == [d \in Serialised |-> status[d]]

Ledger == INSTANCE DeviceLedger WITH Devices <- Serialised, ledger <- statusOfSerialised

\* On the devices worked on in one request at a time, every step of the interleaved
\* requests is one atomic step of the ledger or leaves it alone.
ImplementsLedger == Ledger!Spec
=============================================================================
