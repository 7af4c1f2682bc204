----------------------- MODULE DeviceLifecycle_proofs -----------------------
(***************************************************************************)
(* Proofs about the device ledger, for any number of devices, requests,    *)
(* users and events: its types, what the event log says of the status, and *)
(* that the ledger refines DeviceLedger on the devices that no two         *)
(* requests work on at once.                                               *)
(*                                                                         *)
(* The invariants of the runs are statements about the log.  They are not  *)
(* inductive without what a request in flight has already established when *)
(* it reaches its write: that is InFlight, below.                          *)
(***************************************************************************)
EXTENDS DeviceLifecycle, TLAPS

\* What a request knows at the step it has reached.
InFlight(r) ==
  /\ req[r].pc \in {"read", "log"} => status[req[r].dev] # "absent"
  /\ req[r].pc = "commit" =>
       /\ req[r].from \in DEVICE_STATUSES
       /\ Allowed(req[r].from, req[r].to)
       /\ GateOpen(req[r].from, req[r].to, req[r].role, req[r].reason)
  /\ req[r].pc = "log" => req[r].from = NoStatus
  /\ req[r].pc \in {"reread", "dispatch"} => events[req[r].dev] # <<>>
  /\ req[r].pc \in {"read", "commit"} /\ req[r].kind = "generic" =>
       req[r].to \notin WorkflowOnly

\* A device goods-in has not received has no event.
AbsentHasNoEvents == \A d \in Devices : status[d] = "absent" => events[d] = <<>>

\* The inductive invariant.
IInv ==
  /\ TypeOK
  /\ \A r \in Requests : InFlight(r)
  /\ AbsentHasNoEvents

-----------------------------------------------------------------------------

\* The sentinels are not statuses.
LEMMA Sentinels == NoStatus \notin DEVICE_STATUSES /\ "absent" \notin DEVICE_STATUSES
BY DEF NoStatus, DEVICE_STATUSES

\* A request at a step before its write is a Request, one after it a Notice.
LEMMA PcTells ==
  ASSUME TypeOK, NEW r \in Requests
  PROVE  /\ req[r].pc \in {"read", "commit", "log"} => req[r] \in Request
         /\ req[r].pc \in {"reread", "dispatch"} => req[r] \in Notice
BY DEF TypeOK, Request, Notice, Rest

\* Appending to a log lengthens it by the new element and leaves the rest.
LEMMA AppendFacts ==
  ASSUME NEW S, NEW log \in Seq(S), NEW e \in S
  PROVE  /\ Append(log, e) \in Seq(S)
         /\ Len(log) \in Nat
         /\ DOMAIN log = 1..Len(log)
         /\ DOMAIN Append(log, e) = 1..(Len(log) + 1)
         /\ \A i \in 1..Len(log) : Append(log, e)[i] = log[i]
         /\ Append(log, e)[Len(log) + 1] = e
         /\ Append(log, e) # <<>>
<1>1. Append(log, e) \in Seq(S) /\ Len(Append(log, e)) = Len(log) + 1
  OBVIOUS
<1>2. Append(log, e) # <<>>
  BY <1>1
<1>3. Len(log) \in Nat /\ DOMAIN log = 1..Len(log) /\ DOMAIN Append(log, e) = 1..(Len(log) + 1)
  BY <1>1
<1>4. \A i \in 1..Len(log) : Append(log, e)[i] = log[i]
  OBVIOUS
<1>5. Append(log, e)[Len(log) + 1] = e
  OBVIOUS
<1> QED
  BY <1>1, <1>2, <1>3, <1>4, <1>5

\* The event the request in hand records, and its log before and after.
Recorded(r) ==
  [from |-> req[r].from, to |-> req[r].to, role |-> req[r].role, reason |-> req[r].reason]

\* AppendEvent(r) adds exactly the event the request describes, to the log of its
\* own device (the INSERT of logDeviceEvent()).
LEMMA AppendEventFacts ==
  ASSUME TypeOK, NEW r \in Requests, req[r] \in Request, AppendEvent(r)
  PROVE  LET d == req[r].dev  n == Len(events[d]) IN
         /\ events' \in [Devices -> Seq(Event)]
         /\ d \in Devices
         /\ n \in Nat
         /\ DOMAIN events[d] = 1..n
         /\ DOMAIN events'[d] = 1..(n + 1)
         /\ \A i \in 1..n : events'[d][i] = events[d][i]
         /\ events'[d][n + 1] = Recorded(r)
         /\ events'[d] # <<>>
         /\ \A c \in Devices : c # d => events'[c] = events[c]
<1> DEFINE d == req[r].dev
<1>1. Recorded(r) \in Event
  BY DEF Recorded, Request, Event
<1>2. d \in Devices
  BY DEF Request
<1>3. events[d] \in Seq(Event)
  BY <1>2 DEF TypeOK
<1>4. events' = [events EXCEPT ![d] = Append(events[d], Recorded(r))]
  BY DEF AppendEvent, Recorded
<1>5. events'[d] = Append(events[d], Recorded(r))
  BY <1>2, <1>4 DEF TypeOK
<1>6. \A c \in Devices : c # d => events'[c] = events[c]
  BY <1>4 DEF TypeOK
<1>7. events' \in [Devices -> Seq(Event)]
  BY <1>1, <1>3, <1>4, AppendFacts DEF TypeOK
<1>8. /\ Len(events[d]) \in Nat
      /\ DOMAIN events[d] = 1..Len(events[d])
      /\ DOMAIN events'[d] = 1..(Len(events[d]) + 1)
      /\ \A i \in 1..Len(events[d]) : events'[d][i] = events[d][i]
      /\ events'[d][Len(events[d]) + 1] = Recorded(r)
      /\ events'[d] # <<>>
  BY <1>1, <1>3, <1>5, AppendFacts
<1> QED
  BY <1>2, <1>6, <1>7, <1>8

\* The request a caller of transitionDevice() puts in flight.
LEMMA StartOnTypes ==
  ASSUME TypeOK, NEW r \in Requests, NEW d \in Devices, NEW kind \in {"generic", "workflow"},
         NEW to \in DEVICE_STATUSES, NEW role \in Roles, NEW reason \in Reasons,
         StartOn(r, d, kind, to, role, reason)
  PROVE  TypeOK'
<1>1. [ pc |-> "read", kind |-> kind, dev |-> d, from |-> NoStatus,
        to |-> to, role |-> role, reason |-> reason ] \in Request
  BY DEF Request
<1> QED
  BY <1>1 DEF TypeOK, StartOn

-----------------------------------------------------------------------------

\* The invariant holds before any device is received.
LEMMA InitIInv == Init => IInv
<1> SUFFICES ASSUME Init PROVE IInv
  OBVIOUS
<1>1. TypeOK
  BY DEF Init, TypeOK, DeviceState
<1>2. \A r \in Requests : InFlight(r)
  BY DEF Init, InFlight, Rest
<1>3. AbsentHasNoEvents
  BY DEF Init, AbsentHasNoEvents
<1> QED
  BY <1>1, <1>2, <1>3 DEF IInv

\* What a request knows stays true while others take steps: no step takes a
\* device back to "absent" or empties its log.
LEMMA OthersInFlight ==
  ASSUME IInv, NEW q \in Requests, req'[q] = req[q],
         \A d \in Devices : status[d] # "absent" => status'[d] # "absent",
         \A d \in Devices : events[d] # <<>> => events'[d] # <<>>
  PROVE  InFlight(q)'
<1>1. req[q].pc \in {"read", "log", "reread", "dispatch"} => req[q].dev \in Devices
  BY PcTells DEF IInv, Request, Notice
<1> QED
  BY <1>1 DEF IInv, InFlight

\* Starting a transition keeps the invariant.
LEMMA StartOnIInv ==
  ASSUME IInv, NEW r \in Requests, NEW d \in Devices, NEW kind \in {"generic", "workflow"},
         NEW to \in DEVICE_STATUSES, NEW role \in Roles, NEW reason \in Reasons,
         StartOn(r, d, kind, to, role, reason),
         kind = "generic" => to \notin WorkflowOnly
  PROVE  IInv'
<1>1. TypeOK'
  BY StartOnTypes DEF IInv
<1>2. InFlight(r)'
  BY DEF IInv, TypeOK, StartOn, InFlight
<1>3. \A q \in Requests : InFlight(q)'
  BY <1>2, OthersInFlight DEF IInv, TypeOK, StartOn
<1>4. AbsentHasNoEvents'
  BY DEF IInv, AbsentHasNoEvents, StartOn
<1> QED
  BY <1>1, <1>3, <1>4 DEF IInv

\* Ending a request, with the tables as they are, keeps the invariant.
LEMMA FinishIInv ==
  ASSUME IInv, NEW r \in Requests, Finish(r), UNCHANGED <<status, events>>
  PROVE  IInv'
<1>1. TypeOK'
  BY DEF IInv, TypeOK, Finish
<1>2. InFlight(r)'
  BY DEF IInv, TypeOK, Finish, InFlight, Rest
<1>3. \A q \in Requests : InFlight(q)'
  BY <1>2, OthersInFlight DEF IInv, TypeOK, Finish
<1>4. AbsentHasNoEvents'
  BY DEF IInv, AbsentHasNoEvents
<1> QED
  BY <1>1, <1>3, <1>4 DEF IInv

-----------------------------------------------------------------------------
(* One lemma per group of steps that touches a table.                      *)

\* The INSERT of goods-in keeps the invariant: the device had no event.
LEMMA ReceiveInsertIInv ==
  ASSUME IInv, NEW r \in Requests, NEW d \in Devices, ReceiveInsert(r, d)
  PROVE  IInv'
<1>1. TypeOK'
  BY Sentinels DEF IInv, TypeOK, ReceiveInsert, Request, Roles, Reasons,
     DeviceState, DEVICE_STATUSES
<1>2. InFlight(r)'
  BY DEF IInv, TypeOK, ReceiveInsert, InFlight
<1>3. \A q \in Requests : InFlight(q)'
  BY <1>2, OthersInFlight DEF IInv, TypeOK, ReceiveInsert
<1>4. AbsentHasNoEvents'
  BY DEF IInv, TypeOK, AbsentHasNoEvents, ReceiveInsert
<1> QED
  BY <1>1, <1>3, <1>4 DEF IInv

\* Logging RECEIVE keeps the invariant (logDeviceEvent() at the end of goods-in).
LEMMA ReceiveLogIInv ==
  ASSUME IInv, NEW r \in Requests, ReceiveLog(r)
  PROVE  IInv'
<1> DEFINE d == req[r].dev
<1>1. req[r] \in Request /\ d \in Devices
  BY PcTells DEF IInv, ReceiveLog, Request
<1>2. events' \in [Devices -> Seq(Event)]
  BY <1>1, AppendEventFacts DEF IInv, ReceiveLog
<1>3. TypeOK'
  BY <1>2 DEF IInv, TypeOK, ReceiveLog, Finish
<1>4. \A q \in Requests : InFlight(q)'
  <2> SUFFICES ASSUME NEW q \in Requests PROVE InFlight(q)'
    OBVIOUS
  <2>1. CASE q = r
    BY <2>1 DEF IInv, TypeOK, ReceiveLog, Finish, InFlight, Rest
  <2>2. CASE q # r
    <3>1. req'[q] = req[q]
      BY <2>2 DEF ReceiveLog, Finish
    <3>2. \A c \in Devices : events[c] # <<>> => events'[c] # <<>>
      BY <1>1, AppendEventFacts DEF IInv, ReceiveLog
    <3>3. \A c \in Devices : status[c] # "absent" => status'[c] # "absent"
      BY DEF ReceiveLog
    <3> QED
      BY <3>1, <3>2, <3>3, OthersInFlight
  <2> QED
    BY <2>1, <2>2
<1>5. AbsentHasNoEvents'
  <2> SUFFICES ASSUME NEW c \in Devices, status'[c] = "absent"
               PROVE  status[c] = "absent" /\ events'[c] = events[c]
    BY DEF IInv, AbsentHasNoEvents
  <2>1. status[c] = "absent" /\ c # d
    BY DEF IInv, InFlight, ReceiveLog
  <2> QED
    BY <1>1, <2>1, AppendEventFacts DEF IInv, ReceiveLog
<1> QED
  BY <1>3, <1>4, <1>5 DEF IInv

\* The batch of transitionDevice() keeps the invariant, whatever the status is by
\* the time it runs.
LEMMA CommitIInv ==
  ASSUME IInv, NEW r \in Requests, CommitTransition(r)
  PROVE  IInv'
<1> DEFINE d == req[r].dev
<1>1. req[r] \in Request /\ d \in Devices /\ req[r].to \in DEVICE_STATUSES
  BY PcTells DEF IInv, CommitTransition, Request
<1>2. events' \in [Devices -> Seq(Event)] /\ events'[d] # <<>>
  BY <1>1, AppendEventFacts DEF IInv, CommitTransition
<1>3. req'[r] \in Notice \cup {Rest}
  BY <1>1 DEF IInv, TypeOK, CommitTransition, Finish, Request, Notice
<1>4. TypeOK'
  <2>1. status' \in [Devices -> DeviceState]
    BY <1>1 DEF IInv, TypeOK, CommitTransition, DeviceState
  <2>2. \A q \in Requests : q # r => req'[q] = req[q]
    BY DEF IInv, TypeOK, CommitTransition, Finish
  <2>3. req' = [req EXCEPT ![r] = req'[r]]
    BY DEF IInv, TypeOK, CommitTransition, Finish
  <2> QED
    BY <1>2, <1>3, <2>1, <2>3 DEF IInv, TypeOK
<1>5. \A q \in Requests : InFlight(q)'
  <2> SUFFICES ASSUME NEW q \in Requests PROVE InFlight(q)'
    OBVIOUS
  <2>1. CASE q = r
    <3>1. req'[r].pc \in {"reread", "dispatch"} => req'[r].dev = d
      BY DEF IInv, TypeOK, CommitTransition, Finish, Rest
    <3>2. req'[r].pc \notin {"read", "commit", "log"}
      BY <1>3 DEF Notice, Rest
    <3> QED
      BY <1>2, <2>1, <3>1, <3>2 DEF InFlight
  <2>2. CASE q # r
    <3>1. req'[q] = req[q]
      BY <2>2 DEF IInv, TypeOK, CommitTransition, Finish
    <3>2. \A c \in Devices : events[c] # <<>> => events'[c] # <<>>
      BY <1>1, AppendEventFacts DEF IInv, CommitTransition
    <3>3. \A c \in Devices : status[c] # "absent" => status'[c] # "absent"
      BY <1>1, Sentinels DEF IInv, TypeOK, CommitTransition
    <3> QED
      BY <3>1, <3>2, <3>3, OthersInFlight
  <2> QED
    BY <2>1, <2>2
<1>6. AbsentHasNoEvents'
  <2> SUFFICES ASSUME NEW c \in Devices, status'[c] = "absent"
               PROVE  status[c] = "absent" /\ events'[c] = events[c]
    BY DEF IInv, AbsentHasNoEvents
  <2>1. c # d
    BY <1>1, Sentinels DEF IInv, TypeOK, CommitTransition
  <2> QED
    BY <1>1, <2>1, AppendEventFacts DEF IInv, CommitTransition
<1> QED
  BY <1>4, <1>5, <1>6 DEF IInv

\* The read of transitionDevice() keeps the invariant: a request that goes on has
\* checked the edge and the reject gate.
LEMMA ReadDeviceIInv ==
  ASSUME IInv, NEW r \in Requests, ReadDevice(r)
  PROVE  IInv'
<1> DEFINE d == req[r].dev
<1>1. req[r] \in Request /\ d \in Devices
  BY PcTells DEF IInv, ReadDevice, Request
<1>2. CASE /\ Allowed(status[d], req[r].to)
           /\ GateOpen(status[d], req[r].to, req[r].role, req[r].reason)
  <2>1. status[d] \in DEVICE_STATUSES
    BY <1>1 DEF IInv, TypeOK, DeviceState, ReadDevice, InFlight
  <2>2. req' = [req EXCEPT ![r].pc = "commit", ![r].from = status[d]]
    BY <1>2 DEF ReadDevice
  <2>3. req'[r] \in Request
    BY <1>1, <2>1, <2>2 DEF IInv, TypeOK, Request
  <2>4. TypeOK'
    BY <2>2, <2>3 DEF IInv, TypeOK, ReadDevice
  <2>5. InFlight(r)'
    <3>1. req'[r] = [req[r] EXCEPT !.pc = "commit", !.from = status[d]]
      BY <2>2 DEF IInv, TypeOK
    <3>2. /\ req'[r].pc = "commit" /\ req'[r].from = status[d] /\ req'[r].to = req[r].to
          /\ req'[r].role = req[r].role /\ req'[r].reason = req[r].reason
          /\ req'[r].kind = req[r].kind
      BY <1>1, <3>1 DEF Request
    <3> QED
      BY <1>2, <2>1, <3>2 DEF IInv, InFlight, ReadDevice
  <2>6. \A q \in Requests : InFlight(q)'
    BY <2>2, <2>5, OthersInFlight DEF IInv, TypeOK, ReadDevice
  <2> QED
    BY <2>4, <2>6 DEF IInv, AbsentHasNoEvents, ReadDevice
<1>3. CASE ~(/\ Allowed(status[d], req[r].to)
             /\ GateOpen(status[d], req[r].to, req[r].role, req[r].reason))
  BY <1>3, FinishIInv DEF ReadDevice
<1> QED
  BY <1>2, <1>3

\* Reading the latest event back for the webhook keeps the invariant.
LEMMA RereadEventIInv ==
  ASSUME IInv, NEW r \in Requests, RereadEvent(r)
  PROVE  IInv'
<1> DEFINE d   == req[r].dev
           log == events[d]
<1>1. req[r] \in Notice /\ d \in Devices
  BY PcTells DEF IInv, RereadEvent, Notice
<1>2. log \in Seq(Event) /\ log # <<>>
  BY <1>1 DEF IInv, TypeOK, RereadEvent, InFlight
<1>3. log[Len(log)] \in Event
  BY <1>2
<1>4. req' = [req EXCEPT ![r].pc = "dispatch", ![r].from = log[Len(log)].from]
  BY DEF RereadEvent
<1>5. req'[r] = [req[r] EXCEPT !.pc = "dispatch", !.from = log[Len(log)].from]
  BY <1>4 DEF IInv, TypeOK
<1>6. req'[r] \in Notice /\ req'[r].dev = d /\ req'[r].pc = "dispatch"
  BY <1>1, <1>3, <1>5 DEF Notice, Event
<1>7. TypeOK'
  BY <1>4, <1>6 DEF IInv, TypeOK, RereadEvent
<1>8. InFlight(r)'
  BY <1>2, <1>6 DEF InFlight, RereadEvent
<1>9. \A q \in Requests : InFlight(q)'
  BY <1>4, <1>8, OthersInFlight DEF IInv, TypeOK, RereadEvent
<1> QED
  BY <1>7, <1>9 DEF IInv, AbsentHasNoEvents, RereadEvent

\* A request that starts keeps the invariant, whichever route it is.
LEMMA BeginIInv ==
  ASSUME IInv, NEW r \in Requests, NEW d \in Devices, Begin(r, d)
  PROVE  IInv'
<1>1. CASE ReceiveInsert(r, d)
  BY <1>1, ReceiveInsertIInv
<1>2. ASSUME NEW to \in DEVICE_STATUSES, NEW u \in Users, NEW why \in ReasonCodes,
             GenericTransition(r, d, to, u, why)
      PROVE  IInv'
  BY <1>2, StartOnIInv, LifecycleAssumption DEF GenericTransition
<1>3. ASSUME NEW to \in DEVICE_STATUSES, NEW u \in Users, NEW why \in ReasonCodes,
             BulkTransitionRow(r, d, to, u, why)
      PROVE  IInv'
  <2> DEFINE reason == IF BulkGateFromStatus(to) = NoStatus THEN "none" ELSE why
  <2>1. reason \in Reasons /\ u \in Roles
    BY LifecycleAssumption DEF Reasons
  <2>2. to \notin WorkflowOnly /\ StartOn(r, d, "generic", to, u, reason)
    BY <1>3 DEF BulkTransitionRow
  <2> HIDE DEF reason
  <2> QED
    BY <2>1, <2>2, StartOnIInv
<1>4. ASSUME NEW to \in DEVICE_STATUSES, WorkflowTransition(r, d, to)
      PROVE  IInv'
  <2>1. "operator" \in Roles /\ "none" \in Reasons
    BY DEF Roles, Reasons
  <2> QED
    BY <1>4, <2>1, StartOnIInv DEF WorkflowTransition
<1> QED
  BY <1>1, <1>2, <1>3, <1>4 DEF Begin

\* A step of a running request keeps the invariant.
LEMMA StepIInv ==
  ASSUME IInv, NEW r \in Requests, Step(r)
  PROVE  IInv'
<1>1. CASE ReceiveLog(r)
  BY <1>1, ReceiveLogIInv
<1>2. CASE ReadDevice(r)
  BY <1>2, ReadDeviceIInv
<1>3. CASE CommitTransition(r)
  BY <1>3, CommitIInv
<1>4. CASE RereadEvent(r)
  BY <1>4, RereadEventIInv
<1>5. CASE DispatchWebhook(r)
  BY <1>5, FinishIInv DEF DispatchWebhook
<1>6. CASE Abandon(r)
  BY <1>6, FinishIInv DEF Abandon
<1> QED
  BY <1>1, <1>2, <1>3, <1>4, <1>5, <1>6 DEF Step

\* A step that changes nothing keeps the invariant.
LEMMA StutterIInv ==
  ASSUME IInv, UNCHANGED vars
  PROVE  IInv'
<1>1. status' = status /\ events' = events /\ req' = req
  BY DEF vars
<1>2. TypeOK'
  BY <1>1 DEF IInv, TypeOK
<1>3. \A q \in Requests : InFlight(q)'
  BY <1>1 DEF IInv, InFlight
<1> QED
  BY <1>1, <1>2, <1>3 DEF IInv, AbsentHasNoEvents

\* The inductive invariant holds in every reachable state.
THEOREM Inductive == Spec => []IInv
<1>1. IInv /\ [Next]_vars => IInv'
  BY StepIInv, BeginIInv, StutterIInv DEF Next
<1> QED
  BY InitIInv, <1>1, PTL DEF Spec

\* Every variable keeps its type: what transitionDevice() and logDeviceEvent()
\* write is always a status of the enum and a well-formed event.
THEOREM TypeCorrect == Spec => []TypeOK
<1>1. IInv => TypeOK
  BY DEF IInv
<1> QED
  BY Inductive, <1>1, PTL

-----------------------------------------------------------------------------
(* What the log says.                                                      *)

\* A step leaves the log alone or appends the event of one request: the
\* RECEIVE of goods-in, or a move that the request checked.
LEMMA StepOnLog ==
  ASSUME IInv, [Next]_vars
  PROVE  \/ events' = events
         \/ \E r \in Requests :
              /\ req[r] \in Request
              /\ AppendEvent(r)
              /\ \/ ReceiveLog(r) /\ Recorded(r).from = NoStatus
                 \/ /\ CommitTransition(r)
                    /\ Recorded(r).from \in DEVICE_STATUSES
                    /\ Allowed(Recorded(r).from, Recorded(r).to)
                    /\ GateOpen(Recorded(r).from, Recorded(r).to,
                                Recorded(r).role, Recorded(r).reason)
<1>1. ASSUME NEW r \in Requests, ReceiveLog(r)
      PROVE  req[r] \in Request /\ AppendEvent(r) /\ Recorded(r).from = NoStatus
  BY <1>1, PcTells DEF IInv, InFlight, ReceiveLog, Recorded
<1>2. ASSUME NEW r \in Requests, CommitTransition(r)
      PROVE  /\ req[r] \in Request
             /\ AppendEvent(r)
             /\ Recorded(r).from \in DEVICE_STATUSES
             /\ Allowed(Recorded(r).from, Recorded(r).to)
             /\ GateOpen(Recorded(r).from, Recorded(r).to,
                         Recorded(r).role, Recorded(r).reason)
  BY <1>2, PcTells DEF IInv, InFlight, CommitTransition, Recorded
<1>3. ASSUME NEW r \in Requests, NEW d \in Devices, Begin(r, d)
      PROVE  events' = events
  BY <1>3 DEF Begin, ReceiveInsert, GenericTransition, BulkTransitionRow,
     WorkflowTransition, StartOn
<1>4. ASSUME NEW r \in Requests, Step(r)
      PROVE  events' = events \/ ReceiveLog(r) \/ CommitTransition(r)
  BY <1>4 DEF Step, ReadDevice, RereadEvent, DispatchWebhook, Abandon
<1> QED
  BY <1>1, <1>2, <1>3, <1>4 DEF Next, vars

\* A property of every event of every log holds after a step if it held before
\* and the event appended, if there is one, has it: stated for the conjunction
\* of the two that the runs check.
GoodEvent(e) ==
  /\ IsMove(e) => Allowed(e.from, e.to)
  /\ IsRejectEdge(e.from, e.to) \/ IsUnrejectEdge(e.from, e.to)
       => IsManager(e.role) /\ ReasonFits(e.from, e.to, e.reason)

\* Every event on record is good.
GoodLog == \A d \in Devices : \A i \in DOMAIN events[d] : GoodEvent(events[d][i])

\* A step appends good events only: allowed moves, with rejections gated.
LEMMA GoodLogStep ==
  ASSUME IInv, GoodLog, [Next]_vars
  PROVE  GoodLog'
<1> SUFFICES ASSUME NEW r \in Requests, req[r] \in Request, AppendEvent(r),
                    GoodEvent(Recorded(r))
             PROVE  GoodLog'
  <2>1. ASSUME NEW r \in Requests, Recorded(r).from = NoStatus
        PROVE  GoodEvent(Recorded(r))
    BY <2>1 DEF GoodEvent, IsMove, IsRejectEdge, IsUnrejectEdge, NoStatus
  <2>2. ASSUME NEW r \in Requests,
               Allowed(Recorded(r).from, Recorded(r).to),
               GateOpen(Recorded(r).from, Recorded(r).to, Recorded(r).role, Recorded(r).reason)
        PROVE  GoodEvent(Recorded(r))
    BY <2>2 DEF GoodEvent, GateOpen
  <2>3. events' = events => GoodLog'
    BY DEF GoodLog, GoodEvent, IsMove
  <2> QED
    BY <2>1, <2>2, <2>3, StepOnLog
<1> SUFFICES ASSUME NEW d \in Devices, NEW i \in DOMAIN events'[d]
             PROVE  GoodEvent(events'[d][i])
  BY DEF GoodLog, GoodEvent, IsMove
<1>1. CASE d # req[r].dev
  <2>1. events'[d] = events[d]
    BY <1>1, AppendEventFacts DEF IInv
  <2> QED
    BY <2>1 DEF GoodLog
<1>2. CASE d = req[r].dev
  <2> DEFINE n == Len(events[d])
  <2>1. /\ n \in Nat /\ DOMAIN events[d] = 1..n /\ DOMAIN events'[d] = 1..(n + 1)
        /\ \A k \in 1..n : events'[d][k] = events[d][k]
        /\ events'[d][n + 1] = Recorded(r)
    BY <1>2, AppendEventFacts DEF IInv
  <2>2. CASE i \in 1..n
    BY <2>1, <2>2 DEF GoodLog
  <2>3. CASE i = n + 1
    BY <2>1, <2>3
  <2> QED
    BY <2>1, <2>2, <2>3
<1> QED
  BY <1>1, <1>2

\* Every event on record is a goods-in or an allowed move, with the role and the
\* reason the reject gate asks for.
THEOREM LogIsGood == Spec => []GoodLog
<1>1. Init => GoodLog
  BY DEF Init, GoodLog
<1>2. IInv /\ GoodLog /\ [Next]_vars => GoodLog'
  BY GoodLogStep
<1> QED
  BY Inductive, <1>1, <1>2, PTL DEF Spec

\* No status change that ALLOWED_TRANSITIONS does not list is ever recorded, by
\* however many racing requests.
THEOREM RecordedMovesAreAllowed == Spec => []RecordedMovesAllowed
<1>1. GoodLog => RecordedMovesAllowed
  BY DEF GoodLog, GoodEvent, RecordedMovesAllowed
<1> QED
  BY LogIsGood, <1>1, PTL

\* Every rejection and un-rejection on record was made by a manager with a
\* reason code of the list of its edge.
THEOREM RejectionsStayGated == Spec => []RejectionsAreGated
<1>1. GoodLog => RejectionsAreGated
  BY DEF GoodLog, GoodEvent, RejectionsAreGated
<1> QED
  BY LogIsGood, <1>1, PTL

-----------------------------------------------------------------------------
(* The generic and bulk routes.                                            *)

\* A step that a generic or bulk request takes, and that moves a device, is its batch.
LEMMA CommitsOnly ==
  ASSUME IInv, [Next]_vars, NEW r \in Requests, GenericStep(r),
         NEW d \in Devices, status'[d] # status[d]
  PROVE  CommitTransition(r)
<1>1. Busy(r) /\ req'[r] # req[r]
  BY DEF GenericStep, Busy, Rest
<1>2. ASSUME NEW q \in Requests, NEW c \in Devices PROVE ~Begin(q, c)
  <2>1. Begin(q, c) => ~Busy(q) /\ \A p \in Requests : p # q => req'[p] = req[p]
    BY DEF IInv, TypeOK, Begin, ReceiveInsert, GenericTransition,
       BulkTransitionRow, WorkflowTransition, StartOn, MayStart
  <2> QED
    BY <1>1, <2>1
<1>3. PICK q \in Requests : Step(q)
  BY <1>1, <1>2 DEF Next, vars
<1>4. CommitTransition(q)
  BY <1>3 DEF Step, ReceiveLog, ReadDevice, RereadEvent, DispatchWebhook, Abandon
<1>5. q = r
  BY <1>1, <1>4 DEF IInv, TypeOK, CommitTransition, Finish
<1> QED
  BY <1>4, <1>5

\* A step of a generic or bulk request never puts a device in a status that
\* belongs to the consignment or repair workflow, whatever happens between its
\* checks and its write: the target it tested is the target it writes.
THEOREM GenericStaysOut == Spec => GenericNeverEntersWorkflow
<1> DEFINE Holds == \A r \in Requests : GenericStep(r) =>
              \A d \in Devices : status'[d] \in WorkflowOnly => status'[d] = status[d]
<1>1. ASSUME IInv, [Next]_vars, NEW r \in Requests, GenericStep(r), NEW d \in Devices,
             status'[d] # status[d]
      PROVE  status'[d] \notin WorkflowOnly
  <2>1. CommitTransition(r)
    BY <1>1, CommitsOnly
  <2>2. status'[d] = req[r].to
    BY <1>1, <2>1 DEF IInv, TypeOK, CommitTransition
  <2> QED
    BY <1>1, <2>2 DEF IInv, InFlight, GenericStep
<1>2. IInv /\ [Next]_vars => [Holds]_vars
  BY <1>1
<1> QED
  BY Inductive, <1>2, PTL DEF Spec, GenericNeverEntersWorkflow

-----------------------------------------------------------------------------
(* The refinement.  While no two requests work on a device, what a request *)
(* read is still true when it writes.                                      *)

\* The request works on a device that no other works on meanwhile.
OnSerialised(r) == Busy(r) /\ req[r].dev \in Serialised

\* No two requests work on the same one.
Alone ==
  \A q, r \in Requests : OnSerialised(q) /\ Busy(r) /\ req[q].dev = req[r].dev => q = r

\* A request about to write still sees the status it read.
ReadIsFresh ==
  \A r \in Requests : OnSerialised(r) /\ req[r].pc = "commit" => status[req[r].dev] = req[r].from

\* A busy request keeps its device and the others keep everything.
LEMMA StepKeepsDevice ==
  ASSUME IInv, NEW r \in Requests, Step(r)
  PROVE  /\ \A q \in Requests : q # r => req'[q] = req[q]
         /\ Busy(r)
         /\ Busy(r)' => req'[r].dev = req[r].dev
<1>1. CASE ReceiveLog(r) \/ DispatchWebhook(r) \/ Abandon(r)
  BY <1>1 DEF IInv, TypeOK, ReceiveLog, DispatchWebhook, Abandon, Finish, Busy, Rest
<1>2. CASE ReadDevice(r)
  <2>1. req[r] \in Request
    BY <1>2, PcTells DEF IInv, ReadDevice
  <2>2. req[r].pc = "read"
    BY <1>2 DEF ReadDevice
  <2> QED
    BY <1>2, <2>1, <2>2 DEF IInv, TypeOK, ReadDevice, Finish, Busy, Rest, Request
<1>3. CASE CommitTransition(r)
  BY <1>3 DEF IInv, TypeOK, CommitTransition, Finish, Busy, Rest
<1>4. CASE RereadEvent(r)
  <2>1. req[r] \in Notice
    BY <1>4, PcTells DEF IInv, RereadEvent
  <2>2. req[r].pc = "reread"
    BY <1>4 DEF RereadEvent
  <2> QED
    BY <1>4, <2>1, <2>2 DEF IInv, TypeOK, RereadEvent, Busy, Rest, Notice
<1> QED
  BY <1>1, <1>2, <1>3, <1>4 DEF Step

\* A request starts on a device nobody is working on.
LEMMA BeginIsAlone ==
  ASSUME IInv, NEW r \in Requests, NEW d \in Devices, Begin(r, d)
  PROVE  /\ \A q \in Requests : q # r => req'[q] = req[q]
         /\ ~Busy(r)
         /\ d \in Serialised => \A q \in Requests : Busy(q) => req[q].dev # d
         /\ req'[r].dev = d
         /\ req'[r].pc # "commit"
BY DEF IInv, TypeOK, Begin, ReceiveInsert, GenericTransition, BulkTransitionRow,
   WorkflowTransition, StartOn, MayStart

\* With the staff working on a device one at a time, no two requests share one.
LEMMA AloneStep ==
  ASSUME IInv, Alone, [Next]_vars
  PROVE  Alone'
<1>1. CASE UNCHANGED vars
  BY <1>1 DEF Alone, OnSerialised, Busy, Rest, vars
<1>2. ASSUME NEW r \in Requests, Step(r)
      PROVE  Alone'
  BY <1>2, StepKeepsDevice DEF Alone, OnSerialised, Busy, Rest
<1>3. ASSUME NEW r \in Requests, NEW d \in Devices, Begin(r, d)
      PROVE  Alone'
  BY <1>3, BeginIsAlone DEF Alone, OnSerialised, Busy, Rest
<1> QED
  BY <1>1, <1>2, <1>3 DEF Next

\* Then what a request read is still the status when it writes.
LEMMA FreshStep ==
  ASSUME IInv, Alone, ReadIsFresh, [Next]_vars
  PROVE  ReadIsFresh'
<1> SUFFICES ASSUME NEW q \in Requests, OnSerialised(q)', req'[q].pc = "commit"
             PROVE  status'[req'[q].dev] = req'[q].from
  BY DEF ReadIsFresh
<1> USE DEF OnSerialised
<1>1. CASE UNCHANGED vars
  BY <1>1 DEF ReadIsFresh, Busy, Rest, vars
<1>2. ASSUME NEW r \in Requests, NEW d \in Devices, Begin(r, d)
      PROVE  status'[req'[q].dev] = req'[q].from
  <2>1. q # r /\ req'[q] = req[q] /\ Busy(q) /\ req[q].dev # d
    BY <1>2, BeginIsAlone DEF Busy, Rest
  <2>2. \A c \in Devices : c # d => status'[c] = status[c]
    BY <1>2 DEF IInv, TypeOK, Begin, ReceiveInsert, GenericTransition,
       BulkTransitionRow, WorkflowTransition, StartOn
  <2>3. req[q].dev \in Devices
    BY <2>1, PcTells DEF IInv, Request
  <2> QED
    BY <2>1, <2>2, <2>3 DEF ReadIsFresh
<1>3. ASSUME NEW r \in Requests, Step(r), q # r
      PROVE  status'[req'[q].dev] = req'[q].from
  <2>1. req'[q] = req[q] /\ Busy(q) /\ Busy(r)
    BY <1>3, StepKeepsDevice DEF Busy, Rest
  <2>2. req[q].dev \in Devices /\ req[q].dev # req[r].dev
    BY <1>3, <2>1, PcTells DEF IInv, Request, Alone
  <2>3. \A c \in Devices : c # req[r].dev => status'[c] = status[c]
    BY <1>3 DEF IInv, TypeOK, Step, ReceiveLog, ReadDevice, CommitTransition,
       RereadEvent, DispatchWebhook, Abandon
  <2> QED
    BY <2>1, <2>2, <2>3 DEF ReadIsFresh
<1>4. ASSUME Step(q)
      PROVE  status'[req'[q].dev] = req'[q].from
  <2>1. ReadDevice(q)
    <3>1. ~ReceiveLog(q) /\ ~DispatchWebhook(q) /\ ~Abandon(q)
      BY DEF IInv, TypeOK, ReceiveLog, DispatchWebhook, Abandon, Finish, Rest
    <3>2. ~CommitTransition(q)
      BY DEF IInv, TypeOK, CommitTransition, Finish, Rest
    <3>3. ASSUME RereadEvent(q) PROVE FALSE
      <4>1. req[q] \in Notice
        BY <3>3, PcTells DEF IInv, RereadEvent
      <4>2. req'[q].pc = "dispatch"
        BY <3>3, <4>1 DEF IInv, TypeOK, RereadEvent, Notice
      <4> QED
        BY <4>2
    <3> QED
      BY <1>4, <3>1, <3>2, <3>3 DEF Step
  <2>2. req[q] \in Request
    BY <2>1, PcTells DEF IInv, ReadDevice
  <2>3. req'[q] = [req[q] EXCEPT !.pc = "commit", !.from = status[req[q].dev]]
    <3>1. ~Finish(q)
      BY DEF IInv, TypeOK, Finish, Rest
    <3>2. req' = [req EXCEPT ![q].pc = "commit", ![q].from = status[req[q].dev]]
      BY <2>1, <3>1 DEF ReadDevice
    <3> QED
      BY <3>2 DEF IInv, TypeOK
  <2>4. req'[q].dev = req[q].dev /\ req'[q].from = status[req[q].dev] /\ status' = status
    BY <2>1, <2>2, <2>3 DEF ReadDevice, Request
  <2> QED
    BY <2>4
<1> QED
  BY <1>1, <1>2, <1>3, <1>4 DEF Next

\* A step that leaves the devices worked on in one request at a time alone is none of
\* the ledger's.
LEMMA ElsewhereIsNoStep ==
  ASSUME \A d \in Serialised : status'[d] = status[d]
  PROVE  statusOfSerialised' = statusOfSerialised
BY DEF statusOfSerialised

\* Each step of a request is one step of the ledger, or none.
LEMMA StepRefines ==
  ASSUME IInv, ReadIsFresh, [Next]_vars
  PROVE  [Ledger!Next]_statusOfSerialised
<1>1. CASE UNCHANGED vars
  BY <1>1, ElsewhereIsNoStep DEF vars
<1>2. ASSUME NEW r \in Requests, NEW d \in Devices, ReceiveInsert(r, d)
      PROVE  [Ledger!Next]_statusOfSerialised
  <2>1. status[d] = "absent" /\ status' = [status EXCEPT ![d] = "RECEIVED"]
    BY <1>2 DEF ReceiveInsert
  <2>2. CASE d \in Serialised
    <3>1. statusOfSerialised[d] = "absent"
          /\ statusOfSerialised' = [statusOfSerialised EXCEPT ![d] = "RECEIVED"]
      BY <2>1, <2>2, LifecycleAssumption DEF statusOfSerialised, IInv, TypeOK
    <3> QED
      BY <2>2, <3>1 DEF Ledger!Next, Ledger!Receive
  <2>3. CASE d \notin Serialised
    BY <2>1, <2>3, ElsewhereIsNoStep, LifecycleAssumption DEF IInv, TypeOK
  <2> QED
    BY <2>2, <2>3
<1>3. ASSUME NEW r \in Requests, CommitTransition(r)
      PROVE  [Ledger!Next]_statusOfSerialised
  <2> DEFINE d == req[r].dev
  <2>1. req[r] \in Request /\ d \in Devices /\ Busy(r)
    BY <1>3, PcTells DEF IInv, CommitTransition, Request, Busy, Rest
  <2>2. status' = [status EXCEPT ![d] = req[r].to]
    BY <1>3 DEF CommitTransition
  <2>3. CASE d \in Serialised
    <3>1. status[d] = req[r].from /\ req[r].from \in DEVICE_STATUSES
          /\ req[r].to \in ALLOWED_TRANSITIONS[req[r].from]
      BY <1>3, <2>1, <2>3 DEF IInv, InFlight, ReadIsFresh, OnSerialised, CommitTransition, Allowed
    <3>2. statusOfSerialised[d] = status[d] /\ status[d] # "absent"
      BY <2>3, <3>1, Sentinels DEF statusOfSerialised
    <3>3. statusOfSerialised' = [statusOfSerialised EXCEPT ![d] = req[r].to]
      BY <2>2, <2>3, LifecycleAssumption DEF statusOfSerialised, IInv, TypeOK
    <3>4. Ledger!Move(d)
      BY <3>1, <3>2, <3>3 DEF Ledger!Move, Ledger!ALLOWED_TRANSITIONS, ALLOWED_TRANSITIONS
    <3> QED
      BY <2>3, <3>4 DEF Ledger!Next
  <2>4. CASE d \notin Serialised
    BY <2>1, <2>2, <2>4, ElsewhereIsNoStep, LifecycleAssumption DEF IInv, TypeOK
  <2> QED
    BY <2>3, <2>4
<1>4. ASSUME NEW r \in Requests, NEW d \in Devices, Begin(r, d), ~ReceiveInsert(r, d)
      PROVE  [Ledger!Next]_statusOfSerialised
  BY <1>4, ElsewhereIsNoStep DEF Begin, GenericTransition, BulkTransitionRow, WorkflowTransition, StartOn
<1>5. ASSUME NEW r \in Requests, Step(r), ~CommitTransition(r)
      PROVE  [Ledger!Next]_statusOfSerialised
  BY <1>5, ElsewhereIsNoStep DEF Step, ReceiveLog, ReadDevice, RereadEvent, DispatchWebhook, Abandon
<1> QED
  BY <1>1, <1>2, <1>3, <1>4, <1>5 DEF Next

\* On the devices that no two requests work on at once, the interleaved, killable
\* requests implement the atomic ledger: a device is received once and moves only
\* along the edges of ALLOWED_TRANSITIONS.
THEOREM LifecycleImplementsLedger == Spec => ImplementsLedger
<1>1. Init => Alone /\ ReadIsFresh
  BY DEF Init, Alone, ReadIsFresh, OnSerialised, Busy, Rest
<1>2. IInv /\ Alone /\ ReadIsFresh /\ [Next]_vars => (Alone /\ ReadIsFresh)'
  BY AloneStep, FreshStep
<1>3. Spec => [](Alone /\ ReadIsFresh)
  BY Inductive, <1>1, <1>2, PTL DEF Spec
<1>4. Init => Ledger!Init
  BY LifecycleAssumption DEF Init, Ledger!Init, statusOfSerialised
<1>5. IInv /\ ReadIsFresh /\ [Next]_vars => [Ledger!Next]_statusOfSerialised
  BY StepRefines
<1> QED
  BY Inductive, <1>3, <1>4, <1>5, PTL DEF Spec, ImplementsLedger, Ledger!Spec
-----------------------------------------------------------------------------
(* What else a request may rely on while no two work on a device: that the *)
(* device it received has no event before its own, that the one it moves   *)
(* is still outside the workflows, and that the event it reads back is its *)
(* own.                                                                    *)

\* What request q may rely on at the step it has reached.
Relies(q) ==
  /\ req[q].pc = "log" => events[req[q].dev] = <<>> /\ status[req[q].dev] = req[q].to
  /\ req[q].pc \in {"read", "commit"} /\ req[q].kind = "generic" =>
       status[req[q].dev] \notin WorkflowOnly
  /\ req[q].pc = "reread" =>
       LET log == events[req[q].dev] IN
       /\ log[Len(log)].from \in DEVICE_STATUSES
       /\ Allowed(log[Len(log)].from, req[q].to)
  /\ req[q].pc = "dispatch" => req[q].from # NoStatus /\ Allowed(req[q].from, req[q].to)

\* All of them.
AllRely == \A r \in Requests : OnSerialised(r) => Relies(r)

\* A step of another request, or the start of one, leaves the device of q alone.
LEMMA OthersLeaveDevice ==
  ASSUME IInv, Alone, NEW q \in Requests, OnSerialised(q),
         \/ \E r \in Requests : r # q /\ Step(r)
         \/ \E r \in Requests, d \in Devices : Begin(r, d)
  PROVE  /\ req'[q] = req[q]
         /\ status'[req[q].dev] = status[req[q].dev]
         /\ events'[req[q].dev] = events[req[q].dev]
<1>1. Busy(q) /\ req[q].dev \in Devices /\ req[q].dev \in Serialised
  BY DEF IInv, TypeOK, OnSerialised, Busy, Request, Notice
<1>2. ASSUME NEW r \in Requests, NEW d \in Devices, Begin(r, d)
      PROVE  /\ req'[q] = req[q]
             /\ status'[req[q].dev] = status[req[q].dev]
             /\ events'[req[q].dev] = events[req[q].dev]
  <2>1. req'[q] = req[q] /\ req[q].dev # d
    BY <1>1, <1>2, BeginIsAlone
  <2>2. events' = events /\ \A c \in Devices : c # d => status'[c] = status[c]
    BY <1>2 DEF IInv, TypeOK, Begin, ReceiveInsert, GenericTransition,
       BulkTransitionRow, WorkflowTransition, StartOn
  <2> QED
    BY <1>1, <2>1, <2>2
<1>3. ASSUME NEW r \in Requests, r # q, Step(r)
      PROVE  /\ req'[q] = req[q]
             /\ status'[req[q].dev] = status[req[q].dev]
             /\ events'[req[q].dev] = events[req[q].dev]
  <2>1. req'[q] = req[q] /\ req[q].dev # req[r].dev
    <3>1. Busy(r) /\ req'[q] = req[q]
      BY <1>3, StepKeepsDevice
    <3>2. OnSerialised(q) /\ q # r
      BY <1>3
    <3>3. req[q].dev # req[r].dev
      BY <3>1, <3>2 DEF Alone
    <3> QED BY <3>1, <3>3
  <2>2. \A c \in Devices : c # req[r].dev => status'[c] = status[c] /\ events'[c] = events[c]
    BY <1>3 DEF IInv, TypeOK, Step, ReceiveLog, ReadDevice, CommitTransition, AppendEvent,
       RereadEvent, DispatchWebhook, Abandon
  <2> QED
    BY <1>1, <2>1, <2>2
<1> QED
  BY <1>2, <1>3

\* What a request that starts relies on holds.
LEMMA ReliesWhenBegun ==
  ASSUME IInv, NEW r \in Requests, NEW d \in Devices, Begin(r, d)
  PROVE  Relies(r)'
<1>1. CASE ReceiveInsert(r, d)
  BY <1>1 DEF IInv, TypeOK, AbsentHasNoEvents, ReceiveInsert, Relies
<1>2. ASSUME NEW kind, NEW to, NEW role, NEW reason, StartOn(r, d, kind, to, role, reason),
             kind = "generic" => status[d] \notin WorkflowOnly
      PROVE  Relies(r)'
  BY <1>2 DEF IInv, TypeOK, StartOn, Relies
<1> QED
  BY <1>1, <1>2 DEF Begin, GenericTransition, BulkTransitionRow, WorkflowTransition

\* So does what it relies on after a step of its own.
LEMMA ReliesAfterStep ==
  ASSUME IInv, NEW r \in Requests, Step(r), Relies(r)
  PROVE  Relies(r)'
<1>1. CASE Finish(r)
  BY <1>1 DEF IInv, TypeOK, Finish, Rest, Relies
<1>2. CASE ReadDevice(r) /\ ~Finish(r)
  <2>1. PICK x \in Request : x = req[r]
    BY <1>2, PcTells DEF IInv, ReadDevice
  <2>2. PICK y : y = req'[r]
    OBVIOUS
  <2>3. /\ y = [x EXCEPT !.pc = "commit", !.from = status[x.dev]]
        /\ status' = status /\ x.pc = "read"
    BY <1>2, <2>1, <2>2 DEF IInv, TypeOK, ReadDevice
  <2>4. y.pc = "commit" /\ y.kind = x.kind /\ y.dev = x.dev
    BY <2>1, <2>3 DEF Request
  <2>5. x.kind = "generic" => status[x.dev] \notin WorkflowOnly
    BY <2>1, <2>3 DEF Relies
  <2> QED
    BY <2>2, <2>3, <2>4, <2>5 DEF Relies
<1>3. CASE CommitTransition(r) /\ ~Finish(r)
  <2>1. PICK x \in Request : x = req[r]
    BY <1>3, PcTells DEF IInv, CommitTransition
  <2>2. PICK n : /\ n \in Nat /\ n + 1 = Len(events'[x.dev])
                 /\ events'[x.dev][n + 1].from = x.from
    <3>1. /\ events' \in [Devices -> Seq(Event)]
          /\ x.dev \in Devices
          /\ Len(events[x.dev]) \in Nat
          /\ DOMAIN events'[x.dev] = 1..(Len(events[x.dev]) + 1)
          /\ events'[x.dev][Len(events[x.dev]) + 1] = Recorded(r)
      BY <1>3, <2>1, AppendEventFacts DEF IInv, CommitTransition
    <3>2. PICK log \in Seq(Event) : log = events'[x.dev]
      BY <3>1
    <3>3. Len(log) = Len(events[x.dev]) + 1
      BY <3>1, <3>2
    <3>4. Recorded(r).from = x.from
      BY <2>1 DEF Recorded
    <3> QED
      BY <3>1, <3>2, <3>3, <3>4
  <2>3. x.from \in DEVICE_STATUSES /\ Allowed(x.from, x.to)
    BY <1>3, <2>1 DEF IInv, InFlight, CommitTransition
  <2>4. req'[r].pc = "reread" /\ req'[r].dev = x.dev /\ req'[r].to = x.to
    BY <1>3, <2>1 DEF IInv, TypeOK, CommitTransition
  <2> QED
    BY <2>2, <2>3, <2>4 DEF Relies
<1>4. CASE RereadEvent(r)
  <2>1. PICK x \in Notice : x = req[r]
    BY <1>4, PcTells DEF IInv, RereadEvent
  <2>2. PICK y : y = req'[r]
    OBVIOUS
  <2>3. PICK f : f = events[x.dev][Len(events[x.dev])].from
    OBVIOUS
  <2>4. y = [x EXCEPT !.pc = "dispatch", !.from = f] /\ x.pc = "reread"
    BY <1>4, <2>1, <2>2, <2>3 DEF IInv, TypeOK, RereadEvent
  <2>5. y.pc = "dispatch" /\ y.from = f /\ y.to = x.to
    BY <2>1, <2>4 DEF Notice
  <2>6. f \in DEVICE_STATUSES /\ Allowed(f, x.to)
    BY <2>1, <2>3, <2>4 DEF Relies
  <2> QED
    BY <2>2, <2>5, <2>6, Sentinels DEF Relies
<1> QED
  BY <1>1, <1>2, <1>3, <1>4 DEF Step, ReceiveLog, DispatchWebhook, Abandon

\* Every step keeps what every request relies on.
LEMMA ReliesStep ==
  ASSUME IInv, Alone, AllRely, [Next]_vars
  PROVE  AllRely'
<1>1. ASSUME NEW q \in Requests, req'[q] = req[q],
             OnSerialised(q) => /\ status'[req[q].dev] = status[req[q].dev]
                                /\ events'[req[q].dev] = events[req[q].dev]
      PROVE  OnSerialised(q)' => Relies(q)'
  BY <1>1 DEF AllRely, Relies, OnSerialised, Busy, Rest
<1>2. CASE UNCHANGED vars
  BY <1>1, <1>2 DEF vars, AllRely
<1>3. ASSUME NEW r \in Requests, Step(r)
      PROVE  AllRely'
  <2>1. OnSerialised(r)' => Relies(r)'
    BY <1>3, ReliesAfterStep, StepKeepsDevice DEF AllRely, OnSerialised
  <2>2. \A q \in Requests : q # r => (OnSerialised(q)' => Relies(q)')
    BY <1>1, <1>3, OthersLeaveDevice, StepKeepsDevice
  <2> QED
    BY <2>1, <2>2 DEF AllRely
<1>4. ASSUME NEW r \in Requests, NEW d \in Devices, Begin(r, d)
      PROVE  AllRely'
  <2>1. Relies(r)'
    BY <1>4, ReliesWhenBegun
  <2>2. \A q \in Requests : q # r => (OnSerialised(q)' => Relies(q)')
    BY <1>1, <1>4, OthersLeaveDevice, BeginIsAlone
  <2> QED
    BY <2>1, <2>2 DEF AllRely
<1> QED
  BY <1>2, <1>3, <1>4 DEF Next

\* With no two requests on a device, what each relies on is so in every state.
THEOREM ReliedOn == Spec => [](Alone /\ AllRely)
<1>1. Init => Alone /\ AllRely
  BY DEF Init, Alone, AllRely, Relies, OnSerialised, Busy, Rest
<1>2. IInv /\ (Alone /\ AllRely) /\ [Next]_vars => (Alone /\ AllRely)'
  BY AloneStep, ReliesStep
<1> QED
  BY Inductive, <1>1, <1>2, PTL DEF Spec

\* A step keeps the log of a serialised device telling its status: what appends to the
\* log writes the target of its event in the row, or finds it there.
LEMMA LogTellsStep ==
  ASSUME IInv, AllRely, LogTellsStatus, [Next]_vars
  PROVE  LogTellsStatus'
<1> SUFFICES ASSUME NEW d \in Serialised
             PROVE  status'[d] \in IF events'[d] = <<>> THEN {"absent", "RECEIVED"}
                                  ELSE {events'[d][Len(events'[d])].to}
  BY DEF LogTellsStatus
<1>1. d \in Devices
  BY LifecycleAssumption
<1>2. CASE status'[d] = status[d] /\ events'[d] = events[d]
  BY <1>2 DEF LogTellsStatus
<1>3. ASSUME NEW r \in Requests, req[r] \in Request, AppendEvent(r), req[r].dev = d,
             status'[d] = req[r].to
      PROVE  events'[d] # <<>> /\ events'[d][Len(events'[d])].to = status'[d]
  <2>1. PICK n \in Nat : /\ DOMAIN events'[d] = 1..(n + 1)
                         /\ events'[d][n + 1] = Recorded(r)
                         /\ events'[d] \in Seq(Event) /\ events'[d] # <<>>
    BY <1>1, <1>3, AppendEventFacts DEF IInv
  <2>2. Len(events'[d]) = n + 1
    BY <2>1
  <2>3. Recorded(r).to = req[r].to
    BY DEF Recorded
  <2> QED
    BY <1>3, <2>1, <2>2, <2>3
<1>4. ASSUME NEW r \in Requests, req[r] \in Request, AppendEvent(r), req[r].dev # d
      PROVE  events'[d] = events[d]
  BY <1>1, <1>4, AppendEventFacts DEF IInv
<1>5. ASSUME NEW r \in Requests, ReceiveLog(r)
      PROVE  \/ status'[d] = status[d] /\ events'[d] = events[d]
             \/ events'[d] # <<>> /\ events'[d][Len(events'[d])].to = status'[d]
  <2>1. req[r] \in Request /\ Busy(r) /\ AppendEvent(r) /\ status' = status
    BY <1>5, PcTells DEF IInv, ReceiveLog, Busy, Rest
  <2>2. req[r].dev = d => status[d] = req[r].to
    BY <1>5, <2>1 DEF AllRely, OnSerialised, Relies, ReceiveLog
  <2> QED
    BY <1>3, <1>4, <2>1, <2>2
<1>6. ASSUME NEW r \in Requests, CommitTransition(r)
      PROVE  \/ status'[d] = status[d] /\ events'[d] = events[d]
             \/ events'[d] # <<>> /\ events'[d][Len(events'[d])].to = status'[d]
  <2>1. req[r] \in Request /\ AppendEvent(r)
    BY <1>6, PcTells DEF IInv, CommitTransition
  <2>2. status'[d] = IF req[r].dev = d THEN req[r].to ELSE status[d]
    BY <1>1, <1>6 DEF IInv, TypeOK, CommitTransition
  <2> QED
    BY <1>3, <1>4, <2>1, <2>2
<1>7. ASSUME NEW r \in Requests, NEW c \in Devices, Begin(r, c)
      PROVE  \/ status'[d] = status[d] /\ events'[d] = events[d]
             \/ events'[d] = <<>> /\ status'[d] = "RECEIVED"
  <2>1. CASE ReceiveInsert(r, c)
    BY <1>1, <2>1 DEF IInv, TypeOK, AbsentHasNoEvents, ReceiveInsert
  <2>2. CASE ~ReceiveInsert(r, c)
    BY <1>7, <2>2 DEF Begin, GenericTransition, BulkTransitionRow, WorkflowTransition, StartOn
  <2> QED
    BY <2>1, <2>2
<1>8. ASSUME NEW r \in Requests, Step(r), ~ReceiveLog(r), ~CommitTransition(r)
      PROVE  status'[d] = status[d] /\ events'[d] = events[d]
  BY <1>8 DEF Step, ReadDevice, RereadEvent, DispatchWebhook, Abandon
<1>9. CASE UNCHANGED vars
  BY <1>2, <1>9 DEF vars
<1> QED
  BY <1>2, <1>5, <1>6, <1>7, <1>8, <1>9 DEF Next

\* The status of a device that no two requests work on at once is the target of its
\* most recent event, the RECEIVE of goods-in included, wherever workers die: the
\* third promise of deviceLifecycle.ts, for the devices of which it is true.
THEOREM StatusFollowsLog == Spec => []LogTellsStatus
<1>1. Init => LogTellsStatus
  BY LifecycleAssumption DEF Init, LogTellsStatus
<1>2. IInv /\ (Alone /\ AllRely) /\ LogTellsStatus /\ [Next]_vars => LogTellsStatus'
  BY LogTellsStep
<1> QED
  BY Inductive, ReliedOn, <1>1, <1>2, PTL DEF Spec

\* A webhook reports an edge of the table: the event it reads back after the batch of
\* transitionDevice() is the one that the same request wrote, where no other request
\* works on the device.
THEOREM WebhooksReportEdges == Spec => []WebhookReportsAnEdge
<1>1. AllRely => WebhookReportsAnEdge
  BY DEF AllRely, Relies, OnSerialised, Busy, Rest, WebhookReportsAnEdge
<1> QED
  BY ReliedOn, <1>1, PTL

\* A step of a generic or bulk request never takes a device out of a status that
\* belongs to a workflow: the status that the route tested is the one the batch overwrites.
THEOREM GenericLeavesWorkflowAlone == Spec => GenericNeverLeavesWorkflow
<1> DEFINE Holds == \A r \in Requests : GenericStep(r) =>
              \A d \in Serialised : status[d] \in WorkflowOnly => status'[d] = status[d]
<1>1. ASSUME IInv, AllRely, [Next]_vars,
             NEW r \in Requests, GenericStep(r), NEW d \in Serialised, status'[d] # status[d]
      PROVE  status[d] \notin WorkflowOnly
  <2>1. d \in Devices
    BY LifecycleAssumption
  <2>2. CommitTransition(r)
    BY <1>1, <2>1, CommitsOnly
  <2>3. d = req[r].dev /\ Busy(r)
    BY <1>1, <2>1, <2>2 DEF IInv, TypeOK, CommitTransition, Busy, Rest
  <2> QED
    BY <1>1, <2>2, <2>3 DEF AllRely, Relies, OnSerialised, GenericStep
<1>2. IInv /\ (Alone /\ AllRely) /\ [Next]_vars => [Holds]_vars
  BY <1>1
<1> QED
  BY Inductive, ReliedOn, <1>2, PTL DEF Spec, GenericNeverLeavesWorkflow
=============================================================================
