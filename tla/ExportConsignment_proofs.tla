----------------------- MODULE ExportConsignment_proofs -----------------------
(***************************************************************************)
(* Proofs about export consignments, for any number of devices, shipments  *)
(* and requests.                                                           *)
(*                                                                         *)
(* IInv is what holds however the requests interleave and whoever dies:    *)
(* what keeps the finalisers of a shipment apart, and devices at home, is  *)
(* that a request in the loop of finalise or resume works on a shipment    *)
(* that is FINALISED for good, and that the guarded UPDATE is entered from *)
(* DRAFT.                                                                  *)
(*                                                                         *)
(* SInv is what holds while requests do not overlap (Serialised): a device *)
(* has one line at most, and its status follows that line but for what the *)
(* one request at work has in hand (between inserting or deleting the line *)
(* and moving the device, and in the loop of a finalisation).  From it     *)
(* follow StatusFollowsLines and the refinement of Consignment.            *)
(***************************************************************************)
EXTENDS ExportConsignment, TLAPS

Moves == {"finalise", "resume"}

\* What a request in flight holds whatever the others do.
Knows(r) ==
  LET q == req[r] IN
  /\ q.pc \in {"add_insert", "rm_delete", "rm_device", "commit"} => q.dev \in Devices
  /\ q.pc \in {"add_device", "add_matched", "add_insert"} => q.op \in Adding
  /\ q.pc \in {"rm_delete", "rm_device"} => q.op = "remove"
  /\ q.pc \in {"fin_check", "fin_flip"} => q.op = "finalise"
  /\ q.op \in Moves /\ q.pc \in {"read", "commit"} => shipment[q.ship] = "FINALISED"

\* The inductive invariant of the interleaved system.
IInv ==
  /\ TypeOK
  /\ \A r \in Requests : Busy(r) => Knows(r)
  /\ OneFinaliser
  /\ NothingLeavesOnADraft

-----------------------------------------------------------------------------
(* Requests.                                                               *)

\* The steps a busy request may be at.
Steps == {"add_device", "add_matched", "add_insert", "rm_delete", "rm_device",
          "fin_check", "fin_flip", "read", "commit", "undo"}

\* A request that is busy carries the locals of a route.
LEMMA BusyIsRequest ==
  ASSUME TypeOK, NEW r \in Requests
  PROVE  /\ Busy(r) => req[r] \in Request
         /\ req[r].pc \in Steps => Busy(r)
BY DEF TypeOK, Busy, Rest, Request, Steps

\* A record of a route is not that of an idle request.
LEMMA RequestIsBusy ==
  ASSUME NEW q \in Request
  PROVE  q # Rest
BY DEF Request, Rest

\* A request is at one of its steps only while it is busy.
LEMMA StepIsBusy ==
  ASSUME TypeOK, NEW r \in Requests, Step(r)
  PROVE  Busy(r) /\ req[r] \in Request
<1>1. req[r].pc \in Steps
  BY DEF Steps, Step, AddReadsDevice, AddTakesMatched, AddInsertsLine, AddUndoesLine,
     RemoveDeletesLine, RemoveReadsDevice, FinaliseChecksDevice, FinaliseFlipsShipment,
     ReadDevice, CommitTransition
<1> QED
  BY <1>1, BusyIsRequest

\* What Enter() makes of the requests.
LEMMA Entered ==
  ASSUME TypeOK, NEW r \in Requests, NEW op \in Ops, NEW s \in Shipments, NEW step \in Steps,
         NEW d \in Devices \cup {NoDevice}, NEW line \in Nat, NEW devs \in SUBSET Devices,
         Enter(r, op, s, step, d, line, devs)
  PROVE  /\ TypeOK'
         /\ ~Busy(r)
         /\ Busy(r)'
         /\ req'[r].pc = step /\ req'[r].op = op /\ req'[r].ship = s /\ req'[r].dev = d
         /\ req'[r].line = line /\ req'[r].left = devs /\ req'[r].all = devs
         /\ \A q \in Requests : q # r => req'[q] = req[q]
         /\ UNCHANGED <<status, shipment, lines, lastLine, deaths>>
<1> DEFINE x == [ pc |-> step, op |-> op, ship |-> s, dev |-> d,
                  line |-> line, left |-> devs, all |-> devs ]
<1>1. x \in Request
  BY DEF Request, Steps
<1>2. req'[r] = x /\ \A q \in Requests : q # r => req'[q] = req[q]
  BY DEF Enter, TypeOK
<1>3. req' \in [Requests -> Request \cup {Rest}]
  BY <1>1 DEF Enter, TypeOK
<1> QED
  BY <1>1, <1>2, <1>3, RequestIsBusy DEF Enter, TypeOK, Busy, MayStart

\* What Finish() makes of the requests.
LEMMA Finished ==
  ASSUME TypeOK, NEW r \in Requests, Finish(r)
  PROVE  /\ req' \in [Requests -> Request \cup {Rest}]
         /\ ~Busy(r)'
         /\ \A q \in Requests : q # r => req'[q] = req[q]
BY DEF Finish, TypeOK, Busy

\* A request whose record changes, field by field, is another record of a route.
LEMMA Rewritten ==
  ASSUME TypeOK, NEW r \in Requests, NEW x \in Request, req' = [req EXCEPT ![r] = x]
  PROVE  /\ req' \in [Requests -> Request \cup {Rest}]
         /\ Busy(r)'
         /\ req'[r] = x
         /\ \A q \in Requests : q # r => req'[q] = req[q]
BY RequestIsBusy DEF TypeOK, Busy

\* What NextOf() makes of the requests.
LEMMA WentOn ==
  ASSUME TypeOK, NEW r \in Requests, req[r] \in Request, NEW left \in SUBSET Devices,
         NEW step \in Steps, NextOf(r, left, step)
  PROVE  /\ req' \in [Requests -> Request \cup {Rest}]
         /\ left = {} => ~Busy(r)'
         /\ left # {} =>
              /\ Busy(r)'
              /\ req'[r].pc = step /\ req'[r].op = req[r].op /\ req'[r].ship = req[r].ship
              /\ req'[r].dev = NoDevice /\ req'[r].line = req[r].line
              /\ req'[r].left = left /\ req'[r].all = req[r].all
         /\ \A q \in Requests : q # r => req'[q] = req[q]
<1>1. CASE left = {}
  BY <1>1, Finished DEF NextOf
<1>2. CASE left # {}
  <2> DEFINE x == [req[r] EXCEPT !.pc = step, !.left = left, !.dev = NoDevice]
  <2>1. x \in Request
    BY DEF Request, Steps
  <2>2. req' = [req EXCEPT ![r] = x]
    BY <1>2 DEF NextOf
  <2>3. x.pc = step /\ x.op = req[r].op /\ x.ship = req[r].ship /\ x.dev = NoDevice
        /\ x.line = req[r].line /\ x.left = left /\ x.all = req[r].all
    BY DEF Request
  <2> HIDE DEF x
  <2> QED
    BY <1>2, <2>1, <2>2, <2>3, Rewritten
<1> QED
  BY <1>1, <1>2

-----------------------------------------------------------------------------
(* Requests that interleave.                                               *)

\* A step of one request keeps the invariant when it keeps finalised shipments so, and
\* enters the loop of a finalisation only from a draft.
LEMMA OneRequestStep ==
  ASSUME IInv, NEW r \in Requests,
         TypeOK',
         \A q \in Requests : q # r => req'[q] = req[q],
         \A s \in Shipments : shipment[s] = "FINALISED" => shipment'[s] = "FINALISED",
         Busy(r)' => Knows(r)',
         \A s \in Shipments : Moving(r, s)' => Moving(r, s) \/ shipment[s] = "DRAFT",
         NothingLeavesOnADraft'
  PROVE  IInv'
<1>1. ASSUME NEW q \in Requests, q # r, Busy(q)'
      PROVE  Knows(q)'
  <2>1. Busy(q) /\ req'[q] = req[q]
    BY <1>1 DEF Busy
  <2>2. Knows(q) /\ req[q] \in Request
    BY <2>1, BusyIsRequest DEF IInv
  <2> QED
    BY <2>1, <2>2 DEF Knows, Request
<1>2. ASSUME NEW s \in Shipments, NEW q \in Requests, q # r, Moving(q, s)', Moving(r, s)'
      PROVE  FALSE
  <2>1. Moving(q, s)
    BY <1>2 DEF Moving, Busy
  <2>2. shipment[s] = "FINALISED"
    BY <2>1 DEF IInv, Knows, Moving, Moves
  <2>3. Moving(r, s)
    BY <1>2, <2>2
  <2> QED
    BY <1>2, <2>1, <2>3 DEF IInv, OneFinaliser
<1>3. OneFinaliser'
  <2> SUFFICES ASSUME NEW s \in Shipments, NEW p \in Requests, NEW q \in Requests, p # q,
                      Moving(p, s)', Moving(q, s)'
               PROVE  FALSE
    BY DEF OneFinaliser
  <2>1. CASE p # r /\ q # r
    BY <2>1 DEF IInv, OneFinaliser, Moving, Busy
  <2> QED
    BY <2>1, <1>2
<1> QED
  BY <1>1, <1>3 DEF IInv

\* A step that leaves devices and shipments alone and enters no loop of a finalisation.
LEMMA QuietStep ==
  ASSUME IInv, NEW r \in Requests,
         TypeOK',
         \A q \in Requests : q # r => req'[q] = req[q],
         UNCHANGED <<status, shipment>>,
         Busy(r)' => Knows(r)' /\ \A s \in Shipments : Moving(r, s)' => Moving(r, s)
  PROVE  IInv'
<1>1. NothingLeavesOnADraft'
  BY DEF IInv, NothingLeavesOnADraft
<1>2. \A s \in Shipments : Moving(r, s)' => Moving(r, s)
  BY DEF Moving
<1> QED
  BY <1>1, <1>2, OneRequestStep

\* A request that ends.
LEMMA EndStep ==
  ASSUME IInv, NEW r \in Requests, Finish(r), UNCHANGED <<status, shipment>>,
         lines' \subseteq Line, lastLine' \in Nat, deaths' \in Nat
  PROVE  IInv'
<1>1. TypeOK'
  BY Finished DEF IInv, TypeOK
<1> QED
  BY <1>1, Finished, QuietStep DEF IInv

\* A request that starts.
LEMMA BeginStep ==
  ASSUME IInv, NEW r \in Requests, Begin(r)
  PROVE  IInv'
<1> USE DEF Moving, Knows, Moves, Steps, Ops, Adding
<1>1. TypeOK /\ lines \subseteq Line
  BY DEF IInv, TypeOK
<1>2. ASSUME NEW s \in Shipments, NEW devs \in SUBSET Devices, StartAdd(r, s, devs)
      PROVE  IInv'
  BY <1>1, <1>2, Entered, QuietStep DEF StartAdd
<1>3. ASSUME NEW s \in Shipments, NEW devs \in SUBSET Devices, StartBulk(r, s, devs)
      PROVE  IInv'
  <2>1. Matched(devs) \in SUBSET Devices
    BY DEF Matched
  <2>2. /\ TypeOK' /\ ~Busy(r) /\ UNCHANGED <<status, shipment>>
        /\ req'[r].pc = "add_matched" /\ req'[r].op = "bulk"
        /\ \A q \in Requests : q # r => req'[q] = req[q]
    <3>1. PICK m \in SUBSET Devices : Enter(r, "bulk", s, "add_matched", NoDevice, 0, m)
      BY <1>3, <2>1 DEF StartBulk
    <3> QED
      BY <1>1, <3>1, Entered
  <2> QED
    BY <1>1, <1>3, <2>1, <2>2, QuietStep
<1>4. ASSUME NEW s \in Shipments, StartFinalise(r, s)
      PROVE  IInv'
  <2>1. On(s) \in SUBSET Devices
    BY <1>1 DEF On, Line
  <2> QED
    BY <1>1, <1>4, <2>1, Entered, QuietStep DEF StartFinalise
<1>5. ASSUME NEW s \in Shipments, StartResume(r, s)
      PROVE  IInv'
  <2>1. Stranded(s) \in SUBSET Devices
    BY <1>1 DEF Stranded, On, Line
  <2>2. PICK batch \in SUBSET Devices : Enter(r, "resume", s, "read", NoDevice, 0, batch)
    BY <1>5, <2>1 DEF StartResume
  <2> QED
    BY <1>1, <1>5, <2>2, Entered, QuietStep DEF StartResume
<1>6. ASSUME NEW l \in lines, StartRemove(r, l)
      PROVE  IInv'
  <2>1. l \in Line
    BY <1>1
  <2>2. l.ship \in Shipments /\ l.dev \in Devices /\ l.id \in Nat
    BY <2>1 DEF Line
  <2> QED
    BY <1>1, <1>6, <2>2, Entered, QuietStep DEF StartRemove
<1>7. ASSUME NEW d \in Devices, StartSale(r, d)
      PROVE  IInv'
  <2>1. PICK s \in Shipments : Enter(r, "sale", s, "read", d, 0, {})
    BY <1>7 DEF StartSale
  <2>2. /\ TypeOK' /\ ~Busy(r) /\ UNCHANGED <<status, shipment>>
        /\ req'[r].pc = "read" /\ req'[r].op = "sale"
        /\ \A q \in Requests : q # r => req'[q] = req[q]
    <3>1. /\ d \in Devices \cup {NoDevice} /\ 0 \in Nat /\ {} \in SUBSET Devices
          /\ "sale" \in Ops /\ "read" \in Steps
      OBVIOUS
    <3> QED
      BY <1>1, <2>1, <3>1, Entered
  <2> QED
    BY <2>2, QuietStep
<1> QED
  BY <1>2, <1>3, <1>4, <1>5, <1>6, <1>7 DEF Begin

-----------------------------------------------------------------------------
\* A step of a request under way.
LEMMA StepStep ==
  ASSUME IInv, NEW r \in Requests, Step(r)
  PROVE  IInv'
<1>1. /\ TypeOK
      /\ status \in [Devices -> DEVICE_STATUSES]
      /\ shipment \in [Shipments -> {"DRAFT", "FINALISED"}]
      /\ lines \subseteq Line
      /\ lastLine \in Nat
      /\ deaths \in Nat
  BY DEF IInv, TypeOK
<1>2. Busy(r) /\ req[r] \in Request /\ Knows(r)
  BY <1>1, StepIsBusy DEF IInv
<1>3. /\ req[r].op \in Ops /\ req[r].ship \in Shipments
      /\ req[r].dev \in Devices \cup {NoDevice} /\ req[r].line \in Nat
      /\ req[r].left \in SUBSET Devices /\ req[r].all \in SUBSET Devices
  BY <1>2 DEF Request
<1> DEFINE others == \A q \in Requests : q # r => req'[q] = req[q]
<1>4. ASSUME NEW x \in Request, req' = [req EXCEPT ![r] = x],
             UNCHANGED <<status, shipment>>,
             lines' \subseteq Line, lastLine' \in Nat, UNCHANGED deaths,
             x.op = req[r].op, x.ship = req[r].ship,
             x.pc \in {"add_insert", "rm_delete", "rm_device", "commit"} => x.dev \in Devices,
             x.pc \in {"add_device", "add_matched", "add_insert"} => x.op \in Adding,
             x.pc \in {"rm_delete", "rm_device"} => x.op = "remove",
             x.pc \in {"fin_check", "fin_flip"} => x.op = "finalise",
             x.op \in Moves /\ x.pc \in {"read", "commit"} => req[r].pc \in {"read", "commit"}
      PROVE  IInv'
  <2>1. /\ req' \in [Requests -> Request \cup {Rest}]
        /\ req'[r] = x
        /\ others
    BY <1>1, <1>4, Rewritten
  <2>2. TypeOK'
    BY <1>1, <1>4, <2>1 DEF TypeOK
  <2>3. Knows(r)'
    BY <1>2, <1>4, <2>1 DEF Knows
  <2>4. \A s \in Shipments : Moving(r, s)' => Moving(r, s)
    BY <1>2, <1>4, <2>1 DEF Moving, Moves
  <2> QED
    BY <1>4, <2>1, <2>2, <2>3, <2>4, QuietStep
<1>5. ASSUME NEW left \in SUBSET Devices, NEW step \in {"add_device", "add_matched", "read"},
             NextOf(r, left, step),
             step # "read" => req[r].op \in Adding,
             UNCHANGED shipment,
             \A d \in Devices : status'[d] # status[d] /\ status'[d] \in Exported =>
               \E s \in Shipments : shipment[s] = "FINALISED" /\ status'[d] = ExportTarget(s),
             status' \in [Devices -> DEVICE_STATUSES],
             lines' \subseteq Line, lastLine' \in Nat, UNCHANGED deaths,
             req[r].op \in Moves => req[r].pc \in {"read", "commit"}
      PROVE  IInv'
  <2>1. step \in Steps
    BY DEF Steps
  <2>2. /\ req' \in [Requests -> Request \cup {Rest}]
        /\ Busy(r)' => req'[r].pc = step /\ req'[r].op = req[r].op /\ req'[r].ship = req[r].ship
        /\ others
    BY <1>1, <1>2, <1>5, <2>1, WentOn
  <2>3. TypeOK'
    BY <1>1, <1>5, <2>2 DEF TypeOK
  <2>4. Busy(r)' => Knows(r)'
    BY <1>2, <1>5, <2>2 DEF Knows
  <2>5. \A s \in Shipments : Moving(r, s)' => Moving(r, s)
    BY <1>2, <1>5, <2>2 DEF Moving, Moves
  <2>6. NothingLeavesOnADraft'
    BY <1>1, <1>5 DEF IInv, NothingLeavesOnADraft, ExportTarget
  <2> QED
    BY <1>5, <2>2, <2>3, <2>4, <2>5, <2>6, OneRequestStep
<1>6. /\ LoopOf(r) \in {"add_device", "add_matched", "read"}
      /\ LoopOf(r) # "read" => req[r].op \in Adding
  BY DEF LoopOf, Adding
<1>7. Adding \cap Moves = {} /\ "remove" \notin Moves /\ "finalise" \in Moves
  BY DEF Adding, Moves
<1>8. CASE AddReadsDevice(r)
  <2>1. req[r].op \in Adding /\ req[r].op \notin Moves
    BY <1>2, <1>7, <1>8 DEF AddReadsDevice, Knows
  <2>2. PICK d \in req[r].left :
          IF status[d] = "READY_FOR_EXPORT"
            THEN req' = [req EXCEPT ![r].pc = "add_insert", ![r].dev = d, ![r].left = @ \ {d}]
            ELSE NextOf(r, req[r].left \ {d}, "add_device")
    BY <1>8 DEF AddReadsDevice
  <2>3. CASE status[d] = "READY_FOR_EXPORT"
    <3> DEFINE x == [req[r] EXCEPT !.pc = "add_insert", !.dev = d, !.left = @ \ {d}]
    <3>1. x \in Request /\ x.op = req[r].op /\ x.ship = req[r].ship /\ x.dev \in Devices
          /\ x.pc = "add_insert"
      BY <1>2, <1>3 DEF Request
    <3>2. req' = [req EXCEPT ![r] = x]
      BY <2>2, <2>3
    <3> HIDE DEF x
    <3> QED
      BY <1>1, <1>4, <1>8, <2>1, <3>1, <3>2 DEF AddReadsDevice
  <2>4. CASE status[d] # "READY_FOR_EXPORT"
    <3>1. NextOf(r, req[r].left \ {d}, "add_device") /\ req[r].left \ {d} \in SUBSET Devices
      BY <1>3, <2>2, <2>4
    <3> QED
      BY <1>1, <1>5, <1>8, <2>1, <3>1 DEF AddReadsDevice
  <2> QED
    BY <2>3, <2>4
<1>9. CASE AddTakesMatched(r)
  <2>1. req[r].op \in Adding /\ req[r].op \notin Moves
    BY <1>2, <1>7, <1>9 DEF AddTakesMatched, Knows
  <2>2. PICK d \in req[r].left :
          req' = [req EXCEPT ![r].pc = "add_insert", ![r].dev = d, ![r].left = @ \ {d}]
    BY <1>9 DEF AddTakesMatched
  <2> DEFINE x == [req[r] EXCEPT !.pc = "add_insert", !.dev = d, !.left = @ \ {d}]
  <2>3. x \in Request /\ x.op = req[r].op /\ x.ship = req[r].ship /\ x.dev \in Devices
        /\ x.pc = "add_insert"
    BY <1>2, <1>3 DEF Request
  <2>4. req' = [req EXCEPT ![r] = x]
    BY <2>2
  <2> HIDE DEF x
  <2> QED
    BY <1>1, <1>4, <1>9, <2>1, <2>3, <2>4 DEF AddTakesMatched
<1>10. CASE AddInsertsLine(r)
  <2>1. req[r].op \in Adding /\ req[r].op \notin Moves /\ req[r].dev \in Devices
    BY <1>2, <1>7, <1>10 DEF AddInsertsLine, Knows
  <2>2. CASE req[r].dev \in On(req[r].ship)
    <3>1. NextOf(r, req[r].left, LoopOf(r)) /\ UNCHANGED <<status, shipment, lines, lastLine, deaths>>
      BY <1>10, <2>2 DEF AddInsertsLine
    <3>2. PICK step \in {"add_device", "add_matched", "read"} : step = LoopOf(r)
      BY <1>6
    <3> QED
      BY <1>1, <1>3, <1>5, <2>1, <3>1, <3>2
  <2>3. CASE req[r].dev \notin On(req[r].ship)
    <3> DEFINE l == [id |-> lastLine + 1, ship |-> req[r].ship, dev |-> req[r].dev]
               x == [req[r] EXCEPT !.pc = "read", !.line = lastLine + 1]
    <3>1. lines' = lines \cup {l} /\ lastLine' = lastLine + 1 /\ req' = [req EXCEPT ![r] = x]
          /\ UNCHANGED <<status, shipment, deaths>>
      BY <1>10, <2>3 DEF AddInsertsLine
    <3>2. l \in Line /\ lastLine + 1 \in Nat
      BY <1>1, <1>3, <2>1 DEF Line
    <3>3. x \in Request /\ x.op = req[r].op /\ x.ship = req[r].ship /\ x.pc = "read"
      BY <1>2, <3>2 DEF Request
    <3>4. lines' \subseteq Line /\ lastLine' \in Nat
      BY <1>1, <3>1, <3>2
    <3> HIDE DEF x, l
    <3> QED
      BY <1>4, <2>1, <3>1, <3>3, <3>4
  <2> QED
    BY <2>2, <2>3
<1>11. CASE AddUndoesLine(r)
  <2>1. lines' \subseteq Line
    BY <1>1, <1>11 DEF AddUndoesLine, Without
  <2> QED
    BY <1>1, <1>11, <2>1, EndStep DEF AddUndoesLine
<1>12. CASE RemoveDeletesLine(r)
  <2>1. req[r].op = "remove"
    BY <1>2, <1>12 DEF RemoveDeletesLine, Knows
  <2>2. lines' \subseteq Line
    BY <1>1, <1>12 DEF RemoveDeletesLine, Without
  <2> DEFINE x == [req[r] EXCEPT !.pc = "rm_device"]
  <2>3. x \in Request /\ x.op = req[r].op /\ x.ship = req[r].ship /\ x.pc = "rm_device" /\ x.dev = req[r].dev
    BY <1>2 DEF Request
  <2>4. req' = [req EXCEPT ![r] = x]
    BY <1>12 DEF RemoveDeletesLine
  <2>5. x.dev \in Devices
    BY <1>2, <1>12, <2>3 DEF RemoveDeletesLine, Knows
  <2> HIDE DEF x
  <2> QED
    BY <1>1, <1>4, <1>7, <1>12, <2>1, <2>2, <2>3, <2>4, <2>5 DEF RemoveDeletesLine
<1>13. CASE RemoveReadsDevice(r)
  <2>1. req[r].op = "remove"
    BY <1>2, <1>13 DEF RemoveReadsDevice, Knows
  <2>2. CASE status[req[r].dev] = "IN_EXPORT_CONSIGNMENT"
    <3> DEFINE x == [req[r] EXCEPT !.pc = "read"]
    <3>1. x \in Request /\ x.op = req[r].op /\ x.ship = req[r].ship /\ x.pc = "read"
      BY <1>2 DEF Request
    <3>2. req' = [req EXCEPT ![r] = x]
      BY <1>13, <2>2 DEF RemoveReadsDevice
    <3> HIDE DEF x
    <3> QED
      BY <1>1, <1>4, <1>7, <1>13, <2>1, <3>1, <3>2 DEF RemoveReadsDevice
  <2>3. CASE status[req[r].dev] # "IN_EXPORT_CONSIGNMENT"
    BY <1>1, <1>13, <2>3, EndStep DEF RemoveReadsDevice
  <2> QED
    BY <2>2, <2>3
<1>14. CASE FinaliseChecksDevice(r)
  <2>1. req[r].op = "finalise"
    BY <1>2, <1>14 DEF FinaliseChecksDevice, Knows
  <2>2. PICK d \in req[r].left :
          IF status[d] # "IN_EXPORT_CONSIGNMENT" THEN Finish(r)
          ELSE req' = [req EXCEPT ![r].left = @ \ {d},
                                  ![r].pc = IF req[r].left = {d} THEN "fin_flip" ELSE @]
    BY <1>14 DEF FinaliseChecksDevice
  <2>3. CASE status[d] # "IN_EXPORT_CONSIGNMENT"
    BY <1>1, <1>14, <2>2, <2>3, EndStep DEF FinaliseChecksDevice
  <2>4. CASE status[d] = "IN_EXPORT_CONSIGNMENT"
    <3> DEFINE x == [req[r] EXCEPT !.left = @ \ {d},
                                   !.pc = IF req[r].left = {d} THEN "fin_flip" ELSE @]
    <3>1. x \in Request /\ x.op = req[r].op /\ x.ship = req[r].ship /\ x.pc \in {"fin_check", "fin_flip"}
      BY <1>2, <1>14 DEF Request, FinaliseChecksDevice
    <3>2. req' = [req EXCEPT ![r] = x]
      BY <2>2, <2>4
    <3> HIDE DEF x
    <3> QED
      BY <1>1, <1>4, <1>14, <2>1, <3>1, <3>2 DEF FinaliseChecksDevice
  <2> QED
    BY <2>3, <2>4
<1>15. CASE ReadDevice(r)
  <2>1. PICK d \in InHand(r) :
          IF Allowed(status[d], Target(r))
            THEN req' = [req EXCEPT ![r].pc = "commit", ![r].dev = d, ![r].left = @ \ {d}]
          ELSE IF req[r].op \in Adding THEN req' = [req EXCEPT ![r].pc = "undo"]
          ELSE Finish(r)
    BY <1>15 DEF ReadDevice
  <2>2. d \in Devices
    BY <1>3 DEF InHand
  <2>3. CASE Allowed(status[d], Target(r))
    <3> DEFINE x == [req[r] EXCEPT !.pc = "commit", !.dev = d, !.left = @ \ {d}]
    <3>1. x \in Request /\ x.op = req[r].op /\ x.ship = req[r].ship /\ x.pc = "commit" /\ x.dev = d
      BY <1>2, <1>3, <2>2 DEF Request
    <3>2. req' = [req EXCEPT ![r] = x]
      BY <2>1, <2>3
    <3> HIDE DEF x
    <3> QED
      BY <1>1, <1>4, <1>15, <2>2, <3>1, <3>2 DEF ReadDevice
  <2>4. CASE ~Allowed(status[d], Target(r)) /\ req[r].op \in Adding
    <3> DEFINE x == [req[r] EXCEPT !.pc = "undo"]
    <3>1. x \in Request /\ x.op = req[r].op /\ x.ship = req[r].ship /\ x.pc = "undo"
      BY <1>2 DEF Request
    <3>2. req' = [req EXCEPT ![r] = x]
      BY <2>1, <2>4
    <3> HIDE DEF x
    <3> QED
      BY <1>1, <1>4, <1>15, <3>1, <3>2 DEF ReadDevice
  <2>5. CASE ~Allowed(status[d], Target(r)) /\ req[r].op \notin Adding
    BY <1>1, <1>15, <2>1, <2>5, EndStep DEF ReadDevice
  <2> QED
    BY <2>3, <2>4, <2>5
<1>16. CASE CommitTransition(r)
  <2>1. req[r].dev \in Devices /\ Target(r) \in DEVICE_STATUSES
    BY <1>2, <1>16 DEF CommitTransition, Knows, Target, ExportTarget, DEVICE_STATUSES
  <2>2. /\ NextOf(r, req[r].left, LoopOf(r))
        /\ status' = [status EXCEPT ![req[r].dev] = Target(r)]
        /\ UNCHANGED <<shipment, lines, lastLine, deaths>>
        /\ req[r].pc = "commit"
    BY <1>16 DEF CommitTransition
  <2>3. status' \in [Devices -> DEVICE_STATUSES]
    BY <1>1, <2>1, <2>2
  <2>4. ASSUME NEW d \in Devices, status'[d] # status[d], status'[d] \in Exported
        PROVE  \E s \in Shipments : shipment[s] = "FINALISED" /\ status'[d] = ExportTarget(s)
    <3>1. status'[d] = Target(r)
      BY <1>1, <2>1, <2>2, <2>4
    <3>2. req[r].op \in Moves /\ Target(r) = ExportTarget(req[r].ship)
      BY <1>3, <2>4, <3>1 DEF Target, Exported, Ops, Adding, Moves
    <3> QED
      BY <1>2, <1>3, <2>2, <3>1, <3>2 DEF Knows
  <2>5. PICK step \in {"add_device", "add_matched", "read"} : step = LoopOf(r)
    BY <1>6
  <2>6. step # "read" => req[r].op \in Adding
    BY <1>6, <2>5
  <2>7. NextOf(r, req[r].left, step) /\ req[r].left \in SUBSET Devices
    BY <1>3, <2>2, <2>5
  <2> QED
    BY <1>1, <1>5, <2>2, <2>3, <2>4, <2>6, <2>7
<1>17. CASE FinaliseFlipsShipment(r)
  <2> DEFINE s == req[r].ship
  <2>1. req[r].op = "finalise"
    BY <1>2, <1>17 DEF FinaliseFlipsShipment, Knows
  <2>2. CASE shipment[s] # "DRAFT"
    BY <1>1, <1>17, <2>2, EndStep DEF FinaliseFlipsShipment
  <2>3. CASE shipment[s] = "DRAFT"
    <3>1. /\ NextOf(r, req[r].all, "read")
          /\ shipment' = [shipment EXCEPT ![s] = "FINALISED"]
          /\ UNCHANGED <<status, lines, lastLine, deaths>>
      BY <1>17, <2>3 DEF FinaliseFlipsShipment
    <3>2. /\ req' \in [Requests -> Request \cup {Rest}]
          /\ Busy(r)' => req'[r].pc = "read" /\ req'[r].op = req[r].op /\ req'[r].ship = req[r].ship
          /\ others
      BY <1>1, <1>2, <1>3, <3>1, WentOn DEF Steps
    <3>3. /\ shipment'[s] = "FINALISED"
          /\ \A t \in Shipments : t # s => shipment'[t] = shipment[t]
          /\ shipment' \in [Shipments -> {"DRAFT", "FINALISED"}]
      BY <1>1, <1>3, <3>1
    <3>4. TypeOK'
      BY <1>1, <3>1, <3>2, <3>3 DEF TypeOK
    <3>5. Busy(r)' => Knows(r)'
      BY <3>2, <3>3 DEF Knows
    <3>6. \A t \in Shipments : Moving(r, t)' => t = s
      BY <3>2 DEF Moving
    <3>7. NothingLeavesOnADraft'
      <4> SUFFICES ASSUME NEW d \in Devices, status[d] \in Exported
                   PROVE  \E t \in Shipments : shipment'[t] = "FINALISED" /\ status[d] = ExportTarget(t)
        BY <3>1 DEF NothingLeavesOnADraft
      <4>1. PICK t \in Shipments : shipment[t] = "FINALISED" /\ status[d] = ExportTarget(t)
        BY DEF IInv, NothingLeavesOnADraft
      <4> QED
        BY <3>3, <4>1
    <3> HIDE DEF s
    <3> QED
      BY <1>1, <2>3, <3>2, <3>3, <3>4, <3>5, <3>6, <3>7, OneRequestStep
  <2> QED
    BY <2>2, <2>3
<1> QED
  BY <1>8, <1>9, <1>10, <1>11, <1>12, <1>13, <1>14, <1>15, <1>16, <1>17 DEF Step

\* Every step of the system keeps the invariant.
LEMMA NextOk == IInv /\ [Next]_vars => IInv'
<1> SUFFICES ASSUME IInv, [Next]_vars PROVE IInv'
  OBVIOUS
<1>1. CASE UNCHANGED vars
  BY <1>1 DEF vars, IInv, TypeOK, Busy, Knows, OneFinaliser, Moving, NothingLeavesOnADraft
<1>2. ASSUME NEW r \in Requests, Abandon(r)
      PROVE  IInv'
  <2>1. deaths' \in Nat /\ lines' \subseteq Line /\ lastLine' \in Nat
    BY <1>2 DEF Abandon, IInv, TypeOK
  <2> QED
    BY <1>2, <2>1, EndStep DEF Abandon
<1> QED
  BY <1>1, <1>2, BeginStep, StepStep DEF Next

\* It holds at the start.
LEMMA InitOk == Init => IInv
BY DEF Init, IInv, TypeOK, Busy, Knows, OneFinaliser, Moving, NothingLeavesOnADraft, Exported,
   DEVICE_STATUSES

\* However the requests interleave and whoever dies, the invariant holds.
THEOREM ExportInductive == Spec => []IInv
<1> QED
  BY InitOk, NextOk, PTL DEF Spec

\* Every variable has its type.
THEOREM ExportTypes == Spec => []TypeOK
<1>1. IInv => TypeOK
  BY DEF IInv
<1> QED
  BY <1>1, ExportInductive, PTL

\* Of all the finalise calls for a shipment one gets past the guarded UPDATE and into
\* the loop that exports devices (POST /finalise).
THEOREM OneFinaliserWins == Spec => []OneFinaliser
<1>1. IInv => OneFinaliser
  BY DEF IInv
<1> QED
  BY <1>1, ExportInductive, PTL

\* A device is exported only once a shipment of that type is finalised.
THEOREM DraftsStayHome == Spec => []NothingLeavesOnADraft
<1>1. IInv => NothingLeavesOnADraft
  BY DEF IInv
<1> QED
  BY <1>1, ExportInductive, PTL

-----------------------------------------------------------------------------
(* One request at a time.                                                  *)

Alone == \A q, r \in Requests : Busy(q) /\ Busy(r) => q = r

Booked(d, s) == \E l \in lines : l.dev = d /\ l.ship = s

HasLine(d) == \E l \in lines : l.dev = d

\* A request has inserted the line of d and not yet moved the device.
Inserting(q, d) == q.op \in Adding /\ q.pc \in {"read", "commit"} /\ q.dev = d

\* A request has deleted the line of d and not yet moved the device.
Deleting(q, d) == q.op = "remove" /\ q.pc \in {"rm_device", "read", "commit"} /\ q.dev = d

\* A finalise or resume has d still to move.
Pending(q, d) ==
  /\ q.op \in Moves /\ q.pc \in {"read", "commit"}
  /\ d \in q.left \/ (q.pc = "commit" /\ q.dev = d)

SomeInserting(d) == \E r \in Requests : Busy(r) /\ Inserting(req[r], d)
SomeDeleting(d)  == \E r \in Requests : Busy(r) /\ Deleting(req[r], d)
SomePending(d)   == \E r \in Requests : Busy(r) /\ Pending(req[r], d)

\* What the status of a device and that of its shipment have to do with its line.
LineOk(l) ==
  \/ /\ status[l.dev] = "IN_EXPORT_CONSIGNMENT"
     /\ shipment[l.ship] = "DRAFT" \/ deaths # 0 \/ SomePending(l.dev)
  \/ shipment[l.ship] = "FINALISED" /\ status[l.dev] = ExportTarget(l.ship)
  \/ status[l.dev] = "READY_FOR_EXPORT" /\ SomeInserting(l.dev)

DeviceOk(d) ==
  /\ status[d] \in Exported \cup {"READY_FOR_EXPORT", "IN_EXPORT_CONSIGNMENT", "SOLD"}
  /\ status[d] \in Exported => HasLine(d)
  /\ status[d] = "IN_EXPORT_CONSIGNMENT" => HasLine(d) \/ SomeDeleting(d)

\* Lines have ids of their own, and a device has one line.
LinesOk ==
  \A l \in lines :
    /\ l.id <= lastLine
    /\ LineOk(l)
    /\ \A m \in lines : m.id = l.id \/ m.dev = l.dev => m = l

AddKnows(q) ==
  /\ shipment[q.ship] = "DRAFT"
  /\ q.pc \in {"add_device", "add_matched", "add_insert", "read", "commit"}
  /\ q.dev \notin q.left
  /\ q.op = "bulk" => \A d \in q.left : status[d] = "READY_FOR_EXPORT"
  /\ q.pc = "add_device" => q.op = "add"
  /\ q.pc = "add_matched" => q.op = "bulk"
  /\ q.pc \notin {"add_device", "add_matched"} =>
       q.dev \in Devices /\ status[q.dev] = "READY_FOR_EXPORT"
  /\ q.pc \in {"read", "commit"} => Booked(q.dev, q.ship)

RemoveKnows(q) ==
  /\ shipment[q.ship] = "DRAFT"
  /\ q.pc \in {"rm_delete", "rm_device", "read", "commit"}
  /\ q.left = {}
  /\ q.dev \in Devices /\ status[q.dev] = "IN_EXPORT_CONSIGNMENT"
  /\ q.pc = "rm_delete" =>
       \E l \in lines : l.id = q.line /\ l.ship = q.ship /\ l.dev = q.dev
  /\ q.pc # "rm_delete" => ~HasLine(q.dev)

MovesKnows(q) ==
  /\ q.pc \in {"fin_check", "fin_flip", "read", "commit"}
  /\ q.pc \in {"fin_check", "fin_flip"} =>
       q.op = "finalise" /\ shipment[q.ship] = "DRAFT" /\ q.all = On(q.ship) /\ q.all # {}
  /\ q.pc \in {"read", "commit"} =>
       /\ shipment[q.ship] = "FINALISED"
       /\ \A d \in q.left : Booked(d, q.ship) /\ status[d] = "IN_EXPORT_CONSIGNMENT"
  /\ q.pc = "read" => q.dev = NoDevice
  /\ q.pc = "commit" =>
       /\ q.dev \in Devices \ q.left
       /\ Booked(q.dev, q.ship) /\ status[q.dev] = "IN_EXPORT_CONSIGNMENT"

SaleKnows(q) ==
  /\ q.pc \in {"read", "commit"}
  /\ q.left = {}
  /\ q.dev \in Devices
  /\ status[q.dev] \in {"READY_FOR_EXPORT", "SOLD"}
  /\ q.pc = "commit" => status[q.dev] = "READY_FOR_EXPORT"

\* What a request that is alone knows of its shipment, its devices and its line.
KnowsAlone(q) ==
  /\ q.op \in Adding  => AddKnows(q)
  /\ q.op = "remove"  => RemoveKnows(q)
  /\ q.op \in Moves   => MovesKnows(q)
  /\ q.op = "sale"    => SaleKnows(q)

\* The inductive invariant while requests do not overlap.
SInv ==
  /\ TypeOK
  /\ Alone
  /\ \A r \in Requests : Busy(r) => KnowsAlone(req[r])
  /\ \A d \in Devices : DeviceOk(d)
  /\ LinesOk

-----------------------------------------------------------------------------
\* The target of an operation, and that a device it knows about may be moved there.
LEMMA Targets ==
  ASSUME NEW r \in Requests, req[r] \in Request
  PROVE  /\ req[r].op \in Adding =>
              Target(r) = "IN_EXPORT_CONSIGNMENT" /\ Allowed("READY_FOR_EXPORT", Target(r))
         /\ req[r].op = "remove" =>
              Target(r) = "READY_FOR_EXPORT" /\ Allowed("IN_EXPORT_CONSIGNMENT", Target(r))
         /\ req[r].op \in Moves =>
              /\ Target(r) = ExportTarget(req[r].ship)
              /\ Allowed("IN_EXPORT_CONSIGNMENT", Target(r))
         /\ req[r].op = "sale" =>
              /\ Target(r) = "SOLD"
              /\ Allowed("READY_FOR_EXPORT", Target(r)) /\ ~Allowed("SOLD", Target(r))
         /\ ExportTarget(req[r].ship) \in Exported
<1>1. /\ Allowed("READY_FOR_EXPORT", "IN_EXPORT_CONSIGNMENT")
      /\ Allowed("READY_FOR_EXPORT", "SOLD")
      /\ ~Allowed("SOLD", "SOLD")
      /\ Allowed("IN_EXPORT_CONSIGNMENT", "READY_FOR_EXPORT")
      /\ Allowed("IN_EXPORT_CONSIGNMENT", "EXPORTED_UNDER_OPR")
      /\ Allowed("IN_EXPORT_CONSIGNMENT", "TEMP_EXPORTED_STANDARD")
  BY DEF Allowed, ALLOWED_TRANSITIONS
<1>2. ExportTarget(req[r].ship) \in {"EXPORTED_UNDER_OPR", "TEMP_EXPORTED_STANDARD"}
  BY DEF ExportTarget
<1> QED
  BY <1>1, <1>2 DEF Target, Adding, Moves, Exported

\* The operations are of four kinds.
LEMMA Kinds ==
  ASSUME NEW q \in Request
  PROVE  /\ q.op \in Adding \/ q.op = "remove" \/ q.op \in Moves \/ q.op = "sale"
         /\ Adding \cap Moves = {}
         /\ {"remove", "sale"} \cap (Adding \cup Moves) = {}
         /\ q.op \in Adding <=> q.op \in {"add", "bulk"}
         /\ q.op \in Moves <=> q.op \in {"finalise", "resume"}
BY DEF Request, Ops, Adding, Moves

\* A step of the one busy request.
LEMMA SerialStep ==
  ASSUME SInv, NEW r \in Requests,
         \A q \in Requests : q # r => ~Busy(q) /\ req'[q] = req[q],
         TypeOK',
         Busy(r)' => KnowsAlone(req[r])',
         \A d \in Devices : DeviceOk(d)',
         LinesOk'
  PROVE  SInv'
BY DEF SInv, Alone, Busy

\* It keeps devices and lines in order when it leaves them alone and still has in hand
\* what it had.
LEMMA SameDevices ==
  ASSUME SInv, NEW r \in Requests,
         \A q \in Requests : q # r => ~Busy(q) /\ req'[q] = req[q],
         UNCHANGED <<status, shipment, lines, lastLine>>,
         deaths' = deaths \/ deaths' # 0,
         \A d \in Devices : Busy(r) /\ Inserting(req[r], d) => Busy(r)' /\ Inserting(req'[r], d),
         \A d \in Devices : Busy(r) /\ Deleting(req[r], d) => Busy(r)' /\ Deleting(req'[r], d),
         \A d \in Devices : Busy(r) /\ Pending(req[r], d) =>
           deaths' # 0 \/ (Busy(r)' /\ Pending(req'[r], d))
  PROVE  LinesOk' /\ \A d \in Devices : DeviceOk(d)'
<1>1. \A d \in Devices : /\ SomeInserting(d) => SomeInserting(d)'
                         /\ SomeDeleting(d) => SomeDeleting(d)'
                         /\ SomePending(d) => deaths' # 0 \/ SomePending(d)'
  BY DEF SomeInserting, SomeDeleting, SomePending
<1>2. ASSUME NEW d \in Devices
      PROVE  DeviceOk(d)'
  BY <1>1 DEF SInv, DeviceOk, HasLine
<1>3. ASSUME NEW l \in lines
      PROVE  LineOk(l)'
  <2>1. l.dev \in Devices
    BY DEF SInv, TypeOK, Line
  <2>2. LineOk(l)
    BY DEF SInv, LinesOk
  <2> QED
    BY <1>1, <2>1, <2>2 DEF LineOk
<1>4. LinesOk'
  BY <1>3 DEF SInv, LinesOk
<1> QED
  BY <1>2, <1>4

\* The facts a step of a request starts from.
LEMMA SerialFacts ==
  ASSUME SInv, NEW r \in Requests, Busy(r)
  PROVE  /\ req[r] \in Request
         /\ KnowsAlone(req[r])
         /\ \A q \in Requests : q # r => ~Busy(q)
         /\ req[r].op \in Ops /\ req[r].ship \in Shipments
         /\ req[r].dev \in Devices \cup {NoDevice} /\ req[r].line \in Nat
         /\ req[r].left \in SUBSET Devices /\ req[r].all \in SUBSET Devices
<1>1. req[r] \in Request
  BY BusyIsRequest DEF SInv
<1> QED
  BY <1>1 DEF SInv, Alone, Request

\* A device in stock has no line, but for the one just inserted.
LEMMA InStock ==
  ASSUME SInv, NEW d \in Devices, ~SomeInserting(d),
         status[d] \in {"READY_FOR_EXPORT", "SOLD"}
  PROVE  ~HasLine(d)
<1>1. \A s : ExportTarget(s) \notin {"READY_FOR_EXPORT", "SOLD"}
  BY DEF ExportTarget
<1> QED
  BY <1>1 DEF SInv, LinesOk, LineOk, HasLine

\* Without a request at work nothing is between two statements.
LEMMA NoneInHand ==
  ASSUME \A q \in Requests : ~Busy(q), NEW d \in Devices
  PROVE  ~SomeInserting(d) /\ ~SomeDeleting(d) /\ ~SomePending(d)
BY DEF SomeInserting, SomeDeleting, SomePending

\* With one, only what that one has in hand.
LEMMA InHandOfOne ==
  ASSUME NEW r \in Requests, Busy(r), \A q \in Requests : q # r => ~Busy(q), NEW d \in Devices
  PROVE  /\ SomeInserting(d) <=> Inserting(req[r], d)
         /\ SomeDeleting(d) <=> Deleting(req[r], d)
         /\ SomePending(d) <=> Pending(req[r], d)
BY DEF SomeInserting, SomeDeleting, SomePending

\* A request that starts, alone.
LEMMA SerialBegin ==
  ASSUME Serialised, SInv, NEW r \in Requests, Begin(r)
  PROVE  SInv'
<1>1. TypeOK /\ lines \subseteq Line /\ NoDevice \notin Devices
  BY ExportAssumption DEF SInv, TypeOK
<1>2. ASSUME NEW op \in Ops, NEW s \in Shipments, NEW step \in Steps,
             NEW d \in Devices \cup {NoDevice}, NEW line \in Nat, NEW devs \in SUBSET Devices,
             Enter(r, op, s, step, d, line, devs),
             \A q \in Request :
               /\ q.pc = step /\ q.op = op /\ q.ship = s /\ q.dev = d
               /\ q.line = line /\ q.left = devs /\ q.all = devs
               => KnowsAlone(q)
      PROVE  SInv'
  <2>1. /\ TypeOK' /\ ~Busy(r) /\ Busy(r)'
        /\ req'[r].pc = step /\ req'[r].op = op /\ req'[r].ship = s /\ req'[r].dev = d
        /\ req'[r].line = line /\ req'[r].left = devs /\ req'[r].all = devs
        /\ \A q \in Requests : q # r => req'[q] = req[q]
        /\ UNCHANGED <<status, shipment, lines, lastLine, deaths>>
    BY <1>1, <1>2, Entered
  <2>2. \A q \in Requests : ~Busy(q)
    BY <1>2 DEF Enter, MayStart
  <2>3. req'[r] \in Request
    BY <2>1, BusyIsRequest DEF TypeOK, Busy
  <2>4. KnowsAlone(req'[r])
    BY <1>2, <2>1, <2>3
  <2>5. KnowsAlone(req[r])'
    BY <2>1, <2>4 DEF KnowsAlone, AddKnows, RemoveKnows, MovesKnows, SaleKnows, Booked, HasLine, On
  <2>6. LinesOk' /\ \A d1 \in Devices : DeviceOk(d1)'
    BY <2>1, <2>2, SameDevices
  <2> QED
    BY <2>1, <2>2, <2>5, <2>6, SerialStep
<1>3. ASSUME NEW s \in Shipments, NEW devs \in SUBSET Devices, StartAdd(r, s, devs)
      PROVE  SInv'
  <2>1. ASSUME NEW q \in Request, q.pc = "add_device", q.op = "add", q.ship = s, q.dev = NoDevice,
               q.left = devs
        PROVE  KnowsAlone(q)
    BY <1>1, <1>3, <2>1 DEF StartAdd, KnowsAlone, AddKnows, Moves
  <2> QED
    BY <1>2, <1>3, <2>1 DEF StartAdd, Ops, Steps
<1>4. ASSUME NEW s \in Shipments, NEW devs \in SUBSET Devices, StartBulk(r, s, devs)
      PROVE  SInv'
  <2>1. PICK m \in SUBSET Devices : m = Matched(devs)
    BY DEF Matched
  <2>2. ASSUME NEW q \in Request, q.pc = "add_matched", q.op = "bulk", q.ship = s, q.dev = NoDevice,
               q.left = m
        PROVE  KnowsAlone(q)
    BY <1>1, <1>4, <2>1, <2>2 DEF StartBulk, KnowsAlone, AddKnows, Moves, Matched
  <2>3. Enter(r, "bulk", s, "add_matched", NoDevice, 0, m)
    BY <1>4, <2>1 DEF StartBulk
  <2>4. /\ "bulk" \in Ops /\ "add_matched" \in Steps
        /\ NoDevice \in Devices \cup {NoDevice} /\ 0 \in Nat
    BY DEF Ops, Steps
  <2> QED
    BY <1>2, <2>2, <2>3, <2>4
<1>5. ASSUME NEW s \in Shipments, StartFinalise(r, s)
      PROVE  SInv'
  <2>1. PICK m \in SUBSET Devices : m = On(s)
    BY <1>1 DEF On, Line
  <2>2. ASSUME NEW q \in Request, q.pc = "fin_check", q.op = "finalise", q.ship = s, q.all = m
        PROVE  KnowsAlone(q)
    BY <1>1, <1>5, <2>1, <2>2 DEF StartFinalise, KnowsAlone, MovesKnows, Adding
  <2>3. Enter(r, "finalise", s, "fin_check", NoDevice, 0, m)
    BY <1>5, <2>1 DEF StartFinalise
  <2> QED
    BY <1>2, <2>2, <2>3 DEF Ops, Steps
<1>6. ASSUME NEW s \in Shipments, StartResume(r, s)
      PROVE  SInv'
  <2>1. Stranded(s) \in SUBSET Devices
    BY <1>1 DEF Stranded, On, Line
  <2>2. PICK batch \in SUBSET Stranded(s) : Enter(r, "resume", s, "read", NoDevice, 0, batch)
    BY <1>6 DEF StartResume
  <2>3. \A d \in batch : Booked(d, s) /\ status[d] = "IN_EXPORT_CONSIGNMENT"
    BY DEF Stranded, On, Booked
  <2>4. ASSUME NEW q \in Request, q.pc = "read", q.op = "resume", q.ship = s, q.dev = NoDevice,
               q.left = batch
        PROVE  KnowsAlone(q)
    BY <1>6, <2>3, <2>4 DEF StartResume, KnowsAlone, MovesKnows, Adding
  <2> QED
    BY <1>2, <2>1, <2>2, <2>4 DEF Ops, Steps
<1>7. ASSUME NEW l \in lines, StartRemove(r, l)
      PROVE  SInv'
  <2>1. l.ship \in Shipments /\ l.dev \in Devices /\ l.id \in Nat
    BY <1>1 DEF Line
  <2>2. \A q \in Requests : ~Busy(q)
    BY <1>7 DEF StartRemove, Enter, MayStart
  <2>3. status[l.dev] = "IN_EXPORT_CONSIGNMENT"
    BY <1>7, <2>1, <2>2, NoneInHand DEF StartRemove, SInv, LinesOk, LineOk
  <2>4. ASSUME NEW q \in Request, q.pc = "rm_delete", q.op = "remove", q.ship = l.ship,
               q.dev = l.dev, q.line = l.id, q.left = {}
        PROVE  KnowsAlone(q)
    BY <1>7, <2>1, <2>3, <2>4 DEF StartRemove, KnowsAlone, RemoveKnows, Adding, Moves
  <2>5. Enter(r, "remove", l.ship, "rm_delete", l.dev, l.id, {})
    BY <1>7 DEF StartRemove
  <2> QED
    BY <1>2, <2>1, <2>4, <2>5 DEF Ops, Steps
<1>8. ASSUME NEW d \in Devices, StartSale(r, d)
      PROVE  SInv'
  <2>1. PICK s \in Shipments : Enter(r, "sale", s, "read", d, 0, {})
    BY <1>8 DEF StartSale
  <2>2. status[d] \in {"READY_FOR_EXPORT", "SOLD"}
    BY <1>8 DEF StartSale, SInv, DeviceOk, OPR_WORKFLOW_ONLY_STATUSES, Exported
  <2>3. ASSUME NEW q \in Request, q.pc = "read", q.op = "sale", q.dev = d, q.left = {}
        PROVE  KnowsAlone(q)
    BY <2>2, <2>3 DEF KnowsAlone, SaleKnows, Adding, Moves
  <2> QED
    BY <1>2, <2>1, <2>3 DEF Ops, Steps
<1> QED
  BY <1>3, <1>4, <1>5, <1>6, <1>7, <1>8 DEF Begin

-----------------------------------------------------------------------------
\* A step that leaves devices and lines alone and goes on with another record.
LEMMA QuietSerial ==
  ASSUME SInv, NEW r \in Requests, Busy(r), NEW x \in Request, req' = [req EXCEPT ![r] = x],
         UNCHANGED <<status, shipment, lines, lastLine, deaths>>,
         KnowsAlone(x),
         \A d \in Devices : /\ Inserting(req[r], d) => Inserting(x, d)
                            /\ Deleting(req[r], d) => Deleting(x, d)
                            /\ Pending(req[r], d) => Pending(x, d)
  PROVE  SInv'
<1>1. /\ req' \in [Requests -> Request \cup {Rest}]
      /\ Busy(r)'
      /\ req'[r] = x
      /\ \A q \in Requests : q # r => ~Busy(q) /\ req'[q] = req[q]
  BY Rewritten, SerialFacts DEF SInv
<1>2. TypeOK'
  BY <1>1 DEF SInv, TypeOK
<1>3. KnowsAlone(req[r])'
  BY <1>1 DEF KnowsAlone, AddKnows, RemoveKnows, MovesKnows, SaleKnows, Booked, HasLine, On
<1>4. LinesOk' /\ \A d \in Devices : DeviceOk(d)'
  BY <1>1, SameDevices
<1> QED
  BY <1>1, <1>2, <1>3, <1>4, SerialStep

\* A request that ends with nothing in hand, or dies in finalise or resume.
LEMMA EndSerial ==
  ASSUME SInv, NEW r \in Requests, Busy(r), Finish(r),
         UNCHANGED <<status, shipment, lines, lastLine>>,
         \A d \in Devices : ~Inserting(req[r], d) /\ ~Deleting(req[r], d),
         \/ deaths' = deaths /\ \A d \in Devices : ~Pending(req[r], d)
         \/ deaths' = deaths + 1
  PROVE  SInv'
<1>1. /\ req' \in [Requests -> Request \cup {Rest}]
      /\ ~Busy(r)'
      /\ \A q \in Requests : q # r => ~Busy(q) /\ req'[q] = req[q]
  BY Finished, SerialFacts DEF SInv
<1>2. deaths' \in Nat /\ (deaths' = deaths \/ deaths' # 0)
  BY DEF SInv, TypeOK
<1>3. TypeOK'
  BY <1>1, <1>2 DEF SInv, TypeOK
<1>4. \A d \in Devices : Pending(req[r], d) => deaths' # 0
  BY DEF SInv, TypeOK
<1>5. LinesOk' /\ \A d \in Devices : DeviceOk(d)'
  BY <1>1, <1>2, <1>4, SameDevices
<1> QED
  BY <1>1, <1>3, <1>5, SerialStep

-----------------------------------------------------------------------------
\* The steps of a request that is alone.
LEMMA SerialQuietSteps ==
  ASSUME SInv, NEW r \in Requests, Step(r),
         ~(AddInsertsLine(r) \/ RemoveDeletesLine(r) \/ FinaliseFlipsShipment(r) \/ CommitTransition(r))
  PROVE  SInv'
<1>1. Busy(r)
  BY StepIsBusy DEF SInv
<1>2. /\ req[r] \in Request /\ KnowsAlone(req[r])
      /\ \A q \in Requests : q # r => ~Busy(q)
      /\ req[r].op \in Ops /\ req[r].ship \in Shipments
      /\ req[r].dev \in Devices \cup {NoDevice} /\ req[r].line \in Nat
      /\ req[r].left \in SUBSET Devices /\ req[r].all \in SUBSET Devices
  BY <1>1, SerialFacts
<1>3. NoDevice \notin Devices
  BY ExportAssumption
<1>4. CASE AddReadsDevice(r)
  <2>1. PICK d \in req[r].left :
          IF status[d] = "READY_FOR_EXPORT"
            THEN req' = [req EXCEPT ![r].pc = "add_insert", ![r].dev = d, ![r].left = @ \ {d}]
            ELSE NextOf(r, req[r].left \ {d}, "add_device")
    BY <1>4 DEF AddReadsDevice
  <2>2. req[r].op = "add" /\ req[r].pc = "add_device" /\ AddKnows(req[r])
        /\ UNCHANGED <<status, shipment, lines, lastLine, deaths>>
    BY <1>2, <1>4, Kinds DEF AddReadsDevice, KnowsAlone, AddKnows, RemoveKnows, MovesKnows, SaleKnows
  <2>3. \A d1 \in Devices :
          ~Inserting(req[r], d1) /\ ~Deleting(req[r], d1) /\ ~Pending(req[r], d1)
    BY <2>2 DEF Inserting, Deleting, Pending
  <2>4. CASE status[d] = "READY_FOR_EXPORT"
    <3> DEFINE x == [req[r] EXCEPT !.pc = "add_insert", !.dev = d, !.left = @ \ {d}]
    <3>1. /\ x \in Request /\ x.op = "add" /\ x.ship = req[r].ship /\ x.dev = d
          /\ x.pc = "add_insert" /\ x.left = req[r].left \ {d}
      BY <1>2, <2>2 DEF Request
    <3>2. req' = [req EXCEPT ![r] = x]
      BY <2>1, <2>4
    <3> HIDE DEF x
    <3>3. KnowsAlone(x)
      BY <1>2, <2>2, <2>4, <3>1 DEF KnowsAlone, AddKnows, Moves
    <3> QED
      BY <1>1, <2>2, <2>3, <3>1, <3>2, <3>3, QuietSerial
  <2>5. CASE status[d] # "READY_FOR_EXPORT" /\ req[r].left \ {d} = {}
    BY <1>1, <2>1, <2>2, <2>3, <2>5, EndSerial DEF NextOf
  <2>6. CASE status[d] # "READY_FOR_EXPORT" /\ req[r].left \ {d} # {}
    <3> DEFINE x == [req[r] EXCEPT !.pc = "add_device", !.left = req[r].left \ {d}, !.dev = NoDevice]
    <3>1. /\ x \in Request /\ x.op = "add" /\ x.ship = req[r].ship /\ x.dev = NoDevice
          /\ x.pc = "add_device" /\ x.left = req[r].left \ {d}
      BY <1>2, <2>2 DEF Request
    <3>2. req' = [req EXCEPT ![r] = x]
      BY <2>1, <2>6 DEF NextOf
    <3> HIDE DEF x
    <3>3. KnowsAlone(x)
      BY <1>2, <1>3, <2>2, <3>1 DEF KnowsAlone, AddKnows, Moves
    <3> QED
      BY <1>1, <2>2, <2>3, <3>1, <3>2, <3>3, QuietSerial
  <2> QED
    BY <2>4, <2>5, <2>6
<1>5. CASE AddTakesMatched(r)
  <2>1. PICK d \in req[r].left :
          req' = [req EXCEPT ![r].pc = "add_insert", ![r].dev = d, ![r].left = @ \ {d}]
    BY <1>5 DEF AddTakesMatched
  <2>2. req[r].op = "bulk" /\ req[r].pc = "add_matched" /\ AddKnows(req[r])
        /\ UNCHANGED <<status, shipment, lines, lastLine, deaths>>
    BY <1>2, <1>5, Kinds DEF AddTakesMatched, KnowsAlone, AddKnows, RemoveKnows, MovesKnows, SaleKnows
  <2>3. \A d1 \in Devices :
          ~Inserting(req[r], d1) /\ ~Deleting(req[r], d1) /\ ~Pending(req[r], d1)
    BY <2>2 DEF Inserting, Deleting, Pending
  <2> DEFINE x == [req[r] EXCEPT !.pc = "add_insert", !.dev = d, !.left = @ \ {d}]
  <2>4. /\ x \in Request /\ x.op = "bulk" /\ x.ship = req[r].ship /\ x.dev = d
        /\ x.pc = "add_insert" /\ x.left = req[r].left \ {d}
    BY <1>2, <2>2 DEF Request
  <2>5. req' = [req EXCEPT ![r] = x]
    BY <2>1
  <2> HIDE DEF x
  <2>6. KnowsAlone(x)
    BY <1>2, <2>2, <2>4 DEF KnowsAlone, AddKnows, Moves
  <2> QED
    BY <1>1, <2>2, <2>3, <2>4, <2>5, <2>6, QuietSerial
<1>6. ~AddUndoesLine(r)
  BY <1>2, Kinds DEF AddUndoesLine, KnowsAlone, AddKnows, RemoveKnows, MovesKnows, SaleKnows
<1>7. CASE RemoveReadsDevice(r)
  <2>1. /\ req[r].op = "remove" /\ req[r].pc = "rm_device" /\ RemoveKnows(req[r])
        /\ UNCHANGED <<status, shipment, lines, lastLine, deaths>>
    BY <1>2, <1>7, Kinds DEF RemoveReadsDevice, KnowsAlone, AddKnows, RemoveKnows, MovesKnows, SaleKnows
  <2> DEFINE x == [req[r] EXCEPT !.pc = "read"]
  <2>2. /\ x \in Request /\ x.op = "remove" /\ x.ship = req[r].ship /\ x.dev = req[r].dev
        /\ x.pc = "read" /\ x.left = req[r].left
    BY <1>2, <2>1 DEF Request
  <2>3. req' = [req EXCEPT ![r] = x]
    BY <1>7, <2>1 DEF RemoveReadsDevice, RemoveKnows
  <2> HIDE DEF x
  <2>4. KnowsAlone(x)
    BY <2>1, <2>2 DEF KnowsAlone, RemoveKnows, Adding, Moves
  <2>5. \A d \in Devices : /\ Inserting(req[r], d) => Inserting(x, d)
                           /\ Deleting(req[r], d) => Deleting(x, d)
                           /\ Pending(req[r], d) => Pending(x, d)
    BY <2>1, <2>2 DEF Inserting, Deleting, Pending, Adding, Moves
  <2> QED
    BY <1>1, <2>1, <2>2, <2>3, <2>4, <2>5, QuietSerial
<1>8. CASE FinaliseChecksDevice(r)
  <2>1. /\ req[r].op = "finalise" /\ req[r].pc = "fin_check" /\ MovesKnows(req[r])
        /\ UNCHANGED <<status, shipment, lines, lastLine, deaths>>
    BY <1>2, <1>8, Kinds DEF FinaliseChecksDevice, KnowsAlone, AddKnows, RemoveKnows, MovesKnows, SaleKnows
  <2>2. PICK d \in req[r].left :
          IF status[d] # "IN_EXPORT_CONSIGNMENT" THEN Finish(r)
          ELSE req' = [req EXCEPT ![r].left = @ \ {d},
                                  ![r].pc = IF req[r].left = {d} THEN "fin_flip" ELSE @]
    BY <1>8 DEF FinaliseChecksDevice
  <2>3. \A d1 \in Devices :
          ~Inserting(req[r], d1) /\ ~Deleting(req[r], d1) /\ ~Pending(req[r], d1)
    BY <2>1 DEF Inserting, Deleting, Pending
  <2>4. CASE status[d] # "IN_EXPORT_CONSIGNMENT"
    BY <1>1, <2>1, <2>2, <2>3, <2>4, EndSerial
  <2>5. CASE status[d] = "IN_EXPORT_CONSIGNMENT"
    <3> DEFINE x == [req[r] EXCEPT !.left = @ \ {d},
                                   !.pc = IF req[r].left = {d} THEN "fin_flip" ELSE @]
    <3>1. /\ x \in Request /\ x.op = "finalise" /\ x.ship = req[r].ship
          /\ x.pc \in {"fin_check", "fin_flip"} /\ x.all = req[r].all
      BY <1>2, <2>1 DEF Request
    <3>2. req' = [req EXCEPT ![r] = x]
      BY <2>2, <2>5
    <3> HIDE DEF x
    <3>3. KnowsAlone(x)
      BY <2>1, <3>1 DEF KnowsAlone, MovesKnows, Adding
    <3> QED
      BY <1>1, <2>1, <2>3, <3>1, <3>2, <3>3, QuietSerial
  <2> QED
    BY <2>4, <2>5
<1>9. CASE ReadDevice(r)
  <2>1. /\ req[r].pc = "read"
        /\ UNCHANGED <<status, shipment, lines, lastLine, deaths>>
    BY <1>9 DEF ReadDevice
  <2>2. PICK d \in InHand(r) :
          IF Allowed(status[d], Target(r))
            THEN req' = [req EXCEPT ![r].pc = "commit", ![r].dev = d, ![r].left = @ \ {d}]
          ELSE IF req[r].op \in Adding THEN req' = [req EXCEPT ![r].pc = "undo"]
          ELSE Finish(r)
    BY <1>9 DEF ReadDevice
  <2>3. /\ d \in Devices
        /\ req[r].op \in Adding => d = req[r].dev /\ status[d] = "READY_FOR_EXPORT"
        /\ req[r].op = "remove" => d = req[r].dev /\ status[d] = "IN_EXPORT_CONSIGNMENT"
        /\ req[r].op \in Moves => d \in req[r].left /\ status[d] = "IN_EXPORT_CONSIGNMENT"
        /\ req[r].op = "sale" => d = req[r].dev /\ status[d] \in {"READY_FOR_EXPORT", "SOLD"}
    BY <1>2, <1>3, <2>1 DEF InHand, KnowsAlone, AddKnows, RemoveKnows, MovesKnows, SaleKnows
  <2>4. Allowed(status[d], Target(r)) \/ (req[r].op = "sale" /\ status[d] = "SOLD")
    BY <1>2, <2>3, Kinds, Targets
  <2>5. CASE Allowed(status[d], Target(r))
    <3> DEFINE x == [req[r] EXCEPT !.pc = "commit", !.dev = d, !.left = @ \ {d}]
    <3>1. /\ x \in Request /\ x.op = req[r].op /\ x.ship = req[r].ship /\ x.dev = d
          /\ x.pc = "commit" /\ x.left = req[r].left \ {d}
      BY <1>2, <2>3 DEF Request
    <3>2. req' = [req EXCEPT ![r] = x]
      BY <2>2, <2>5
    <3> HIDE DEF x
    <3>3. x.op \in Adding => AddKnows(x)
      BY <1>2, <2>1, <2>3, <3>1 DEF KnowsAlone, AddKnows
    <3>4. x.op = "remove" => RemoveKnows(x)
      BY <1>2, <2>1, <2>3, <3>1 DEF KnowsAlone, RemoveKnows
    <3>5. x.op \in Moves => MovesKnows(x)
      BY <1>2, <2>1, <2>3, <3>1 DEF KnowsAlone, MovesKnows
    <3>6. x.op = "sale" => SaleKnows(x)
      BY <1>2, <2>1, <2>3, <2>5, <3>1, Targets DEF KnowsAlone, SaleKnows
    <3>7. \A c \in Devices : /\ Inserting(req[r], c) => Inserting(x, c)
                             /\ Deleting(req[r], c) => Deleting(x, c)
                             /\ Pending(req[r], c) => Pending(x, c)
      BY <2>1, <2>3, <3>1 DEF Inserting, Deleting, Pending
    <3> QED
      BY <1>1, <2>1, <3>1, <3>2, <3>3, <3>4, <3>5, <3>6, <3>7, QuietSerial DEF KnowsAlone
  <2>6. CASE ~Allowed(status[d], Target(r))
    <3>1. req[r].op = "sale" /\ Finish(r)
      BY <1>2, <2>2, <2>4, <2>6, Kinds
    <3>2. \A c \in Devices :
            ~Inserting(req[r], c) /\ ~Deleting(req[r], c) /\ ~Pending(req[r], c)
      BY <3>1 DEF Inserting, Deleting, Pending, Adding, Moves
    <3> QED
      BY <1>1, <2>1, <3>1, <3>2, EndSerial
  <2> QED
    BY <2>5, <2>6
<1> QED
  BY <1>4, <1>5, <1>6, <1>7, <1>8, <1>9 DEF Step

\* The line is inserted: it is the only one of its device.
LEMMA SerialInsert ==
  ASSUME SInv, NEW r \in Requests, AddInsertsLine(r)
  PROVE  /\ SInv'
         /\ req[r].dev \in Devices /\ status[req[r].dev] = "READY_FOR_EXPORT"
         /\ UNCHANGED <<status, shipment>>
         /\ \A l \in lines' : l \in lines \/ l.dev = req[r].dev
         /\ lines \subseteq lines'
<1>1. Busy(r)
  BY StepIsBusy DEF SInv, Step
<1>2. /\ req[r] \in Request /\ KnowsAlone(req[r])
      /\ \A q \in Requests : q # r => ~Busy(q)
      /\ req[r].op \in Ops /\ req[r].ship \in Shipments
      /\ req[r].left \in SUBSET Devices /\ req[r].all \in SUBSET Devices
  BY <1>1, SerialFacts
<1>3. /\ req[r].op \in Adding /\ req[r].pc = "add_insert" /\ AddKnows(req[r])
      /\ req[r].dev \in Devices /\ status[req[r].dev] = "READY_FOR_EXPORT"
  BY <1>2, Kinds DEF AddInsertsLine, KnowsAlone, AddKnows, RemoveKnows, MovesKnows, SaleKnows
<1>4. PICK d \in Devices : d = req[r].dev
  BY <1>3
<1>5. ~HasLine(d)
  BY <1>1, <1>2, <1>3, <1>4, InStock, InHandOfOne DEF Inserting
<1>6. d \notin On(req[r].ship)
  BY <1>5 DEF On, HasLine
<1>7. /\ lastLine' = lastLine + 1
      /\ lines' = lines \cup {[id |-> lastLine + 1, ship |-> req[r].ship, dev |-> req[r].dev]}
      /\ req' = [req EXCEPT ![r] = [req[r] EXCEPT !.pc = "read", !.line = lastLine + 1]]
      /\ UNCHANGED <<status, shipment, deaths>>
  BY <1>4, <1>6 DEF AddInsertsLine
<1>8. lines \subseteq Line /\ lastLine \in Nat /\ TypeOK
  BY DEF SInv, TypeOK
<1>9. PICK x \in Request :
        /\ x.op = req[r].op /\ x.ship = req[r].ship /\ x.dev = d
        /\ x.pc = "read" /\ x.left = req[r].left
        /\ req' = [req EXCEPT ![r] = x]
  <2> DEFINE y == [req[r] EXCEPT !.pc = "read", !.line = lastLine + 1]
  <2>1. /\ y \in Request /\ y.op = req[r].op /\ y.ship = req[r].ship /\ y.dev = d
        /\ y.pc = "read" /\ y.left = req[r].left
    <3>1. lastLine + 1 \in Nat
      BY <1>8
    <3> QED
      BY <1>2, <1>4, <3>1 DEF Request
  <2> QED
    BY <1>7, <2>1
<1>10. PICK l \in Line :
         l.id = lastLine + 1 /\ l.ship = req[r].ship /\ l.dev = d /\ lines' = lines \cup {l}
  <2> DEFINE m == [id |-> lastLine + 1, ship |-> req[r].ship, dev |-> req[r].dev]
  <2>1. m \in Line /\ m.id = lastLine + 1 /\ m.ship = req[r].ship /\ m.dev = d
    BY <1>2, <1>3, <1>4, <1>8 DEF Line
  <2> QED
    BY <1>7, <2>1
<1>11. /\ req' \in [Requests -> Request \cup {Rest}]
       /\ Busy(r)' /\ req'[r] = x
       /\ \A q \in Requests : q # r => ~Busy(q) /\ req'[q] = req[q]
  BY <1>2, <1>7, <1>8, <1>9, Rewritten
<1>12. TypeOK'
  BY <1>7, <1>8, <1>10, <1>11 DEF SInv, TypeOK
<1>13. AddKnows(x)'
  <2>1. l \in lines' /\ l.dev = x.dev /\ l.ship = x.ship
    BY <1>9, <1>10
  <2>2. Booked(x.dev, x.ship)'
    BY <2>1 DEF Booked
  <2> QED
    BY <1>3, <1>4, <1>7, <1>9, <2>2 DEF AddKnows
<1>14. KnowsAlone(req[r])'
  BY <1>3, <1>9, <1>11, <1>13, Kinds DEF KnowsAlone
<1>15. \A c \in Devices : /\ ~SomeInserting(c) /\ ~SomeDeleting(c) /\ ~SomePending(c)
                          /\ c = d => SomeInserting(c)'
  BY <1>1, <1>2, <1>3, <1>9, <1>11, InHandOfOne DEF Inserting, Deleting, Pending, SomeInserting,
     Adding, Moves
<1>16. ASSUME NEW c \in Devices
       PROVE  DeviceOk(c)'
  BY <1>7, <1>15 DEF SInv, DeviceOk, HasLine
<1>17. ASSUME NEW m \in lines
       PROVE  /\ LineOk(m)' /\ m.id <= lastLine /\ m.id \in Nat
              /\ m.id # l.id /\ m.dev # d
  <2>1. m.dev \in Devices /\ m.id \in Nat
    BY <1>8 DEF Line
  <2>2. LineOk(m) /\ m.id <= lastLine
    BY DEF SInv, LinesOk
  <2>3. m.dev # d
    BY <1>5 DEF HasLine
  <2> QED
    BY <1>7, <1>8, <1>10, <1>15, <2>1, <2>2, <2>3 DEF LineOk
<1>18. LineOk(l)'
  BY <1>3, <1>4, <1>7, <1>10, <1>15 DEF LineOk
<1>19. LinesOk'
  BY <1>7, <1>8, <1>10, <1>17, <1>18 DEF SInv, LinesOk
<1> QED
  BY <1>3, <1>4, <1>7, <1>10, <1>11, <1>12, <1>14, <1>16, <1>19, SerialStep

\* The line is deleted: its device has none left.
LEMMA SerialDelete ==
  ASSUME SInv, NEW r \in Requests, RemoveDeletesLine(r)
  PROVE  /\ SInv'
         /\ req[r].dev \in Devices
         /\ \E l \in lines : l.dev = req[r].dev /\ l.ship = req[r].ship
         /\ status[req[r].dev] = "IN_EXPORT_CONSIGNMENT" /\ shipment[req[r].ship] = "DRAFT"
         /\ UNCHANGED <<status, shipment>>
         /\ \A l \in lines : l \in lines' <=> l.dev # req[r].dev
         /\ lines' \subseteq lines
<1>1. Busy(r)
  BY StepIsBusy DEF SInv, Step
<1>2. /\ req[r] \in Request /\ KnowsAlone(req[r])
      /\ \A q \in Requests : q # r => ~Busy(q)
      /\ req[r].op \in Ops /\ req[r].ship \in Shipments
      /\ req[r].left \in SUBSET Devices /\ req[r].all \in SUBSET Devices
  BY <1>1, SerialFacts
<1>3. req[r].op = "remove" /\ req[r].pc = "rm_delete" /\ RemoveKnows(req[r])
  BY <1>2, Kinds DEF RemoveDeletesLine, KnowsAlone, AddKnows, RemoveKnows, MovesKnows, SaleKnows
<1>4. PICK l \in lines : l.id = req[r].line /\ l.ship = req[r].ship /\ l.dev = req[r].dev
  BY <1>3 DEF RemoveKnows
<1>5. PICK d \in Devices : d = req[r].dev
  BY <1>3 DEF RemoveKnows
<1>6. \A m \in lines : m.id = l.id <=> m.dev = d
  BY <1>4, <1>5 DEF SInv, LinesOk
<1>7. /\ lines' = Without(req[r].line)
      /\ req' = [req EXCEPT ![r] = [req[r] EXCEPT !.pc = "rm_device"]]
      /\ UNCHANGED <<status, shipment, lastLine, deaths>>
  BY DEF RemoveDeletesLine
<1>8. lines' \subseteq lines /\ \A m \in lines : m \in lines' <=> m.dev # d
  BY <1>4, <1>6, <1>7 DEF Without
<1>9. PICK x \in Request :
        /\ x.op = "remove" /\ x.ship = req[r].ship /\ x.dev = d
        /\ x.pc = "rm_device" /\ x.left = {}
        /\ req' = [req EXCEPT ![r] = x]
  <2> DEFINE y == [req[r] EXCEPT !.pc = "rm_device"]
  <2>1. /\ y \in Request /\ y.op = "remove" /\ y.ship = req[r].ship /\ y.dev = d
        /\ y.pc = "rm_device" /\ y.left = {}
    BY <1>2, <1>3, <1>5 DEF Request, RemoveKnows
  <2> QED
    BY <1>7, <2>1
<1>10. /\ req' \in [Requests -> Request \cup {Rest}]
       /\ Busy(r)' /\ req'[r] = x
       /\ \A q \in Requests : q # r => ~Busy(q) /\ req'[q] = req[q]
  BY <1>2, <1>7, <1>9, Rewritten DEF SInv
<1>11. TypeOK'
  BY <1>7, <1>8, <1>10 DEF SInv, TypeOK
<1>12. RemoveKnows(x)'
  BY <1>3, <1>5, <1>7, <1>8, <1>9 DEF RemoveKnows, HasLine
<1>13. KnowsAlone(req[r])'
  BY <1>9, <1>10, <1>12, Kinds DEF KnowsAlone
<1>14. \A c \in Devices : /\ ~SomeInserting(c) /\ ~SomeDeleting(c) /\ ~SomePending(c)
                          /\ c = d => SomeDeleting(c)'
  BY <1>1, <1>2, <1>3, <1>9, <1>10, InHandOfOne DEF Inserting, Deleting, Pending, SomeDeleting,
     Adding, Moves
<1>15. status[d] = "IN_EXPORT_CONSIGNMENT" /\ shipment[req[r].ship] = "DRAFT"
  BY <1>3, <1>5 DEF RemoveKnows
<1>16. ASSUME NEW c \in Devices
       PROVE  DeviceOk(c)'
  BY <1>7, <1>8, <1>14, <1>15 DEF SInv, DeviceOk, HasLine, Exported
<1>17. ASSUME NEW m \in lines'
       PROVE  LineOk(m)'
  <2>1. m \in lines /\ m.dev \in Devices /\ LineOk(m)
    BY <1>8 DEF SInv, TypeOK, Line, LinesOk
  <2> QED
    BY <1>7, <1>14, <2>1 DEF LineOk
<1>18. LinesOk'
  BY <1>7, <1>8, <1>17 DEF SInv, LinesOk
<1> QED
  BY <1>4, <1>5, <1>7, <1>8, <1>10, <1>11, <1>13, <1>15, <1>16, <1>18, SerialStep

\* The shipment is finalised with every device of it in the loop.
LEMMA SerialFlip ==
  ASSUME SInv, NEW r \in Requests, FinaliseFlipsShipment(r)
  PROVE  /\ SInv'
         /\ req[r].ship \in Shipments
         /\ shipment[req[r].ship] = "DRAFT"
         /\ shipment' = [shipment EXCEPT ![req[r].ship] = "FINALISED"]
         /\ UNCHANGED <<status, lines>>
         /\ \E l \in lines : l.ship = req[r].ship /\ status[l.dev] = "IN_EXPORT_CONSIGNMENT"
<1>1. Busy(r)
  BY StepIsBusy DEF SInv, Step
<1>2. /\ req[r] \in Request /\ KnowsAlone(req[r])
      /\ \A q \in Requests : q # r => ~Busy(q)
      /\ req[r].op \in Ops /\ req[r].ship \in Shipments
      /\ req[r].left \in SUBSET Devices /\ req[r].all \in SUBSET Devices
  BY <1>1, SerialFacts
<1>3. req[r].op = "finalise" /\ req[r].pc = "fin_flip" /\ MovesKnows(req[r])
  BY <1>2, Kinds DEF FinaliseFlipsShipment, KnowsAlone, AddKnows, RemoveKnows, MovesKnows, SaleKnows
<1>4. PICK s \in Shipments : s = req[r].ship
  BY <1>2
<1>5. PICK all \in SUBSET Devices : all = On(s) /\ all = req[r].all /\ all # {}
  BY <1>2, <1>3, <1>4 DEF MovesKnows
<1>6. shipment[s] = "DRAFT"
  BY <1>3, <1>4 DEF MovesKnows
<1>7. /\ shipment' = [shipment EXCEPT ![s] = "FINALISED"]
      /\ NextOf(r, all, "read")
      /\ UNCHANGED <<status, lines, lastLine, deaths>>
  BY <1>4, <1>5, <1>6 DEF FinaliseFlipsShipment
<1>8. /\ shipment'[s] = "FINALISED"
      /\ \A t \in Shipments : t # s => shipment'[t] = shipment[t]
      /\ shipment' \in [Shipments -> {"DRAFT", "FINALISED"}]
  BY <1>7 DEF SInv, TypeOK
<1>9. /\ req' \in [Requests -> Request \cup {Rest}]
      /\ Busy(r)'
      /\ req'[r].pc = "read" /\ req'[r].op = "finalise" /\ req'[r].ship = s
      /\ req'[r].dev = NoDevice /\ req'[r].left = all
      /\ \A q \in Requests : q # r => ~Busy(q) /\ req'[q] = req[q]
  BY <1>2, <1>3, <1>4, <1>5, <1>7, WentOn DEF SInv, Steps
<1>10. TypeOK'
  BY <1>7, <1>8, <1>9 DEF SInv, TypeOK
<1>11. \A c \in Devices : /\ ~SomeInserting(c) /\ ~SomeDeleting(c) /\ ~SomePending(c)
                          /\ c \in all => SomePending(c)'
  BY <1>1, <1>2, <1>3, <1>9, InHandOfOne DEF Inserting, Deleting, Pending, SomePending,
     Adding, Moves
<1>12. \A l \in lines : l \in Line /\ l.dev \in Devices /\ l.ship \in Shipments /\ LineOk(l)
  BY DEF SInv, LinesOk, TypeOK, Line
<1>13. \A l \in lines : l.ship = s => status[l.dev] = "IN_EXPORT_CONSIGNMENT" /\ l.dev \in all
  BY <1>5, <1>6, <1>11, <1>12 DEF LineOk, On
<1>14. \A d \in all : \E l \in lines : l.ship = s /\ l.dev = d
  BY <1>5 DEF On
<1>15. MovesKnows(req[r])'
  BY <1>7, <1>8, <1>9, <1>13, <1>14 DEF MovesKnows, Booked
<1>16. KnowsAlone(req[r])'
  BY <1>9, <1>15 DEF KnowsAlone, Adding
<1>17. ASSUME NEW c \in Devices
       PROVE  DeviceOk(c)'
  BY <1>7, <1>11 DEF SInv, DeviceOk, HasLine
<1>18. ASSUME NEW l \in lines
       PROVE  LineOk(l)'
  <2>1. CASE l.ship = s
    BY <1>7, <1>11, <1>12, <1>13, <2>1 DEF LineOk
  <2>2. CASE l.ship # s
    BY <1>7, <1>8, <1>11, <1>12, <2>2 DEF LineOk
  <2> QED
    BY <2>1, <2>2
<1>19. LinesOk'
  BY <1>7, <1>18 DEF SInv, LinesOk
<1> QED
  BY <1>4, <1>5, <1>6, <1>7, <1>9, <1>10, <1>13, <1>14, <1>16, <1>17, <1>19, SerialStep

\* What a commit starts from: the device in hand is where the operation expects it.
LEMMA CommitFacts ==
  ASSUME SInv, NEW r \in Requests, CommitTransition(r)
  PROVE  /\ Busy(r) /\ req[r] \in Request /\ req[r].pc = "commit"
         /\ req[r].ship \in Shipments /\ req[r].left \in SUBSET Devices
         /\ \A q \in Requests : q # r => ~Busy(q)
         /\ req[r].dev \in Devices \ req[r].left
         /\ UNCHANGED <<shipment, lines, lastLine, deaths>>
         /\ status' = [status EXCEPT ![req[r].dev] = Target(r)]
         /\ NextOf(r, req[r].left, LoopOf(r))
         /\ req[r].op \in Adding =>
              /\ AddKnows(req[r]) /\ Target(r) = "IN_EXPORT_CONSIGNMENT"
              /\ Booked(req[r].dev, req[r].ship) /\ shipment[req[r].ship] = "DRAFT"
              /\ status[req[r].dev] = "READY_FOR_EXPORT"
         /\ req[r].op = "remove" =>
              /\ req[r].left = {} /\ Target(r) = "READY_FOR_EXPORT"
              /\ ~HasLine(req[r].dev)
              /\ status[req[r].dev] = "IN_EXPORT_CONSIGNMENT"
         /\ req[r].op \in Moves =>
              /\ MovesKnows(req[r]) /\ Target(r) = ExportTarget(req[r].ship)
              /\ Booked(req[r].dev, req[r].ship) /\ shipment[req[r].ship] = "FINALISED"
              /\ status[req[r].dev] = "IN_EXPORT_CONSIGNMENT"
         /\ req[r].op = "sale" =>
              /\ req[r].left = {} /\ Target(r) = "SOLD"
              /\ ~HasLine(req[r].dev)
              /\ status[req[r].dev] = "READY_FOR_EXPORT"
<1>1. Busy(r) /\ req[r].pc = "commit"
  BY StepIsBusy DEF SInv, Step, CommitTransition
<1>2. /\ req[r] \in Request /\ KnowsAlone(req[r])
      /\ \A q \in Requests : q # r => ~Busy(q)
      /\ req[r].ship \in Shipments /\ req[r].left \in SUBSET Devices
  BY <1>1, SerialFacts
<1>3. CASE req[r].op \in Adding
  BY <1>1, <1>2, <1>3, Kinds, Targets DEF CommitTransition, KnowsAlone, AddKnows
<1>4. CASE req[r].op = "remove"
  BY <1>1, <1>2, <1>4, Kinds, Targets DEF CommitTransition, KnowsAlone, RemoveKnows
<1>5. CASE req[r].op \in Moves
  BY <1>1, <1>2, <1>5, Kinds, Targets DEF CommitTransition, KnowsAlone, MovesKnows
<1>6. CASE req[r].op = "sale"
  <2>1. PICK d \in Devices : d = req[r].dev /\ status[d] = "READY_FOR_EXPORT" /\ req[r].left = {}
    BY <1>1, <1>2, <1>6 DEF KnowsAlone, SaleKnows
  <2>2. ~SomeInserting(d)
    BY <1>1, <1>2, <1>6, Kinds, InHandOfOne DEF Inserting
  <2>3. ~HasLine(d)
    BY <2>1, <2>2, InStock
  <2> QED
    BY <1>1, <1>2, <1>6, <2>1, <2>3, Kinds, Targets DEF CommitTransition
<1> QED
  BY <1>2, <1>3, <1>4, <1>5, <1>6, Kinds

\* The commit keeps the invariant.
LEMMA SerialCommit ==
  ASSUME SInv, NEW r \in Requests, CommitTransition(r)
  PROVE  SInv'
<1>1. /\ Busy(r) /\ req[r] \in Request /\ req[r].pc = "commit"
      /\ req[r].ship \in Shipments /\ req[r].left \in SUBSET Devices
      /\ \A q \in Requests : q # r => ~Busy(q)
      /\ UNCHANGED <<shipment, lines, lastLine, deaths>>
      /\ NextOf(r, req[r].left, LoopOf(r))
  BY CommitFacts
<1>2. PICK d \in Devices, left \in SUBSET Devices, s \in Shipments, step \in Steps :
        d = req[r].dev /\ left = req[r].left /\ s = req[r].ship /\ step = LoopOf(r) /\ d \notin left
  <2>1. LoopOf(r) \in Steps
    BY DEF LoopOf, Steps
  <2> QED
    BY <2>1, <1>1, CommitFacts
<1>3. PICK target \in DEVICE_STATUSES : target = Target(r)
  BY <1>1 DEF Target, ExportTarget, DEVICE_STATUSES
<1>4. /\ status' = [status EXCEPT ![d] = target]
      /\ status \in [Devices -> DEVICE_STATUSES]
      /\ TypeOK
  BY <1>2, <1>3, CommitFacts DEF SInv, TypeOK
<1>5. /\ status'[d] = target
      /\ \A c \in Devices : c # d => status'[c] = status[c]
      /\ status' \in [Devices -> DEVICE_STATUSES]
  BY <1>4
<1>6. /\ req' \in [Requests -> Request \cup {Rest}]
      /\ left = {} => ~Busy(r)'
      /\ left # {} =>
           /\ Busy(r)'
           /\ req'[r].pc = step /\ req'[r].op = req[r].op /\ req'[r].ship = s
           /\ req'[r].dev = NoDevice /\ req'[r].left = left
      /\ \A q \in Requests : q # r => ~Busy(q) /\ req'[q] = req[q]
  BY <1>1, <1>2, <1>4, WentOn
<1>7. TypeOK'
  BY <1>1, <1>5, <1>6 DEF SInv, TypeOK
<1>8. \A c \in Devices : /\ SomeInserting(c) <=> req[r].op \in Adding /\ c = d
                         /\ SomeDeleting(c) <=> req[r].op = "remove" /\ c = d
                         /\ SomePending(c) <=> req[r].op \in Moves /\ (c \in left \/ c = d)
  BY <1>1, <1>2, InHandOfOne DEF Inserting, Deleting, Pending
<1>9. \A l \in lines : l \in Line /\ l.dev \in Devices /\ l.ship \in Shipments /\ LineOk(l)
  BY DEF SInv, LinesOk, TypeOK, Line
<1>10. \A l \in lines, m \in lines : l.dev = m.dev => l = m
  BY DEF SInv, LinesOk
<1>11. ASSUME KnowsAlone(req[r])' \/ ~Busy(r)',
              DeviceOk(d)', \A l \in lines : l.dev = d => LineOk(l)',
              \A c \in left : SomePending(c) => SomePending(c)'
       PROVE  SInv'
  <2>1. ASSUME NEW c \in Devices, c # d
        PROVE  DeviceOk(c)'
    <3>1. DeviceOk(c) /\ ~SomeDeleting(c)
      BY <1>8, <2>1 DEF SInv
    <3> QED
      BY <1>1, <1>5, <2>1, <3>1 DEF DeviceOk, HasLine
  <2>2. ASSUME NEW l \in lines, l.dev # d
        PROVE  LineOk(l)'
    <3>1. LineOk(l) /\ ~SomeInserting(l.dev) /\ l.dev \in Devices
      BY <1>8, <1>9, <2>2
    <3>2. SomePending(l.dev) => SomePending(l.dev)'
      BY <1>8, <1>9, <1>11, <2>2
    <3> QED
      BY <1>1, <1>5, <2>2, <3>1, <3>2 DEF LineOk
  <2>3. LinesOk'
    BY <1>1, <1>11, <2>2 DEF SInv, LinesOk
  <2> QED
    BY <1>6, <1>7, <1>11, <2>1, <2>3, SerialStep
<1>12. CASE req[r].op \in Adding
  <2>1. /\ AddKnows(req[r]) /\ target = "IN_EXPORT_CONSIGNMENT"
        /\ Booked(d, s) /\ shipment[s] = "DRAFT"
    BY <1>2, <1>3, <1>12, CommitFacts
  <2>2. \A l \in lines : l.dev = d => l.ship = s
    BY <1>10, <2>1 DEF Booked
  <2>3. Busy(r)' => AddKnows(req[r])'
    <3> SUFFICES ASSUME left # {} PROVE AddKnows(req[r])'
      BY <1>6
    <3>1. step = IF req[r].op = "add" THEN "add_device" ELSE "add_matched"
      BY <1>2, <1>12 DEF LoopOf, Adding
    <3>2. req'[r].pc = step /\ req'[r].op = req[r].op /\ req'[r].ship = s
          /\ req'[r].dev = NoDevice /\ req'[r].left = left
      BY <1>6
    <3>3. req[r].op = "bulk" => \A c \in left : status'[c] = "READY_FOR_EXPORT"
      BY <1>2, <1>5, <2>1 DEF AddKnows
    <3>4. NoDevice \notin left
      BY ExportAssumption
    <3> QED
      BY <1>1, <1>12, <2>1, <3>1, <3>2, <3>3, <3>4 DEF AddKnows, Adding
  <2>4. KnowsAlone(req[r])' \/ ~Busy(r)'
    BY <1>6, <1>12, <2>3 DEF KnowsAlone, Adding, Moves
  <2>5. DeviceOk(d)' /\ \A l \in lines : l.dev = d => LineOk(l)'
    BY <1>1, <1>5, <2>1, <2>2 DEF DeviceOk, LineOk, HasLine, Booked, Exported
  <2>6. \A c \in left : ~SomePending(c)
    BY <1>8, <1>12, Kinds, <1>1
  <2> QED
    BY <1>11, <2>4, <2>5, <2>6
<1>13. CASE req[r].op = "remove"
  <2>1. left = {} /\ target = "READY_FOR_EXPORT" /\ ~HasLine(d)
    BY <1>2, <1>3, <1>13, CommitFacts
  <2>2. DeviceOk(d)' /\ \A l \in lines : l.dev # d
    BY <1>1, <1>5, <2>1 DEF DeviceOk, HasLine, Exported
  <2> QED
    BY <1>6, <1>11, <2>1, <2>2
<1>14. CASE req[r].op = "sale"
  <2>1. left = {} /\ target = "SOLD" /\ ~HasLine(d)
    BY <1>2, <1>3, <1>14, CommitFacts
  <2>2. DeviceOk(d)' /\ \A l \in lines : l.dev # d
    BY <1>1, <1>5, <2>1 DEF DeviceOk, HasLine, Exported
  <2> QED
    BY <1>6, <1>11, <2>1, <2>2
<1>15. CASE req[r].op \in Moves
  <2>1. /\ MovesKnows(req[r]) /\ target = ExportTarget(s)
        /\ Booked(d, s) /\ shipment[s] = "FINALISED"
    BY <1>2, <1>3, <1>15, CommitFacts
  <2>2. \A l \in lines : l.dev = d => l.ship = s
    BY <1>10, <2>1 DEF Booked
  <2>3. step = "read"
    BY <1>2, <1>15 DEF LoopOf, Moves
  <2>4. Busy(r)' => MovesKnows(req[r])'
    <3> SUFFICES ASSUME left # {} PROVE MovesKnows(req[r])'
      BY <1>6
    <3>1. req'[r].pc = "read" /\ req'[r].ship = s
          /\ req'[r].dev = NoDevice /\ req'[r].left = left
      BY <1>6, <2>3
    <3>2. \A c \in left : Booked(c, s) /\ status'[c] = "IN_EXPORT_CONSIGNMENT"
      BY <1>1, <1>2, <1>5, <2>1 DEF MovesKnows
    <3> QED
      BY <1>1, <2>1, <3>1, <3>2 DEF MovesKnows, Booked
  <2>5. KnowsAlone(req[r])' \/ ~Busy(r)'
    BY <1>6, <1>15, <2>4 DEF KnowsAlone, Adding, Moves
  <2>6. target \in Exported
    BY <2>1 DEF ExportTarget, Exported
  <2>7. DeviceOk(d)' /\ \A l \in lines : l.dev = d => LineOk(l)'
    BY <1>1, <1>5, <2>1, <2>2, <2>6 DEF DeviceOk, LineOk, HasLine, Booked, Exported
  <2>8. \A c \in left : SomePending(c)'
    BY <1>6, <1>15, <2>3 DEF SomePending, Pending
  <2> QED
    BY <1>11, <2>5, <2>7, <2>8
<1> QED
  BY <1>1, <1>12, <1>13, <1>14, <1>15, Kinds

\* A worker that dies in finalise or resume.
LEMMA SerialAbandon ==
  ASSUME Mortal \subseteq Moves, SInv, NEW r \in Requests, Abandon(r)
  PROVE  SInv'
<1>1. Busy(r) /\ req[r].op \in Moves /\ deaths' = deaths + 1 /\ Finish(r)
      /\ UNCHANGED <<status, shipment, lines, lastLine>>
  BY DEF Abandon, SInv, TypeOK
<1>2. \A d \in Devices : ~Inserting(req[r], d) /\ ~Deleting(req[r], d)
  BY <1>1 DEF Inserting, Deleting, Adding, Moves
<1> QED
  BY <1>1, <1>2, EndSerial

\* Every step of the system keeps the invariant.
LEMMA SerialNext ==
  ASSUME Serialised, Mortal \subseteq Moves
  PROVE  SInv /\ [Next]_vars => SInv'
<1> SUFFICES ASSUME SInv, [Next]_vars PROVE SInv'
  OBVIOUS
<1>1. CASE UNCHANGED vars
  BY <1>1 DEF vars, SInv, TypeOK, Alone, Busy, KnowsAlone, AddKnows, RemoveKnows, MovesKnows,
     SaleKnows, Booked, HasLine, On, DeviceOk, LinesOk, LineOk, SomeInserting, SomeDeleting, SomePending
<1> QED
  BY <1>1, SerialBegin, SerialQuietSteps, SerialInsert, SerialDelete, SerialFlip, SerialCommit,
     SerialAbandon DEF Next

\* It holds at the start.
LEMMA SerialInit == Init => SInv
<1> SUFFICES ASSUME Init PROVE SInv
  OBVIOUS
<1>1. \A r \in Requests : ~Busy(r)
  BY DEF Init, Busy
<1>2. TypeOK
  BY DEF Init, TypeOK, DEVICE_STATUSES
<1> QED
  BY <1>1, <1>2 DEF Init, SInv, Alone, DeviceOk, LinesOk, Exported

\* One request at a time, with workers that die in finalise and resume only, the invariant
\* of the serial system holds.
THEOREM SerialInductive ==
  ASSUME Serialised, Mortal \subseteq Moves
  PROVE  Spec => []SInv
<1>1. SInv /\ [Next]_vars => SInv'
  BY SerialNext
<1> QED
  BY <1>1, SerialInit, PTL DEF Spec

\* IN_EXPORT_CONSIGNMENT iff it has a line on a DRAFT shipment, exported iff that
\* shipment is finalised (deviceLifecycle.ts), but for what dead workers left behind.
THEOREM StatusAndLinesAgree ==
  ASSUME Serialised, Mortal \subseteq Moves
  PROVE  Spec => []StatusFollowsLines
<1>1. ASSUME SInv, AtRest, NEW d \in Devices
      PROVE  LET ons == { shipment[s] : s \in { t \in Shipments : d \in On(t) } } IN
             /\ "DRAFT" \in ons => status[d] = "IN_EXPORT_CONSIGNMENT"
             /\ status[d] = "IN_EXPORT_CONSIGNMENT" =>
                  "DRAFT" \in ons \/ (deaths # 0 /\ "FINALISED" \in ons)
             /\ status[d] \in Exported => "FINALISED" \in ons
             /\ "FINALISED" \in ons /\ deaths = 0 => status[d] \in Exported
  <2> DEFINE ons == { shipment[s] : s \in { t \in Shipments : d \in On(t) } }
  <2>1. \A x : x \in ons <=> \E l \in lines : l.dev = d /\ shipment[l.ship] = x
    BY <1>1 DEF On, SInv, TypeOK, Line
  <2>2. ~SomeInserting(d) /\ ~SomeDeleting(d) /\ ~SomePending(d)
    BY <1>1, NoneInHand DEF AtRest
  <2>3. \A l \in lines : l.dev = d => LineOk(l) /\ shipment[l.ship] \in {"DRAFT", "FINALISED"}
    BY <1>1 DEF SInv, LinesOk, TypeOK, Line
  <2>4. \A l \in lines : l.dev = d =>
          \/ status[d] = "IN_EXPORT_CONSIGNMENT" /\ (shipment[l.ship] = "DRAFT" \/ deaths # 0)
          \/ shipment[l.ship] = "FINALISED" /\ status[d] = ExportTarget(l.ship)
    BY <2>2, <2>3 DEF LineOk
  <2>5. /\ status[d] \in Exported => \E l \in lines : l.dev = d
        /\ status[d] = "IN_EXPORT_CONSIGNMENT" => \E l \in lines : l.dev = d
    BY <1>1, <2>2 DEF SInv, DeviceOk, HasLine
  <2>6. \A s : ExportTarget(s) \in Exported
    BY DEF ExportTarget, Exported
  <2>7. "IN_EXPORT_CONSIGNMENT" \notin Exported
    BY DEF Exported
  <2> HIDE DEF ons
  <2> QED
    BY <2>1, <2>3, <2>4, <2>5, <2>6, <2>7 DEF ons
<1>2. SInv => StatusFollowsLines
  BY <1>1 DEF StatusFollowsLines
<1> QED
  BY <1>2, SerialInductive, PTL

-----------------------------------------------------------------------------
(* The routes implement the abstract consignment.                          *)

\* The refinement mapping of Abstract.
PlaceOf(d) ==
  IF status[d] = "SOLD" THEN "sold"
  ELSE IF PackedOn(d) = {} THEN "stock"
  ELSE CHOOSE s \in PackedOn(d) : TRUE

Place == [d \in Devices |-> PlaceOf(d)]
Final == { s \in Shipments : shipment[s] = "FINALISED" }
Gone  == { d \in Devices : status[d] \in Exported }

\* Where a device is, by its status and its line.
Places ==
  \A d \in Devices :
    /\ status[d] = "SOLD" => PlaceOf(d) = "sold"
    /\ status[d] = "READY_FOR_EXPORT" => PlaceOf(d) = "stock"
    /\ status[d] = "IN_EXPORT_CONSIGNMENT" /\ ~HasLine(d) => PlaceOf(d) = "stock"
    /\ status[d] \in Exported \cup {"IN_EXPORT_CONSIGNMENT"} =>
         \A l \in lines : l.dev = d => PlaceOf(d) = l.ship

\* A device is packed on the shipment of its one line.
LEMMA PlacesOk == SInv => Places
<1> SUFFICES ASSUME SInv, NEW d \in Devices
             PROVE  /\ status[d] = "SOLD" => PlaceOf(d) = "sold"
                    /\ status[d] = "READY_FOR_EXPORT" => PlaceOf(d) = "stock"
                    /\ status[d] = "IN_EXPORT_CONSIGNMENT" /\ ~HasLine(d) => PlaceOf(d) = "stock"
                    /\ status[d] \in Exported \cup {"IN_EXPORT_CONSIGNMENT"} =>
                         \A l \in lines : l.dev = d => PlaceOf(d) = l.ship
  BY DEF Places
<1>1. status[d] = "READY_FOR_EXPORT" => PackedOn(d) = {}
  BY DEF PackedOn, Exported
<1>2. ~HasLine(d) => PackedOn(d) = {}
  BY DEF PackedOn, On, HasLine
<1>3. ASSUME NEW l \in lines, l.dev = d, status[d] \in Exported \cup {"IN_EXPORT_CONSIGNMENT"}
      PROVE  PlaceOf(d) = l.ship
  <2>1. \A m \in lines : m.dev = d => m = l
    BY <1>3 DEF SInv, LinesOk
  <2>2. l.ship \in Shipments
    BY DEF SInv, TypeOK, Line
  <2>3. PackedOn(d) = {l.ship}
    BY <1>3, <2>1, <2>2 DEF PackedOn, On
  <2>4. (CHOOSE s \in PackedOn(d) : TRUE) = l.ship
    BY <2>3
  <2> QED
    BY <1>3, <2>3, <2>4 DEF PlaceOf, Exported
<1> QED
  BY <1>1, <1>2, <1>3 DEF PlaceOf

\* A device whose status and lines a step leaves alone stays where it is.
LEMMA StaysPut ==
  ASSUME NEW d \in Devices, status'[d] = status[d],
         \A l : l.dev = d => (l \in lines' <=> l \in lines)
  PROVE  PlaceOf(d)' = PlaceOf(d)
<1>1. \A s \in Shipments : d \in On(s)' <=> d \in On(s)
  BY DEF On
<1>2. PackedOn(d)' = PackedOn(d)
  BY <1>1 DEF PackedOn
<1> QED
  BY <1>2 DEF PlaceOf

\* The abstract state starts as the abstract consignment does.
LEMMA AbstractInit == Init => Abstract!Init
<1> SUFFICES ASSUME Init PROVE Abstract!Init
  OBVIOUS
<1>1. \A d \in Devices : PlaceOf(d) = "stock"
  BY DEF Init, PlaceOf, PackedOn, Exported
<1>2. Final = {} /\ Gone = {}
  BY DEF Init, Final, Gone, Exported
<1> QED
  BY <1>1, <1>2 DEF Abstract!Init, PlaceOf, Final, Gone

\* A step that leaves statuses, shipments and lines alone is a stutter.
LEMMA AbstractStutter ==
  ASSUME UNCHANGED <<status, shipment, lines>>
  PROVE  UNCHANGED <<Place, Final, Gone>>
<1>1. Place' = Place
  BY StaysPut DEF Place
<1> QED
  BY <1>1 DEF Final, Gone

\* Every step is one of the abstract consignment, or a stutter.
LEMMA AbstractStep ==
  ASSUME SInv, SInv', [Next]_vars, Mortal \subseteq Moves
  PROVE  \/ UNCHANGED <<Place, Final, Gone>>
         \/ \E d \in Devices :
              \/ /\ Place[d] \in Shipments \ Final
                 /\ Place' = [Place EXCEPT ![d] = "stock"] /\ UNCHANGED <<Final, Gone>>
              \/ /\ Place[d] = "stock"
                 /\ Place' = [Place EXCEPT ![d] = "sold"] /\ UNCHANGED <<Final, Gone>>
              \/ /\ Place[d] \in Final
                 /\ Gone' = Gone \cup {d} /\ UNCHANGED <<Place, Final>>
         \/ \E s \in Shipments :
              \/ /\ s \notin Final /\ \E d \in Devices : Place[d] = s
                 /\ Final' = Final \cup {s} /\ UNCHANGED <<Place, Gone>>
              \/ \E d \in Devices :
                   /\ Place[d] = "stock" /\ s \notin Final
                   /\ Place' = [Place EXCEPT ![d] = s] /\ UNCHANGED <<Final, Gone>>
<1>1. Places /\ Places'
  <2>1. SInv => Places
    BY PlacesOk
  <2>2. (SInv => Places)'
    BY PlacesOk, PTL
  <2> QED
    BY <2>1, <2>2
<1>2. TypeOK /\ TypeOK'
  BY DEF SInv
<1>3. CASE UNCHANGED <<status, shipment, lines>>
  BY <1>3, AbstractStutter
<1>4. ASSUME NEW r \in Requests, AddInsertsLine(r)
      PROVE  UNCHANGED <<Place, Final, Gone>>
  <2>1. PICK d \in Devices : d = req[r].dev
    BY <1>4, SerialInsert
  <2>2. /\ status[d] = "READY_FOR_EXPORT" /\ UNCHANGED <<status, shipment>>
        /\ \A l \in lines' : l \in lines \/ l.dev = d
        /\ lines \subseteq lines'
    BY <1>4, <2>1, SerialInsert
  <2>3. PlaceOf(d) = "stock" /\ PlaceOf(d)' = "stock"
    BY <1>1, <2>2 DEF Places
  <2>4. \A c \in Devices : c # d => PlaceOf(c)' = PlaceOf(c)
    BY <2>2, StaysPut
  <2>5. Place' = Place
    BY <2>3, <2>4 DEF Place
  <2> QED
    BY <2>2, <2>5 DEF Final, Gone
<1>5. ASSUME NEW r \in Requests, RemoveDeletesLine(r)
      PROVE  \E d \in Devices :
               /\ Place[d] \in Shipments \ Final
               /\ Place' = [Place EXCEPT ![d] = "stock"] /\ UNCHANGED <<Final, Gone>>
  <2>1. PICK d \in Devices : d = req[r].dev
    BY <1>5, SerialDelete
  <2>2. PICK m \in lines : m.dev = d /\ shipment[m.ship] = "DRAFT"
    BY <1>5, <2>1, SerialDelete
  <2>3. /\ status[d] = "IN_EXPORT_CONSIGNMENT" /\ UNCHANGED <<status, shipment>>
        /\ \A l \in lines : l \in lines' <=> l.dev # d
        /\ lines' \subseteq lines
    BY <1>5, <2>1, SerialDelete
  <2>4. PlaceOf(d) = m.ship /\ m.ship \in Shipments \ Final
    BY <1>1, <1>2, <2>2, <2>3 DEF Places, Final, TypeOK, Line
  <2>5. PlaceOf(d)' = "stock"
    BY <1>1, <2>3 DEF Places, HasLine
  <2>6. \A c \in Devices : c # d => PlaceOf(c)' = PlaceOf(c)
    BY <2>3, StaysPut
  <2>7. Place' = [Place EXCEPT ![d] = "stock"]
    BY <2>5, <2>6 DEF Place
  <2> QED
    BY <2>3, <2>4, <2>7 DEF Place, Final, Gone
<1>6. ASSUME NEW r \in Requests, FinaliseFlipsShipment(r)
      PROVE  \E s \in Shipments :
               /\ s \notin Final /\ \E d \in Devices : Place[d] = s
               /\ Final' = Final \cup {s} /\ UNCHANGED <<Place, Gone>>
  <2>1. PICK s \in Shipments :
          /\ shipment[s] = "DRAFT"
          /\ shipment' = [shipment EXCEPT ![s] = "FINALISED"]
          /\ UNCHANGED <<status, lines>>
          /\ \E l \in lines : l.ship = s /\ status[l.dev] = "IN_EXPORT_CONSIGNMENT"
    BY <1>6, SerialFlip
  <2>2. PICK l \in lines : l.ship = s /\ status[l.dev] = "IN_EXPORT_CONSIGNMENT"
    BY <2>1
  <2>3. l.dev \in Devices /\ PlaceOf(l.dev) = s
    BY <1>1, <1>2, <2>2 DEF Places, TypeOK, Line
  <2>4. s \notin Final /\ Final' = Final \cup {s}
    BY <1>2, <2>1 DEF Final, TypeOK
  <2>5. Place' = Place
    BY <2>1, StaysPut DEF Place
  <2> QED
    BY <2>1, <2>3, <2>4, <2>5 DEF Place, Gone
<1>7. ASSUME NEW r \in Requests, CommitTransition(r)
      PROVE  \/ UNCHANGED <<Place, Final, Gone>>
             \/ \E d \in Devices :
                  \/ /\ Place[d] = "stock"
                     /\ Place' = [Place EXCEPT ![d] = "sold"] /\ UNCHANGED <<Final, Gone>>
                  \/ /\ Place[d] \in Final
                     /\ Gone' = Gone \cup {d} /\ UNCHANGED <<Place, Final>>
                  \/ \E s \in Shipments :
                       /\ Place[d] = "stock" /\ s \notin Final
                       /\ Place' = [Place EXCEPT ![d] = s] /\ UNCHANGED <<Final, Gone>>
  <2>1. PICK d \in Devices, s \in Shipments, target \in DEVICE_STATUSES :
          d = req[r].dev /\ s = req[r].ship /\ target = Target(r)
    BY <1>7, CommitFacts DEF Target, ExportTarget, DEVICE_STATUSES
  <2>2. UNCHANGED <<shipment, lines>> /\ status' = [status EXCEPT ![d] = target]
    BY <1>7, <2>1, CommitFacts
  <2>3. status'[d] = target /\ \A c \in Devices : c # d => status'[c] = status[c]
    BY <1>2, <2>2 DEF TypeOK
  <2>4. \A c \in Devices : c # d => PlaceOf(c)' = PlaceOf(c)
    BY <2>2, <2>3, StaysPut
  <2>5. Final' = Final
    BY <2>2 DEF Final
  <2>6. CASE req[r].op \in Adding
    <3>1. /\ target = "IN_EXPORT_CONSIGNMENT" /\ status[d] = "READY_FOR_EXPORT"
          /\ Booked(d, s) /\ shipment[s] = "DRAFT"
      BY <1>7, <2>1, <2>6, CommitFacts
    <3>2. PlaceOf(d) = "stock" /\ PlaceOf(d)' = s
      BY <1>1, <2>2, <2>3, <3>1 DEF Places, Booked
    <3>3. Place' = [Place EXCEPT ![d] = s] /\ Place[d] = "stock"
      BY <2>4, <3>2 DEF Place
    <3>4. s \notin Final
      BY <3>1 DEF Final
    <3>5. Gone' = Gone
      BY <2>3, <3>1 DEF Gone, Exported
    <3> QED
      BY <2>5, <3>3, <3>4, <3>5
  <2>7. CASE req[r].op = "remove"
    <3>1. target = "READY_FOR_EXPORT" /\ status[d] = "IN_EXPORT_CONSIGNMENT" /\ ~HasLine(d)
      BY <1>7, <2>1, <2>7, CommitFacts
    <3>2. PlaceOf(d) = "stock" /\ PlaceOf(d)' = "stock"
      BY <1>1, <2>3, <3>1 DEF Places
    <3>3. Place' = Place
      BY <2>4, <3>2 DEF Place
    <3>4. Gone' = Gone
      BY <2>3, <3>1 DEF Gone, Exported
    <3> QED
      BY <2>5, <3>3, <3>4
  <2>8. CASE req[r].op = "sale"
    <3>1. target = "SOLD" /\ status[d] = "READY_FOR_EXPORT"
      BY <1>7, <2>1, <2>8, CommitFacts
    <3>2. PlaceOf(d) = "stock" /\ PlaceOf(d)' = "sold"
      BY <1>1, <2>3, <3>1 DEF Places
    <3>3. Place' = [Place EXCEPT ![d] = "sold"] /\ Place[d] = "stock"
      BY <2>4, <3>2 DEF Place
    <3>4. Gone' = Gone
      BY <2>3, <3>1 DEF Gone, Exported
    <3> QED
      BY <2>5, <3>3, <3>4
  <2>9. CASE req[r].op \in Moves
    <3>1. /\ target = ExportTarget(s) /\ status[d] = "IN_EXPORT_CONSIGNMENT"
          /\ Booked(d, s) /\ shipment[s] = "FINALISED"
      BY <1>7, <2>1, <2>9, CommitFacts
    <3>2. target \in Exported
      BY <3>1 DEF ExportTarget, Exported
    <3>3. PlaceOf(d) = s /\ PlaceOf(d)' = s
      BY <1>1, <2>2, <2>3, <3>1, <3>2 DEF Places, Booked
    <3>4. Place' = Place /\ Place[d] \in Final
      BY <2>4, <3>1, <3>3 DEF Place, Final
    <3>5. Gone' = Gone \cup {d}
      BY <2>3, <3>2 DEF Gone
    <3> QED
      BY <2>5, <3>4, <3>5
  <2>10. req[r] \in Request
    BY <1>7, CommitFacts
  <2> QED
    BY <2>6, <2>7, <2>8, <2>9, <2>10, Kinds
<1>8. ASSUME NEW r \in Requests, Begin(r)
      PROVE  UNCHANGED <<status, shipment, lines>>
  BY <1>8 DEF Begin, StartAdd, StartBulk, StartFinalise, StartResume, StartRemove, StartSale, Enter
<1>9. ASSUME NEW r \in Requests, Step(r),
             ~(AddInsertsLine(r) \/ RemoveDeletesLine(r) \/ FinaliseFlipsShipment(r) \/ CommitTransition(r))
      PROVE  UNCHANGED <<status, shipment, lines>>
  <2>1. ~AddUndoesLine(r)
    <3>1. Busy(r)
      BY <1>2, <1>9, StepIsBusy
    <3>2. req[r] \in Request /\ KnowsAlone(req[r])
      BY <3>1, SerialFacts
    <3> QED
      BY <3>2, Kinds DEF AddUndoesLine, KnowsAlone, AddKnows, RemoveKnows, MovesKnows, SaleKnows
  <2> QED
    BY <1>9, <2>1 DEF Step, AddReadsDevice, AddTakesMatched, RemoveReadsDevice,
       FinaliseChecksDevice, ReadDevice
<1>10. ASSUME NEW r \in Requests, Abandon(r)
       PROVE  UNCHANGED <<status, shipment, lines>>
  BY <1>10 DEF Abandon
<1>11. UNCHANGED vars => UNCHANGED <<status, shipment, lines>>
  BY DEF vars
<1> QED
  BY <1>3, <1>4, <1>5, <1>6, <1>7, <1>8, <1>9, <1>10, <1>11 DEF Next

\* One request at a time, and no worker dying but in finalise and resume, the routes
\* implement the abstract consignment: a device is packed on one draft at most, is
\* unpacked or sold only before that is finalised, and leaves with it afterwards.
THEOREM RoutesImplementConsignment ==
  ASSUME Serialised, Mortal \subseteq Moves
  PROVE  Spec => ImplementsConsignment
<1>1. SInv /\ SInv' /\ [Next]_vars => [Abstract!Next]_(Abstract!vars)
  <2> SUFFICES ASSUME SInv, SInv', [Next]_vars
               PROVE  [Abstract!Next]_(Abstract!vars)
    OBVIOUS
  <2> QED
    BY AbstractStep DEF Abstract!Next, Abstract!vars, Abstract!Pack, Abstract!Unpack, Abstract!Sell,
       Abstract!Finalise, Abstract!Depart, Place, PlaceOf, Final, Gone
<1> QED
  BY <1>1, AbstractInit, SerialInductive, PTL DEF Spec, ImplementsConsignment, Abstract!Spec
=============================================================================
