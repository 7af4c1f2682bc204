--------------------------- MODULE Receiving_proofs ---------------------------
(***************************************************************************)
(* Proofs about goods-in, for any number of handsets, manifests, lines and *)
(* requests.                                                               *)
(*                                                                         *)
(* IInv is what holds however the requests interleave and whoever dies: an *)
(* id is given out once, a request past its insert is the only one with    *)
(* its id, and no event and no label of that id is there before it writes  *)
(* them.                                                                   *)
(*                                                                         *)
(* AInv is what holds while a route that takes a receipt back runs alone   *)
(* and to its end (UndoneWithCare).  A received line names the device      *)
(* booked on it, unless a wipe is half through with its manifest; and a    *)
(* device has its event and is on its line, unless a request has still to  *)
(* write them or a worker died.                                            *)
(***************************************************************************)
EXTENDS Receiving, TLAPS

\* The requests past their insert.
Past == {"mark", "log", "queue"}

\* Request r has inserted a row and is not done with it.
Inserted(r) == Busy(r) /\ req[r].op \in Scanning /\ req[r].pc \in Past

\* What a request in flight holds whatever the others do.
Knows(q) ==
  /\ q.pc \in {"device", "line", "insert", "mark", "queue"} => q.op \in Scanning
  /\ q.pc = "delete" => q.op = "delete"
  /\ q.pc \in {"wipe_devices", "wipe_manifest"} => q.op = "wipe" /\ q.manifest \in Manifests
  /\ q.pc \in {"device", "line", "insert", "mark", "delete"} => q.imei \in Imeis
  /\ q.pc \in {"line", "mark"} => q.line \in Lines
  /\ q.pc \in Past \cup {"delete"} =>
       /\ q.id \in 1..lastId
       /\ \A i \in Imeis : device[i].id = q.id => i = q.imei
  /\ q.op \in Scanning /\ q.pc \in {"mark", "log"} => q.id \notin BagToSet(events)
  /\ q.op \in Scanning /\ q.pc \in Past => q.id \notin BagToSet(jobs)
  /\ q.pc = "log" /\ q.op \notin Scanning => q.id \notin Ids

\* Ids are given out once.
IdsOk ==
  /\ \A i \in Imeis : device[i] # Absent => device[i].id \in 1..lastId
  /\ \A i, j \in Imeis : device[i] # Absent /\ device[i].id = device[j].id => i = j
  /\ BagToSet(events) \subseteq 1..lastId
  /\ BagToSet(jobs) \subseteq Ids

\* The inductive invariant of the interleaved system.
IInv ==
  /\ TypeOK
  /\ IdsOk
  /\ ReceivedOnce
  /\ \A r \in Requests : Busy(r) => Knows(req[r])
  /\ \A q, r \in Requests : Inserted(q) /\ Inserted(r) /\ req[q].id = req[r].id => q = r

-----------------------------------------------------------------------------
(* Rows and requests.                                                      *)

\* The steps a busy request may be at.
Steps == {"device", "line", "insert", "mark", "log", "queue", "delete", "wipe_devices", "wipe_manifest"}

\* A row is no Absent, and a busy request no idle one.
LEMMA RowFacts ==
  /\ \A x \in Row : x # Absent
  /\ \A q \in Request : q # Rest
  /\ Absent.id = 0
BY DEF Row, Absent, Request, Rest

\* A request that is busy carries the locals of a route.
LEMMA BusyIsRequest ==
  ASSUME TypeOK, NEW r \in Requests
  PROVE  /\ Busy(r) => req[r] \in Request
         /\ req[r].pc \in Steps => Busy(r)
BY DEF TypeOK, Busy, Rest, Request, Steps

\* A request is at one of its steps only while it is busy.
LEMMA StepIsBusy ==
  ASSUME TypeOK, NEW r \in Requests, Step(r)
  PROVE  Busy(r) /\ req[r] \in Request
<1>1. req[r].pc \in Steps
  BY DEF Steps, Step, ConfirmLooksForDevice, BulkReadsLine, InsertDevice, MarkLine, LogEvent,
     QueueJob, DeleteDevice, WipeDevices, WipeManifest
<1> QED
  BY <1>1, BusyIsRequest

\* What Finish() makes of the requests.
LEMMA Finished ==
  ASSUME TypeOK, NEW r \in Requests, Finish(r)
  PROVE  /\ req' \in [Requests -> Request \cup {Rest}]
         /\ ~Busy(r)'
         /\ \A q \in Requests : q # r => req'[q] = req[q]
BY DEF Finish, TypeOK, Busy

\* A request that goes on with another record.
LEMMA Rewritten ==
  ASSUME TypeOK, NEW r \in Requests, NEW x \in Request, req' = [req EXCEPT ![r] = x]
  PROVE  /\ req' \in [Requests -> Request \cup {Rest}]
         /\ Busy(r)'
         /\ req'[r] = x
         /\ \A q \in Requests : q # r => req'[q] = req[q]
BY RowFacts DEF TypeOK, Busy

\* What Goto() makes of the requests.
LEMMA WentTo ==
  ASSUME TypeOK, NEW r \in Requests, req[r] \in Request, NEW step \in Steps, Goto(r, step)
  PROVE  /\ req' \in [Requests -> Request \cup {Rest}]
         /\ Busy(r)'
         /\ \A q \in Requests : q # r => req'[q] = req[q]
         /\ req'[r].pc = step /\ req'[r].op = req[r].op /\ req'[r].imei = req[r].imei
         /\ req'[r].line = req[r].line /\ req'[r].manifest = req[r].manifest
         /\ req'[r].id = req[r].id
<1> DEFINE x == [req[r] EXCEPT !.pc = step]
<1>1. /\ x \in Request /\ x.pc = step /\ x.op = req[r].op /\ x.imei = req[r].imei
      /\ x.line = req[r].line /\ x.manifest = req[r].manifest /\ x.id = req[r].id
  BY DEF Request, Steps
<1>2. req' = [req EXCEPT ![r] = x]
  BY DEF Goto
<1> HIDE DEF x
<1> QED
  BY <1>1, <1>2, Rewritten

\* What Enter() makes of the requests.
LEMMA Entered ==
  ASSUME TypeOK, NEW r \in Requests, NEW op \in RouteNames, NEW step \in Steps,
         NEW i \in Imeis \cup {NoImei}, NEW l \in Lines \cup {NoLine},
         NEW m \in Manifests \cup {NoManifest}, NEW id \in Nat,
         Enter(r, op, step, i, l, m, id)
  PROVE  /\ TypeOK'
         /\ ~Busy(r) /\ Busy(r)'
         /\ req'[r].pc = step /\ req'[r].op = op /\ req'[r].imei = i
         /\ req'[r].line = l /\ req'[r].manifest = m /\ req'[r].id = id
         /\ \A q \in Requests : q # r => req'[q] = req[q]
         /\ UNCHANGED <<device, line, events, jobs, lastId, deaths>>
<1> DEFINE x == [pc |-> step, op |-> op, imei |-> i, line |-> l, manifest |-> m, id |-> id]
<1>1. x \in Request
  BY DEF Request, Steps
<1>2. req' = [req EXCEPT ![r] = x]
  BY DEF Enter
<1>3. x.pc = step /\ x.op = op /\ x.imei = i /\ x.line = l /\ x.manifest = m /\ x.id = id
  OBVIOUS
<1> HIDE DEF x
<1>4. /\ req' \in [Requests -> Request \cup {Rest}]
      /\ Busy(r)' /\ req'[r] = x
      /\ \A q \in Requests : q # r => req'[q] = req[q]
  BY <1>1, <1>2, Rewritten
<1> QED
  BY <1>3, <1>4 DEF Enter, MayStart, TypeOK

\* One more row of a device in a bag of rows.
LEMMA OneMoreRow ==
  ASSUME NEW b, IsABag(b), NEW id, id \notin BagToSet(b)
  PROVE  /\ IsABag(b (+) SetToBag({id}))
         /\ BagToSet(b (+) SetToBag({id})) = BagToSet(b) \cup {id}
         /\ (b (+) SetToBag({id}))[id] = 1
         /\ \A i \in BagToSet(b) : (b (+) SetToBag({id}))[i] = b[i]
BY DEF IsABag, BagToSet, SetToBag, (+)

\* The ids of the rows on record.
LEMMA IdFacts ==
  ASSUME TypeOK, IdsOk
  PROVE  /\ \A i \in Imeis : device[i] # Absent <=> device[i].id \in Ids
         /\ \A i \in Imeis : device[i] = Absent <=> device[i].id = 0
         /\ \A id \in Ids : \E i \in Imeis : device[i].id = id /\ device[i] # Absent
         /\ Ids \subseteq 1..lastId
BY RowFacts DEF TypeOK, IdsOk, Ids

-----------------------------------------------------------------------------
(* Requests that interleave.                                               *)

\* A step of r keeps the invariant when it keeps the rows in order and what the other
\* requests know of their ids, and gives r no id that another one has inserted.
LEMMA OneRequestStep ==
  ASSUME IInv, NEW r \in Requests,
         TypeOK', IdsOk', ReceivedOnce',
         \A q \in Requests : q # r => req'[q] = req[q],
         lastId <= lastId',
         \A i \in Imeis : device'[i].id = device[i].id \/ device'[i].id = 0 \/ device'[i].id > lastId,
         \A q \in Requests : q # r /\ Inserted(q) =>
           /\ req[q].id \in BagToSet(events)' => req[q].id \in BagToSet(events)
           /\ req[q].id \in BagToSet(jobs)' => req[q].id \in BagToSet(jobs),
         Busy(r)' => Knows(req[r])',
         \A q \in Requests : q # r /\ Inserted(r)' /\ Inserted(q) => req'[r].id # req[q].id
  PROVE  IInv'
<1>1. ASSUME NEW q \in Requests, q # r, Busy(q)'
      PROVE  Knows(req[q])'
  <2>1. Busy(q) /\ req'[q] = req[q]
    BY <1>1 DEF Busy
  <2>2. Knows(req[q]) /\ req[q] \in Request
    BY <2>1, BusyIsRequest DEF IInv
  <2>3. req[q].pc \in Past \cup {"delete"} => req[q].id \in 1..lastId /\ req[q].id \in 1..lastId'
    BY <2>2 DEF Knows, IInv, TypeOK
  <2>4. req[q].pc \in Past \cup {"delete"} =>
          \A i \in Imeis : device'[i].id = req[q].id => device[i].id = req[q].id
    BY <2>3 DEF IInv, TypeOK
  <2>5. req[q].pc = "log" /\ req[q].op \notin Scanning => req[q].id \notin Ids'
    <3> SUFFICES ASSUME req[q].pc = "log", req[q].op \notin Scanning, req[q].id \in Ids'
                 PROVE  FALSE
      OBVIOUS
    <3>1. PICK i \in Imeis : device'[i].id = req[q].id
      BY DEF Ids
    <3>2. device[i].id = req[q].id /\ req[q].id # 0
      BY <2>3, <2>4, <3>1 DEF Past
    <3> QED
      BY <2>2, <3>2 DEF Knows, Ids
  <2>6. req[q].op \in Scanning /\ req[q].pc \in Past => Inserted(q)
    BY <2>1 DEF Inserted
  <2> QED
    BY <1>1, <2>1, <2>2, <2>3, <2>4, <2>5, <2>6 DEF Knows, Past
<1>2. ASSUME NEW p \in Requests, NEW q \in Requests, Inserted(p)', Inserted(q)',
             req'[p].id = req'[q].id, p # q
      PROVE  FALSE
  <2>1. \A s \in Requests : s # r /\ Inserted(s)' => Inserted(s)
    BY DEF Inserted, Busy
  <2> QED
    BY <1>2, <2>1 DEF IInv
<1> QED
  BY <1>1, <1>2 DEF IInv

\* A step that leaves the rows alone.
LEMMA QuietStep ==
  ASSUME IInv, NEW r \in Requests,
         req' \in [Requests -> Request \cup {Rest}], deaths' \in Nat,
         \A q \in Requests : q # r => req'[q] = req[q],
         UNCHANGED <<device, events, jobs, lastId>>, line' \in [Lines -> LineRow],
         Busy(r)' => Knows(req[r])',
         Inserted(r)' => Inserted(r) /\ req'[r].id = req[r].id
  PROVE  IInv'
<1>1. TypeOK' /\ IdsOk' /\ ReceivedOnce'
  BY DEF IInv, TypeOK, IdsOk, ReceivedOnce, Ids
<1>2. lastId \in Nat
  BY DEF IInv, TypeOK
<1>3. \A q \in Requests : q # r /\ Inserted(r)' /\ Inserted(q) => req'[r].id # req[q].id
  BY DEF IInv
<1> QED
  BY <1>1, <1>2, <1>3, OneRequestStep

\* A route that is entered reads, and inserts nothing yet.
LEMMA EnterKeeps ==
  ASSUME IInv, NEW r \in Requests, NEW op \in RouteNames, NEW step \in Steps \ Past,
         NEW i \in Imeis \cup {NoImei}, NEW l \in Lines \cup {NoLine},
         NEW m \in Manifests \cup {NoManifest}, NEW id \in Nat,
         Enter(r, op, step, i, l, m, id),
         step \in {"device", "line", "insert"} => op \in Scanning /\ i \in Imeis,
         step = "line" => l \in Lines,
         step = "delete" => op = "delete" /\ i \in Imeis /\ device[i] # Absent /\ id = device[i].id,
         step \in {"wipe_devices", "wipe_manifest"} => op = "wipe" /\ m \in Manifests
  PROVE  IInv'
<1>1. TypeOK /\ IdsOk
  BY DEF IInv
<1>2. /\ TypeOK'
      /\ ~Busy(r) /\ Busy(r)'
      /\ req'[r].pc = step /\ req'[r].op = op /\ req'[r].imei = i
      /\ req'[r].line = l /\ req'[r].manifest = m /\ req'[r].id = id
      /\ \A q \in Requests : q # r => req'[q] = req[q]
      /\ UNCHANGED <<device, line, events, jobs, lastId, deaths>>
  BY <1>1, Entered
<1>3. step = "delete" => id \in 1..lastId /\ \A j \in Imeis : device[j].id = id => j = i
  BY <1>1 DEF IdsOk
<1>4. Knows(req[r])'
  BY <1>2, <1>3 DEF Knows, Past
<1>5. ~Inserted(r)'
  BY <1>2 DEF Inserted
<1>6. /\ req' \in [Requests -> Request \cup {Rest}] /\ deaths' \in Nat
      /\ line' \in [Lines -> LineRow]
  BY <1>2 DEF TypeOK
<1> QED
  BY <1>2, <1>4, <1>5, <1>6, QuietStep

\* The reads that start a route.
LEMMA BeginStep ==
  ASSUME IInv, NEW r \in Requests, Begin(r)
  PROVE  IInv'
<1>1. /\ "confirm" \in RouteNames /\ "bulk" \in RouteNames /\ "add" \in RouteNames
      /\ "delete" \in RouteNames /\ "wipe" \in RouteNames
      /\ "confirm" \in Scanning /\ "bulk" \in Scanning /\ "add" \in Scanning
      /\ "device" \in Steps \ Past /\ "line" \in Steps \ Past /\ "insert" \in Steps \ Past
      /\ "delete" \in Steps \ Past /\ "wipe_devices" \in Steps \ Past
      /\ 0 \in Nat
  BY DEF RouteNames, Scanning, Steps, Past
<1>2. ASSUME NEW l \in Lines, StartConfirm(r, l)
      PROVE  IInv'
  <2>1. ImeiOf[l] \in Imeis /\ ManifestOf[l] \in Manifests
    BY ReceivingAssumption
  <2> QED
    BY <1>1, <1>2, <2>1, EnterKeeps DEF StartConfirm
<1>3. ASSUME NEW l \in Lines, StartBulkRow(r, l)
      PROVE  IInv'
  <2>1. ImeiOf[l] \in Imeis /\ ManifestOf[l] \in Manifests
    BY ReceivingAssumption
  <2> QED
    BY <1>1, <1>3, <2>1, EnterKeeps DEF StartBulkRow
<1>4. ASSUME NEW i \in Imeis, StartDelete(r, i)
      PROVE  IInv'
  <2>1. device[i] # Absent /\ device[i] \in Row
    BY <1>4 DEF StartDelete, IInv, TypeOK
  <2>2. PICK l \in Lines \cup {NoLine} : l = device[i].line
    BY <2>1 DEF Row
  <2>3. PICK id \in Nat : id = device[i].id
    BY <2>1 DEF Row
  <2>4. Enter(r, "delete", "delete", i, l, NoManifest, id)
    BY <1>4, <2>2, <2>3 DEF StartDelete
  <2> QED
    BY <1>1, <2>1, <2>3, <2>4, EnterKeeps
<1>5. ASSUME NEW i \in Imeis, NEW m \in Manifests \cup {NoManifest}, StartAdd(r, i, m)
      PROVE  IInv'
  BY <1>1, <1>5, EnterKeeps DEF StartAdd
<1>6. ASSUME NEW m \in Manifests, StartWipe(r, m)
      PROVE  IInv'
  BY <1>1, <1>6, EnterKeeps DEF StartWipe
<1> QED
  BY <1>2, <1>3, <1>4, <1>5, <1>6 DEF Begin

\* A request that stops where it is takes its knowledge with it.
LEMMA FinishKeeps ==
  ASSUME IInv, NEW r \in Requests, Finish(r), deaths' \in Nat,
         UNCHANGED <<device, events, jobs, lastId>>, line' \in [Lines -> LineRow]
  PROVE  IInv'
<1>1. TypeOK
  BY DEF IInv
<1>2. /\ req' \in [Requests -> Request \cup {Rest}]
      /\ ~Busy(r)'
      /\ \A q \in Requests : q # r => req'[q] = req[q]
  BY <1>1, Finished
<1>3. ~Inserted(r)'
  BY <1>2 DEF Inserted
<1> QED
  BY <1>2, <1>3, QuietStep

\* The two reads that come before the insert.
LEMMA ReadsStep ==
  ASSUME IInv, NEW r \in Requests, ConfirmLooksForDevice(r) \/ BulkReadsLine(r)
  PROVE  IInv'
<1>1. TypeOK /\ Step(r)
  BY DEF IInv, Step
<1>2. Busy(r) /\ req[r] \in Request /\ Knows(req[r])
  BY <1>1, StepIsBusy DEF IInv
<1>3. /\ UNCHANGED <<device, line, events, jobs, lastId, deaths>>
      /\ deaths' \in Nat /\ line' \in [Lines -> LineRow]
  BY <1>1 DEF ConfirmLooksForDevice, BulkReadsLine, TypeOK
<1>4. CASE Finish(r)
  BY <1>3, <1>4, FinishKeeps
<1>5. CASE Goto(r, "insert")
  <2>1. /\ req' \in [Requests -> Request \cup {Rest}]
        /\ \A q \in Requests : q # r => req'[q] = req[q]
        /\ req'[r].pc = "insert" /\ req'[r].op = req[r].op /\ req'[r].imei = req[r].imei
    BY <1>1, <1>2, <1>5, WentTo DEF Steps
  <2>2. req[r].op \in Scanning /\ req[r].imei \in Imeis
    BY <1>2 DEF Knows, ConfirmLooksForDevice, BulkReadsLine
  <2>3. Knows(req[r])' /\ ~Inserted(r)'
    BY <2>1, <2>2 DEF Knows, Inserted, Past
  <2> QED
    BY <1>3, <2>1, <2>3, QuietStep
<1> QED
  BY <1>4, <1>5 DEF ConfirmLooksForDevice, BulkReadsLine

\* The mark writes no row of a device.
LEMMA MarkStep ==
  ASSUME IInv, NEW r \in Requests, MarkLine(r)
  PROVE  IInv'
<1>1. TypeOK /\ Step(r)
  BY DEF IInv, Step
<1>2. Busy(r) /\ req[r] \in Request /\ Knows(req[r]) /\ req[r].pc = "mark"
  BY <1>1, StepIsBusy DEF IInv, MarkLine
<1>3. /\ req' \in [Requests -> Request \cup {Rest}]
      /\ Busy(r)'
      /\ \A q \in Requests : q # r => req'[q] = req[q]
      /\ req'[r].pc = "log" /\ req'[r].op = req[r].op /\ req'[r].imei = req[r].imei
      /\ req'[r].id = req[r].id
  BY <1>1, <1>2, WentTo DEF Steps, MarkLine
<1>4. /\ UNCHANGED <<device, events, jobs, lastId, deaths>>
      /\ deaths' \in Nat
  BY <1>1 DEF MarkLine, TypeOK
<1>5. line' \in [Lines -> LineRow]
  BY <1>1, <1>2 DEF MarkLine, TypeOK, LineRow, Request
<1>6. Knows(req[r])' /\ Inserted(r)
  BY <1>2, <1>3, <1>4 DEF Knows, Inserted, Past
<1> QED
  BY <1>3, <1>4, <1>5, <1>6, QuietStep

\* The insert takes an id nobody has.
LEMMA InsertStep ==
  ASSUME IInv, NEW r \in Requests, InsertDevice(r)
  PROVE  IInv'
<1>1. TypeOK /\ IdsOk /\ ReceivedOnce /\ Step(r)
  BY DEF IInv, Step
<1>2. Busy(r) /\ req[r] \in Request /\ Knows(req[r]) /\ req[r].pc = "insert"
  BY <1>1, StepIsBusy DEF IInv, InsertDevice
<1>3. CASE Finish(r) /\ UNCHANGED <<device, lastId>>
  BY <1>1, <1>3, FinishKeeps DEF InsertDevice, TypeOK
<1>4. CASE InsertRow(r) /\ device[req[r].imei] = Absent
  <2>1. PICK i \in Imeis : i = req[r].imei
    BY <1>2 DEF Knows
  <2>2. PICK n \in Nat : n = lastId /\ lastId' = n + 1
    BY <1>1, <1>4 DEF InsertRow, TypeOK
  <2>3. PICK d \in Row : /\ d.id = n + 1
                         /\ device' = [device EXCEPT ![i] = d]
    <3> DEFINE d == [id |-> n + 1, line |-> req[r].line, manifest |-> req[r].manifest]
    <3>1. n + 1 \in Nat
      BY <2>2
    <3>2. d \in Row
      BY <1>2, <3>1 DEF Row, Request
    <3>3. device' = [device EXCEPT ![i] = d] /\ d.id = n + 1
      BY <1>4, <2>1, <2>2 DEF InsertRow
    <3> QED
      BY <3>2, <3>3
  <2>4. PICK x \in Request : /\ x.pc \in {"log", "mark"} /\ x.id = n + 1
                             /\ x.pc = "mark" => req[r].line # NoLine
                             /\ x.op = req[r].op /\ x.imei = i /\ x.line = req[r].line
                             /\ req' = [req EXCEPT ![r] = x]
    <3> DEFINE x == [req[r] EXCEPT !.pc = AfterInsert(r), !.id = n + 1]
    <3>1. n + 1 \in Nat
      BY <2>2
    <3>2. /\ x \in Request /\ x.pc \in {"log", "mark"} /\ x.id = n + 1
          /\ x.pc = "mark" => req[r].line # NoLine
          /\ x.op = req[r].op /\ x.imei = i /\ x.line = req[r].line
      BY <1>2, <2>1, <3>1 DEF Request, AfterInsert
    <3>3. req' = [req EXCEPT ![r] = x]
      BY <1>4, <2>2 DEF InsertRow
    <3> HIDE DEF x
    <3> QED
      BY <3>2, <3>3
  <2>5. /\ req' \in [Requests -> Request \cup {Rest}]
        /\ Busy(r)' /\ req'[r] = x
        /\ \A q \in Requests : q # r => req'[q] = req[q]
    BY <1>1, <2>4, Rewritten
  <2>6. UNCHANGED <<line, events, jobs, deaths>>
    BY DEF InsertDevice
  <2>7. /\ device' \in [Imeis -> Row \cup {Absent}]
        /\ device'[i] = d
        /\ \A j \in Imeis : j # i => device'[j] = device[j]
        /\ device[i] = Absent /\ device[i].id = 0
    BY <1>1, <1>4, <2>1, <2>3, RowFacts DEF TypeOK
  <2>8. lastId' \in Nat /\ TypeOK'
    BY <1>1, <2>2, <2>5, <2>6, <2>7 DEF TypeOK
  <2>9. /\ \A j \in Imeis : device[j] # Absent => device[j].id # n + 1
        /\ n + 1 \notin BagToSet(events) /\ n + 1 \notin BagToSet(jobs)
        /\ 1..n \subseteq 1..(n + 1) /\ n + 1 \in 1..(n + 1) /\ n + 1 # 0
        /\ Ids \subseteq 1..n
    BY <1>1, <2>2, IdFacts DEF IdsOk
  <2>10. Ids \subseteq Ids'
    <3>1. ASSUME NEW id \in Ids
          PROVE  id \in Ids'
      <4>1. PICK j \in Imeis : device[j].id = id /\ id # 0
        BY DEF Ids
      <4>2. device'[j].id = id
        BY <2>7, <4>1
      <4> QED
        BY <4>1, <4>2 DEF Ids
    <3> QED
      BY <3>1
  <2>11. IdsOk'
    BY <1>1, <2>2, <2>3, <2>6, <2>7, <2>9, <2>10, RowFacts DEF IdsOk
  <2>12. ReceivedOnce'
    BY <1>1, <2>6 DEF ReceivedOnce
  <2>13. \A j \in Imeis : device'[j].id = n + 1 => j = i
    BY <2>2, <2>7, <2>9, RowFacts
  <2>14. Knows(req[r])'
    BY <1>2, <2>1, <2>2, <2>4, <2>5, <2>6, <2>9, <2>13 DEF Knows, Past, Request
  <2>15. \A q \in Requests : q # r /\ Inserted(q) => req[q].id # n + 1
    BY <2>2 DEF IInv, Inserted, Knows
  <2>16. \A j \in Imeis : device'[j].id = device[j].id \/ device'[j].id > lastId
    BY <2>2, <2>3, <2>7
  <2>17. lastId <= lastId'
    BY <2>2
  <2> QED
    BY <2>4, <2>5, <2>6, <2>8, <2>11, <2>12, <2>14, <2>15, <2>16, <2>17, OneRequestStep
<1> QED
  BY <1>3, <1>4 DEF InsertDevice

\* The first event of a device; the log of a deleted one is refused.
LEMMA LogStep ==
  ASSUME IInv, NEW r \in Requests, LogEvent(r)
  PROVE  IInv'
<1>1. TypeOK /\ IdsOk /\ ReceivedOnce /\ Step(r)
  BY DEF IInv, Step
<1>2. Busy(r) /\ req[r] \in Request /\ Knows(req[r]) /\ req[r].pc = "log"
  BY <1>1, StepIsBusy DEF IInv, LogEvent
<1>3. CASE req[r].id \notin Ids
  BY <1>1, <1>3, FinishKeeps DEF LogEvent, TypeOK
<1>4. CASE req[r].id \in Ids
  <2>1. PICK id \in Nat : id = req[r].id
    BY <1>2 DEF Request
  <2>2. events' = events (+) SetToBag({id}) /\ Goto(r, "queue")
    BY <1>4, <2>1 DEF LogEvent
  <2>3. /\ req[r].op \in Scanning
        /\ id \notin BagToSet(events) /\ id \notin BagToSet(jobs) /\ id \in 1..lastId
        /\ \A i \in Imeis : device[i].id = id => i = req[r].imei
    BY <1>2, <1>4, <2>1 DEF Knows, Past
  <2>4. /\ req' \in [Requests -> Request \cup {Rest}]
        /\ Busy(r)'
        /\ \A q \in Requests : q # r => req'[q] = req[q]
        /\ req'[r].pc = "queue" /\ req'[r].op = req[r].op /\ req'[r].imei = req[r].imei
        /\ req'[r].id = id
    BY <1>1, <1>2, <2>1, <2>2, WentTo DEF Steps
  <2>5. /\ IsABag(events')
        /\ BagToSet(events') = BagToSet(events) \cup {id}
        /\ events'[id] = 1
        /\ \A i \in BagToSet(events) : events'[i] = events[i]
    <3>1. PICK b : b = events
      OBVIOUS
    <3>2. IsABag(b) /\ id \notin BagToSet(b)
      BY <1>1, <2>3, <3>1 DEF TypeOK
    <3>3. events' = b (+) SetToBag({id})
      BY <2>2, <3>1
    <3>4. /\ IsABag(b (+) SetToBag({id}))
          /\ BagToSet(b (+) SetToBag({id})) = BagToSet(b) \cup {id}
          /\ (b (+) SetToBag({id}))[id] = 1
          /\ \A i \in BagToSet(b) : (b (+) SetToBag({id}))[i] = b[i]
      BY <3>2, OneMoreRow
    <3> QED
      BY <3>1, <3>3, <3>4
  <2>6. UNCHANGED <<device, line, jobs, lastId, deaths>>
    BY DEF LogEvent
  <2>7. TypeOK' /\ IdsOk' /\ ReceivedOnce'
    <3>1. BagToSet(events)' = BagToSet(events) \cup {id} /\ Ids' = Ids
      BY <2>5, <2>6 DEF BagToSet, Ids
    <3>2. TypeOK'
      BY <1>1, <2>4, <2>5, <2>6, <3>1 DEF TypeOK
    <3>3. IdsOk'
      BY <1>1, <2>3, <2>6, <3>1 DEF IdsOk
    <3>4. ReceivedOnce'
      BY <1>1, <2>5, <2>6, <3>1 DEF ReceivedOnce
    <3> QED
      BY <3>2, <3>3, <3>4
  <2>8. Inserted(r)
    BY <1>2, <2>3 DEF Inserted, Past
  <2>9. \A q \in Requests : q # r /\ Inserted(q) => req[q].id # id
    BY <2>1, <2>8 DEF IInv
  <2>10. \A q \in Requests : q # r /\ Inserted(q) =>
           /\ req[q].id \in BagToSet(events)' => req[q].id \in BagToSet(events)
           /\ req[q].id \in BagToSet(jobs)' => req[q].id \in BagToSet(jobs)
    BY <2>5, <2>6, <2>9
  <2>11. Knows(req[r])'
    BY <2>3, <2>4, <2>6 DEF Knows, Past
  <2>12. lastId <= lastId'
    BY <1>1, <2>6 DEF TypeOK
  <2> QED
    BY <2>4, <2>6, <2>7, <2>9, <2>10, <2>11, <2>12, OneRequestStep
<1> QED
  BY <1>3, <1>4

\* At most one label of a device.
LEMMA QueueStep ==
  ASSUME IInv, NEW r \in Requests, QueueJob(r)
  PROVE  IInv'
<1>1. TypeOK /\ IdsOk /\ ReceivedOnce /\ Step(r)
  BY DEF IInv, Step
<1>2. Busy(r) /\ req[r] \in Request /\ Knows(req[r]) /\ req[r].pc = "queue"
  BY <1>1, StepIsBusy DEF IInv, QueueJob
<1>3. Finish(r) /\ UNCHANGED <<device, line, events, lastId, deaths>>
  BY DEF QueueJob
<1>4. CASE jobs' = jobs
  BY <1>1, <1>3, <1>4, FinishKeeps DEF TypeOK
<1>5. ASSUME NEW id \in Ids \cap {req[r].id}, jobs' = jobs (+) SetToBag({id})
      PROVE  IInv'
  <2>1. req[r].op \in Scanning /\ id \notin BagToSet(jobs) /\ id \in 1..lastId /\ id \in Nat
    BY <1>1, <1>2, <1>5 DEF Knows, Past, TypeOK
  <2>2. /\ req' \in [Requests -> Request \cup {Rest}]
        /\ ~Busy(r)'
        /\ \A q \in Requests : q # r => req'[q] = req[q]
    BY <1>1, <1>3, Finished
  <2>3. /\ IsABag(jobs')
        /\ BagToSet(jobs') = BagToSet(jobs) \cup {id}
        /\ jobs'[id] = 1
        /\ \A i \in BagToSet(jobs) : jobs'[i] = jobs[i]
    <3>1. PICK b : b = jobs
      OBVIOUS
    <3>2. IsABag(b) /\ id \notin BagToSet(b)
      BY <1>1, <2>1, <3>1 DEF TypeOK
    <3>3. jobs' = b (+) SetToBag({id})
      BY <1>5, <3>1
    <3>4. /\ IsABag(b (+) SetToBag({id}))
          /\ BagToSet(b (+) SetToBag({id})) = BagToSet(b) \cup {id}
          /\ (b (+) SetToBag({id}))[id] = 1
          /\ \A i \in BagToSet(b) : (b (+) SetToBag({id}))[i] = b[i]
      BY <3>2, OneMoreRow
    <3> QED
      BY <3>1, <3>3, <3>4
  <2>4. BagToSet(jobs)' = BagToSet(jobs) \cup {id} /\ Ids' = Ids /\ BagToSet(events)' = BagToSet(events)
    BY <1>3, <2>3 DEF BagToSet, Ids
  <2>5. TypeOK'
    BY <1>1, <1>3, <2>1, <2>2, <2>3, <2>4 DEF TypeOK
  <2>6. IdsOk'
    BY <1>1, <1>3, <1>5, <2>4 DEF IdsOk
  <2>7. ReceivedOnce'
    BY <1>1, <1>3, <2>3, <2>4 DEF ReceivedOnce
  <2>8. Inserted(r)
    BY <1>2, <2>1 DEF Inserted, Past
  <2>9. \A q \in Requests : q # r /\ Inserted(q) => req[q].id # id
    BY <1>5, <2>8 DEF IInv
  <2>10. \A q \in Requests : q # r /\ Inserted(q) =>
           /\ req[q].id \in BagToSet(events)' => req[q].id \in BagToSet(events)
           /\ req[q].id \in BagToSet(jobs)' => req[q].id \in BagToSet(jobs)
    BY <2>4, <2>9
  <2>11. ~Inserted(r)' /\ lastId <= lastId'
    BY <1>1, <1>3, <2>2 DEF Inserted, TypeOK
  <2> QED
    BY <1>3, <2>2, <2>5, <2>6, <2>7, <2>10, <2>11, OneRequestStep
<1> QED
  BY <1>4, <1>5 DEF QueueJob

\* The rows that a delete leaves.
LEMMA RowsLeft ==
  ASSUME IInv, NEW S \in SUBSET Imeis, DeleteRows(S), UNCHANGED <<events, lastId>>
  PROVE  /\ device' \in [Imeis -> Row \cup {Absent}]
         /\ \A i \in S : device'[i] = Absent
         /\ \A i \in Imeis : i \notin S => device'[i] = device[i]
         /\ IsABag(jobs)' /\ BagToSet(jobs)' \subseteq BagToSet(jobs)
         /\ \A id \in BagToSet(jobs)' : jobs'[id] = jobs[id]
         /\ IdsOk' /\ ReceivedOnce'
<1>1. TypeOK /\ IdsOk /\ ReceivedOnce
  BY DEF IInv
<1>2. PICK gone : gone = { device[i].id : i \in S }
  OBVIOUS
<1>3. /\ device' = [i \in Imeis |-> IF i \in S THEN Absent ELSE device[i]]
      /\ jobs' = [id \in BagToSet(jobs) \ gone |-> jobs[id]]
  BY <1>2 DEF DeleteRows
<1>4. /\ device' \in [Imeis -> Row \cup {Absent}]
      /\ \A i \in S : device'[i] = Absent
      /\ \A i \in Imeis : i \notin S => device'[i] = device[i]
  BY <1>1, <1>3 DEF TypeOK
<1>5. /\ IsABag(jobs)' /\ BagToSet(jobs)' = BagToSet(jobs) \ gone
      /\ \A id \in BagToSet(jobs)' : jobs'[id] = jobs[id]
  BY <1>1, <1>3 DEF TypeOK, IsABag, BagToSet
<1>6. ASSUME NEW id \in BagToSet(jobs)'
      PROVE  id \in Ids'
  <2>1. id \in Ids /\ id \notin gone
    BY <1>1, <1>5, <1>6 DEF IdsOk
  <2>2. PICK i \in Imeis : device[i].id = id /\ id # 0
    BY <2>1 DEF Ids
  <2>3. i \notin S
    BY <1>2, <2>1, <2>2
  <2> QED
    BY <1>4, <2>2, <2>3 DEF Ids
<1>7. BagToSet(events)' = BagToSet(events)
  BY DEF BagToSet
<1>8. \A i \in Imeis : device'[i] # Absent => i \notin S /\ device'[i] = device[i]
  BY <1>4
<1>9. IdsOk'
  <2>1. \A i \in Imeis : device'[i] # Absent => device'[i].id \in 1..lastId'
    BY <1>1, <1>8 DEF IdsOk
  <2>2. ASSUME NEW i \in Imeis, NEW j \in Imeis, device'[i] # Absent, device'[i].id = device'[j].id
        PROVE  i = j
    <3>1. device'[i] = device[i] /\ device[i] # Absent /\ device[i].id # 0
      BY <1>1, <1>8, <2>2, IdFacts
    <3>2. j \notin S
      BY <1>4, <2>2, <3>1, RowFacts
    <3> QED
      BY <1>1, <1>4, <2>2, <3>1, <3>2 DEF IdsOk
  <2> QED
    BY <1>1, <1>6, <1>7, <2>1, <2>2 DEF IdsOk
<1>10. ReceivedOnce'
  BY <1>1, <1>5, <1>7 DEF ReceivedOnce
<1> QED
  BY <1>4, <1>5, <1>9, <1>10

\* A request that took rows away goes on, or stops.
LEMMA RowsGoneStep ==
  ASSUME IInv, NEW r \in Requests, NEW S \in SUBSET Imeis, DeleteRows(S),
         UNCHANGED <<events, lastId, deaths>>, line' \in [Lines -> LineRow],
         req' \in [Requests -> Request \cup {Rest}],
         \A q \in Requests : q # r => req'[q] = req[q],
         ~Inserted(r)',
         Busy(r)' => Knows(req[r])'
  PROVE  IInv'
<1>1. TypeOK
  BY DEF IInv
<1>2. /\ device' \in [Imeis -> Row \cup {Absent}]
      /\ \A i \in S : device'[i] = Absent
      /\ \A i \in Imeis : i \notin S => device'[i] = device[i]
      /\ IsABag(jobs)' /\ BagToSet(jobs)' \subseteq BagToSet(jobs)
      /\ IdsOk' /\ ReceivedOnce'
  BY RowsLeft
<1>3. BagToSet(events)' = BagToSet(events)
  BY DEF BagToSet
<1>4. TypeOK'
  BY <1>1, <1>2, <1>3 DEF TypeOK
<1>5. \A i \in Imeis : device'[i].id = device[i].id \/ device'[i].id = 0
  BY <1>2, RowFacts
<1>6. lastId <= lastId'
  BY <1>1 DEF TypeOK
<1> QED
  BY <1>2, <1>3, <1>4, <1>5, <1>6, OneRequestStep

\* Deleting a device, found or not, leaves none with its id.
LEMMA DeleteStep ==
  ASSUME IInv, NEW r \in Requests, DeleteDevice(r)
  PROVE  IInv'
<1>1. TypeOK /\ IdsOk /\ ReceivedOnce /\ Step(r)
  BY DEF IInv, Step
<1>2. Busy(r) /\ req[r] \in Request /\ Knows(req[r]) /\ req[r].pc = "delete"
  BY <1>1, StepIsBusy DEF IInv, DeleteDevice
<1>3. CASE Finish(r) /\ UNCHANGED <<device, line, jobs>>
  BY <1>1, <1>3, FinishKeeps DEF DeleteDevice, TypeOK
<1>4. CASE ~(Finish(r) /\ UNCHANGED <<device, line, jobs>>)
  <2>1. PICK i \in Imeis, id \in Nat : i = req[r].imei /\ id = req[r].id
    BY <1>2 DEF Knows, Request
  <2>2. PICK S \in SUBSET Imeis : S = IF device[i].id = id THEN {i} ELSE {}
    OBVIOUS
  <2>3. /\ line' = IF req[r].line = NoLine \/ line[req[r].line].status = "gone"
                     THEN line
                     ELSE [line EXCEPT ![req[r].line] = Pending]
        /\ DeleteRows(S)
        /\ Goto(r, "log")
        /\ UNCHANGED <<events, lastId, deaths>>
    BY <1>4, <2>1, <2>2 DEF DeleteDevice
  <2>4. line' \in [Lines -> LineRow]
    BY <1>1, <2>3 DEF TypeOK, LineRow, Pending
  <2>5. /\ req' \in [Requests -> Request \cup {Rest}]
        /\ Busy(r)'
        /\ \A q \in Requests : q # r => req'[q] = req[q]
        /\ req'[r].pc = "log" /\ req'[r].op = "delete" /\ req'[r].imei = i
        /\ req'[r].id = id
    BY <1>1, <1>2, <2>1, <2>3, WentTo DEF Steps, Knows
  <2>6. /\ \A j \in S : device'[j] = Absent
        /\ \A j \in Imeis : j \notin S => device'[j] = device[j]
    BY <2>3, RowsLeft
  <2>7. id \in 1..lastId /\ \A j \in Imeis : device[j].id = id => j = i
    BY <1>2, <2>1 DEF Knows
  <2>8. \A j \in Imeis : device'[j].id # id
    <3>1. id # 0
      BY <1>1, <2>7 DEF TypeOK
    <3> QED
      BY <2>2, <2>6, <2>7, <3>1, RowFacts
  <2>9. id \notin Ids'
    BY <2>8 DEF Ids
  <2>10. Knows(req[r])' /\ ~Inserted(r)'
    BY <2>3, <2>5, <2>7, <2>8, <2>9 DEF Knows, Inserted, Past, Scanning
  <2> QED
    BY <2>3, <2>4, <2>5, <2>10, RowsGoneStep
<1> QED
  BY <1>3, <1>4

\* The first statement of a manifest's deletion.
LEMMA WipeDevicesStep ==
  ASSUME IInv, NEW r \in Requests, WipeDevices(r)
  PROVE  IInv'
<1>1. TypeOK /\ Step(r)
  BY DEF IInv, Step
<1>2. Busy(r) /\ req[r] \in Request /\ Knows(req[r]) /\ req[r].pc = "wipe_devices"
  BY <1>1, StepIsBusy DEF IInv, WipeDevices
<1>3. CASE Finish(r) /\ UNCHANGED <<device, jobs>>
  BY <1>1, <1>3, FinishKeeps DEF WipeDevices, TypeOK
<1>4. CASE ~(Finish(r) /\ UNCHANGED <<device, jobs>>)
  <2>1. PICK S \in SUBSET Imeis : S = BookedOn(req[r].manifest)
    BY DEF BookedOn
  <2>2. DeleteRows(S) /\ Goto(r, "wipe_manifest") /\ UNCHANGED <<line, events, lastId, deaths>>
    BY <1>4, <2>1 DEF WipeDevices
  <2>3. /\ req' \in [Requests -> Request \cup {Rest}]
        /\ Busy(r)'
        /\ \A q \in Requests : q # r => req'[q] = req[q]
        /\ req'[r].pc = "wipe_manifest" /\ req'[r].op = "wipe"
        /\ req'[r].manifest = req[r].manifest /\ req[r].manifest \in Manifests
    BY <1>1, <1>2, <2>2, WentTo DEF Steps, Knows
  <2>4. Knows(req[r])' /\ ~Inserted(r)'
    BY <2>3 DEF Knows, Inserted, Past, Scanning
  <2>5. line' \in [Lines -> LineRow]
    BY <1>1, <2>2 DEF TypeOK
  <2> QED
    BY <2>2, <2>3, <2>4, <2>5, RowsGoneStep
<1> QED
  BY <1>3, <1>4

\* The second statement keeps the id of every device.
LEMMA WipeManifestStep ==
  ASSUME IInv, NEW r \in Requests, WipeManifest(r)
  PROVE  IInv'
<1>1. TypeOK /\ IdsOk /\ ReceivedOnce /\ Step(r)
  BY DEF IInv, Step
<1>0. PICK m : m = req[r].manifest
  OBVIOUS
<1>2. PICK B \in SUBSET Imeis : m = req[r].manifest /\ B = BookedOn(m)
  BY <1>0 DEF BookedOn
<1>3. /\ line' = [l \in Lines |-> IF ManifestOf[l] = m THEN Gone ELSE line[l]]
      /\ device' = [i \in Imeis |->
                     IF i \in B THEN [device[i] EXCEPT !.manifest = NoManifest, !.line = NoLine]
                                ELSE device[i]]
      /\ Finish(r)
      /\ UNCHANGED <<events, jobs, lastId, deaths>>
  BY <1>2 DEF WipeManifest
<1>4. /\ req' \in [Requests -> Request \cup {Rest}]
      /\ ~Busy(r)'
      /\ \A q \in Requests : q # r => req'[q] = req[q]
  BY <1>1, <1>3, Finished
<1>5. line' \in [Lines -> LineRow]
  BY <1>1, <1>3 DEF TypeOK, LineRow, Gone
<1>6. \A i \in B : device[i] \in Row
  BY <1>1, <1>2 DEF BookedOn, TypeOK
<1>7. /\ device' \in [Imeis -> Row \cup {Absent}]
      /\ \A i \in Imeis : device'[i].id = device[i].id
      /\ \A i \in Imeis : device'[i] # Absent <=> device[i] # Absent
  <2>1. ASSUME NEW i \in Imeis
        PROVE  /\ device'[i] \in Row \cup {Absent}
               /\ device'[i].id = device[i].id
               /\ device'[i] # Absent <=> device[i] # Absent
    <3>1. CASE i \in B
      <4>1. device'[i] = [device[i] EXCEPT !.manifest = NoManifest, !.line = NoLine]
        BY <1>3, <3>1
      <4>2. device'[i] \in Row /\ device'[i].id = device[i].id
        BY <1>6, <3>1, <4>1 DEF Row
      <4> QED
        BY <1>6, <3>1, <4>2, RowFacts
    <3>2. CASE i \notin B
      BY <1>1, <1>3, <3>2 DEF TypeOK
    <3> QED
      BY <3>1, <3>2
  <2> QED
    BY <1>3, <2>1
<1>8. Ids' = Ids /\ BagToSet(events)' = BagToSet(events) /\ BagToSet(jobs)' = BagToSet(jobs)
  BY <1>3, <1>7 DEF Ids, BagToSet
<1>9. TypeOK'
  BY <1>1, <1>3, <1>4, <1>5, <1>7, <1>8 DEF TypeOK
<1>10. IdsOk' /\ ReceivedOnce'
  <2>1. IdsOk'
    <3>1. lastId' = lastId
      BY <1>3
    <3>2. /\ \A i \in Imeis : device'[i] # Absent => device'[i].id \in 1..lastId
          /\ \A i, j \in Imeis : device'[i] # Absent /\ device'[i].id = device'[j].id => i = j
      BY <1>1, <1>7 DEF IdsOk
    <3> QED
      BY <1>1, <1>8, <3>1, <3>2 DEF IdsOk
  <2>2. ReceivedOnce'
    BY <1>1, <1>3, <1>8 DEF ReceivedOnce
  <2> QED
    BY <2>1, <2>2
<1>11. ~Inserted(r)'
  BY <1>4 DEF Inserted
<1>12. lastId \in Nat /\ lastId' = lastId
  BY <1>1, <1>3 DEF TypeOK
<1>13. lastId <= lastId'
  BY <1>12
<1> QED
  BY <1>3, <1>4, <1>7, <1>8, <1>9, <1>10, <1>11, <1>13, OneRequestStep

\* A worker that dies leaves what it wrote.
LEMMA AbandonStep ==
  ASSUME IInv, NEW r \in Requests, Abandon(r)
  PROVE  IInv'
<1>1. deaths' \in Nat /\ line' \in [Lines -> LineRow]
  BY DEF Abandon, IInv, TypeOK
<1> QED
  BY <1>1, FinishKeeps DEF Abandon

\* The invariant holds where the system starts.
LEMMA InitOk == Init => IInv
<1> SUFFICES ASSUME Init
             PROVE  IInv
  OBVIOUS
<1>1. EmptyBag \in [{} -> {n \in Nat : n > 0}] /\ DOMAIN EmptyBag = {}
  BY DEF EmptyBag, SetToBag
<1>2. IsABag(EmptyBag) /\ BagToSet(EmptyBag) = {}
  BY <1>1 DEF IsABag, BagToSet
<1>3. Pending \in LineRow
  BY DEF Pending, LineRow
<1>4. TypeOK
  BY <1>2, <1>3 DEF Init, TypeOK
<1>5. Ids = {}
  BY DEF Init, Ids, Absent
<1>6. IdsOk /\ ReceivedOnce
  BY <1>2, <1>5 DEF Init, IdsOk, ReceivedOnce
<1>7. \A r \in Requests : ~Busy(r)
  BY DEF Init, Busy
<1> QED
  BY <1>4, <1>6, <1>7 DEF IInv, Inserted

\* Every step keeps it.
LEMMA NextOk == IInv /\ [Next]_vars => IInv'
<1> SUFFICES ASSUME IInv, [Next]_vars
             PROVE  IInv'
  OBVIOUS
<1>1. ASSUME NEW r \in Requests, Begin(r)
      PROVE  IInv'
  BY <1>1, BeginStep
<1>2. ASSUME NEW r \in Requests, Step(r)
      PROVE  IInv'
  BY <1>2, ReadsStep, InsertStep, MarkStep, LogStep, QueueStep, DeleteStep, WipeDevicesStep,
     WipeManifestStep DEF Step
<1>3. ASSUME NEW r \in Requests, Abandon(r)
      PROVE  IInv'
  BY <1>3, AbandonStep
<1>4. CASE UNCHANGED vars
  <2>1. TypeOK' /\ IdsOk' /\ ReceivedOnce'
    BY <1>4 DEF vars, IInv, TypeOK, IdsOk, ReceivedOnce, Ids
  <2>2. \A r \in Requests : Busy(r)' => Knows(req[r])'
    BY <1>4 DEF vars, IInv, Busy, Knows, Ids
  <2>3. \A q, r \in Requests : Inserted(q)' /\ Inserted(r)' /\ req'[q].id = req'[r].id => q = r
    BY <1>4 DEF vars, IInv, Inserted, Busy
  <2> QED
    BY <2>1, <2>2, <2>3 DEF IInv
<1> QED
  BY <1>1, <1>2, <1>3, <1>4 DEF Next

\* However the requests interleave and whoever dies, ids are given out once, and every
\* request past its insert is the only one that knows its device.
THEOREM ReceivingInductive == Spec => []IInv
BY InitOk, NextOk, PTL DEF Spec

\* The rows, the events, the jobs and the locals of the requests have their types.
THEOREM ReceivingTypes == Spec => []TypeOK
<1>1. IInv => TypeOK
  BY DEF IInv
<1> QED
  BY <1>1, ReceivingInductive, PTL

\* A handset is received once (routes/scan.ts): whoever loses the race for an imei, a device
\* has one event and at most one label.
THEOREM ReceivedOnlyOnce == Spec => []ReceivedOnce
<1>1. IInv => ReceivedOnce
  BY DEF IInv
<1> QED
  BY <1>1, ReceivingInductive, PTL

-----------------------------------------------------------------------------
(* The staff undo receipts with nothing else in flight.                    *)

Undoing == {"delete", "wipe"}

\* A request that takes a receipt back has the system to itself.
UndoneAlone ==
  \A q, r \in Requests : Busy(q) /\ Busy(r) /\ req[q].op \in Undoing => q = r

\* The manifest a wipe is half through with.
HalfWiped(m) ==
  \E r \in Requests : Busy(r) /\ req[r].pc = "wipe_manifest" /\ req[r].manifest = m

\* A line that reads received names the device that was booked on it.
LineOk(l) ==
  line[l].status = "received" /\ ~HalfWiped(ManifestOf[l]) =>
    /\ device[ImeiOf[l]] # Absent
    /\ device[ImeiOf[l]].id = line[l].device
    /\ device[ImeiOf[l]].line = l

\* Some request has device id to mark, or to log.
ToMark(id) == \E r \in Requests : Inserted(r) /\ req[r].id = id /\ req[r].pc = "mark"
ToLog(id)  == \E r \in Requests : Inserted(r) /\ req[r].id = id /\ req[r].pc \in {"mark", "log"}

DeviceOk(i) ==
  device[i] # Absent =>
    /\ device[i].id \in BagToSet(events) \/ deaths # 0 \/ ToLog(device[i].id)
    /\ device[i].line # NoLine =>
         LET l == device[i].line IN
         /\ ImeiOf[l] = i /\ ManifestOf[l] = device[i].manifest
         /\ line[l].status # "gone"
         /\ \/ line[l] = [status |-> "received", device |-> device[i].id]
            \/ deaths # 0 \/ ToMark(device[i].id)

\* What a request knows while nobody takes back what it works on.
KnowsAlone(q) ==
  /\ q.op \in Scanning /\ q.line # NoLine =>
       q.imei = ImeiOf[q.line] /\ q.manifest = ManifestOf[q.line]
  /\ q.pc = "mark" =>
       /\ device[q.imei].id = q.id
       /\ device[q.imei].line = q.line
       /\ line[q.line].status # "gone"
  /\ q.op \in Scanning /\ q.pc = "log" => q.id \in Ids
  /\ q.pc = "delete" =>
       /\ device[q.imei] # Absent /\ device[q.imei].id = q.id /\ device[q.imei].line = q.line
  /\ q.pc = "wipe_manifest" => BookedOn(q.manifest) = {}

AInv ==
  /\ UndoneAlone
  /\ \A r \in Requests : Busy(r) => KnowsAlone(req[r])
  /\ \A l \in Lines : LineOk(l)
  /\ \A i \in Imeis : DeviceOk(i)

\* A route that takes a receipt back runs alone and to its end, as in the run that checks
\* the properties: a deletion between the insert of a receipt and its mark leaves a line
\* received by a device that is gone.
UndoneWithCare == Undoing \subseteq Alone /\ Mortal \subseteq Scanning

\* What a request with another record leaves to the others.
Others(r) == \A q \in Requests : q # r => req'[q] = req[q]

\* Every request scans, or there is one only.
LEMMA ScanOrAlone ==
  ASSUME IInv, AInv, NEW r \in Requests, Busy(r)
  PROVE  /\ req[r].op \in Scanning =>
              /\ \A q \in Requests : Busy(q) => req[q].op \in Scanning
              /\ \A m : ~HalfWiped(m)
         /\ req[r].op \in Undoing =>
              /\ \A q \in Requests : Busy(q) => q = r
              /\ \A id : ~ToMark(id) /\ ~ToLog(id)
         /\ req[r].op \in Scanning <=> req[r].op \notin Undoing
<1>1. \A q \in Requests : Busy(q) => req[q].op \in RouteNames
  BY BusyIsRequest DEF IInv, Request
<1>2. Scanning \cup Undoing = RouteNames /\ Scanning \cap Undoing = {}
  BY DEF Scanning, Undoing, RouteNames
<1>3. req[r].op \in Scanning => \A q \in Requests : Busy(q) => req[q].op \in Scanning
  BY <1>1, <1>2 DEF AInv, UndoneAlone
<1>4. \A q \in Requests : Busy(q) /\ req[q].pc = "wipe_manifest" => req[q].op \in Undoing
  BY DEF IInv, Knows, Undoing
<1>5. req[r].op \in Undoing => \A q \in Requests : Busy(q) => q = r
  BY DEF AInv, UndoneAlone
<1>6. req[r].op \in Scanning => \A m : ~HalfWiped(m)
  BY <1>2, <1>3, <1>4 DEF HalfWiped
<1>7. req[r].op \in Undoing => \A id : ~ToMark(id) /\ ~ToLog(id)
  BY <1>2, <1>5 DEF ToMark, ToLog, Inserted
<1> QED
  BY <1>1, <1>2, <1>3, <1>5, <1>6, <1>7

\* Nobody joins in a step of a request.
LEMMA NobodyJoins ==
  ASSUME AInv, NEW r \in Requests, Busy(r), Others(r), Busy(r)' => req'[r].op = req[r].op
  PROVE  UndoneAlone'
BY DEF AInv, UndoneAlone, Others, Busy

\* What the other requests have to do is still to be done.
LEMMA StillToDo ==
  ASSUME NEW r \in Requests, Others(r)
  PROVE  /\ \A id : (\E q \in Requests : q # r /\ Inserted(q) /\ req[q].id = id /\ req[q].pc = "mark")
                      => ToMark(id)'
         /\ \A id : (\E q \in Requests : q # r /\ Inserted(q) /\ req[q].id = id /\ req[q].pc \in {"mark", "log"})
                      => ToLog(id)'
         /\ \A m : (\E q \in Requests : q # r /\ Busy(q) /\ req[q].pc = "wipe_manifest" /\ req[q].manifest = m)
                      => HalfWiped(m)'
BY DEF Others, ToMark, ToLog, HalfWiped, Inserted, Busy

\* A step that writes no row, of a request that has nothing to mark or log.
LEMMA QuietAlone ==
  ASSUME IInv, AInv, NEW r \in Requests, Others(r),
         UNCHANGED <<device, line, events>>,
         deaths # 0 => deaths' # 0,
         deaths' # 0 \/ (Inserted(r) => req[r].pc \notin {"mark", "log"}),
         Busy(r) => req[r].pc # "wipe_manifest",
         UndoneAlone',
         Busy(r)' => KnowsAlone(req[r])'
  PROVE  AInv'
<1>1. \A q \in Requests : q # r /\ Busy(q)' => KnowsAlone(req[q])'
  BY DEF AInv, Others, Busy, KnowsAlone, Ids, BookedOn
<1>2. \A m : HalfWiped(m) => HalfWiped(m)'
  BY StillToDo DEF HalfWiped
<1>3. \A id : /\ ToMark(id) => ToMark(id)' \/ deaths' # 0
              /\ ToLog(id) => ToLog(id)' \/ deaths' # 0
  BY StillToDo DEF ToMark, ToLog
<1>4. \A l \in Lines : LineOk(l)'
  BY <1>2 DEF AInv, LineOk
<1>5. BagToSet(events)' = BagToSet(events)
  BY DEF BagToSet
<1>6. ASSUME NEW i \in Imeis
      PROVE  DeviceOk(i)'
  <2>1. DeviceOk(i)
    BY DEF AInv
  <2> QED
    BY <1>3, <1>5, <2>1 DEF DeviceOk
<1> QED
  BY <1>1, <1>4, <1>6 DEF AInv

\* A request that has nothing left to do stops.
LEMMA FinishAlone ==
  ASSUME IInv, AInv, NEW r \in Requests, Finish(r), Busy(r),
         UNCHANGED <<device, line, events>>,
         deaths # 0 => deaths' # 0,
         deaths' # 0 \/ (Inserted(r) => req[r].pc \notin {"mark", "log"}),
         req[r].pc # "wipe_manifest"
  PROVE  AInv'
<1>1. TypeOK
  BY DEF IInv
<1>2. ~Busy(r)' /\ Others(r)
  BY <1>1, Finished DEF Others
<1>3. UndoneAlone'
  BY <1>2, NobodyJoins
<1> QED
  BY <1>2, <1>3, QuietAlone

\* A route is entered: one that undoes, while nobody is busy; any other, while nobody undoes.
LEMMA EnterAlone ==
  ASSUME IInv, AInv, UndoneWithCare, NEW r \in Requests,
         NEW op \in RouteNames, NEW step \in Steps \ Past,
         NEW i \in Imeis \cup {NoImei}, NEW l \in Lines \cup {NoLine},
         NEW m \in Manifests \cup {NoManifest}, NEW id \in Nat,
         Enter(r, op, step, i, l, m, id),
         step # "wipe_manifest",
         op \in Scanning /\ l # NoLine => i = ImeiOf[l] /\ m = ManifestOf[l],
         step = "delete" =>
           i \in Imeis /\ device[i] # Absent /\ id = device[i].id /\ l = device[i].line
  PROVE  AInv'
<1>1. TypeOK
  BY DEF IInv
<1>2. /\ ~Busy(r) /\ Busy(r)'
      /\ req'[r].pc = step /\ req'[r].op = op /\ req'[r].imei = i
      /\ req'[r].line = l /\ req'[r].manifest = m /\ req'[r].id = id
      /\ Others(r)
      /\ UNCHANGED <<device, line, events, jobs, lastId, deaths>>
  BY <1>1, Entered DEF Others
<1>3. \A q \in Requests : q # r /\ Busy(q) => op \notin Undoing /\ req[q].op \notin Undoing
  BY DEF Enter, MayStart, UndoneWithCare
<1>4. \A q \in Requests : q # r => (Busy(q)' <=> Busy(q)) /\ req'[q].op = req[q].op
  BY <1>2 DEF Others, Busy
<1>5. UndoneAlone'
  BY <1>2, <1>3, <1>4 DEF AInv, UndoneAlone
<1>6. KnowsAlone(req[r])'
  BY <1>2 DEF KnowsAlone, Past
<1> QED
  BY <1>2, <1>5, <1>6, QuietAlone DEF Inserted

\* The reads that start a route.
LEMMA BeginAlone ==
  ASSUME IInv, AInv, UndoneWithCare, NEW r \in Requests, Begin(r)
  PROVE  AInv'
<1>1. /\ "confirm" \in RouteNames /\ "bulk" \in RouteNames /\ "add" \in RouteNames
      /\ "delete" \in RouteNames /\ "wipe" \in RouteNames
      /\ "delete" \notin Scanning /\ "wipe" \notin Scanning
      /\ "device" \in Steps \ Past /\ "line" \in Steps \ Past /\ "insert" \in Steps \ Past
      /\ "delete" \in Steps \ Past /\ "wipe_devices" \in Steps \ Past
      /\ 0 \in Nat
  BY DEF RouteNames, Scanning, Steps, Past
<1>2. ASSUME NEW l \in Lines, StartConfirm(r, l)
      PROVE  AInv'
  <2>1. ImeiOf[l] \in Imeis /\ ManifestOf[l] \in Manifests
    BY ReceivingAssumption
  <2> QED
    BY <1>1, <1>2, <2>1, EnterAlone DEF StartConfirm
<1>3. ASSUME NEW l \in Lines, StartBulkRow(r, l)
      PROVE  AInv'
  <2>1. ImeiOf[l] \in Imeis /\ ManifestOf[l] \in Manifests
    BY ReceivingAssumption
  <2> QED
    BY <1>1, <1>3, <2>1, EnterAlone DEF StartBulkRow
<1>4. ASSUME NEW i \in Imeis, StartDelete(r, i)
      PROVE  AInv'
  <2>1. device[i] # Absent /\ device[i] \in Row
    BY <1>4 DEF StartDelete, IInv, TypeOK
  <2>2. PICK l \in Lines \cup {NoLine} : l = device[i].line
    BY <2>1 DEF Row
  <2>3. PICK id \in Nat : id = device[i].id
    BY <2>1 DEF Row
  <2>4. Enter(r, "delete", "delete", i, l, NoManifest, id)
    BY <1>4, <2>2, <2>3 DEF StartDelete
  <2> QED
    BY <1>1, <2>1, <2>2, <2>3, <2>4, EnterAlone
<1>5. ASSUME NEW i \in Imeis, NEW m \in Manifests \cup {NoManifest}, StartAdd(r, i, m)
      PROVE  AInv'
  BY <1>1, <1>5, EnterAlone DEF StartAdd
<1>6. ASSUME NEW m \in Manifests, StartWipe(r, m)
      PROVE  AInv'
  BY <1>1, <1>6, EnterAlone DEF StartWipe
<1> QED
  BY <1>2, <1>3, <1>4, <1>5, <1>6 DEF Begin

\* The two reads that come before the insert.
LEMMA ReadsAlone ==
  ASSUME IInv, AInv, NEW r \in Requests, ConfirmLooksForDevice(r) \/ BulkReadsLine(r)
  PROVE  AInv'
<1>1. TypeOK /\ Step(r)
  BY DEF IInv, Step
<1>2. Busy(r) /\ req[r] \in Request /\ Knows(req[r]) /\ KnowsAlone(req[r])
  BY <1>1, StepIsBusy DEF IInv, AInv
<1>3. /\ UNCHANGED <<device, line, events, jobs, lastId, deaths>>
      /\ req[r].pc \in {"device", "line"}
  BY DEF ConfirmLooksForDevice, BulkReadsLine
<1>4. CASE Finish(r)
  BY <1>2, <1>3, <1>4, FinishAlone
<1>5. CASE Goto(r, "insert")
  <2>1. /\ Busy(r)' /\ Others(r)
        /\ req'[r].pc = "insert" /\ req'[r].op = req[r].op /\ req'[r].imei = req[r].imei
        /\ req'[r].line = req[r].line /\ req'[r].manifest = req[r].manifest
    BY <1>1, <1>2, <1>5, WentTo DEF Steps, Others
  <2>2. UndoneAlone'
    BY <1>2, <2>1, NobodyJoins
  <2>3. KnowsAlone(req[r])'
    BY <1>2, <2>1 DEF KnowsAlone
  <2> QED
    BY <1>3, <2>1, <2>2, <2>3, QuietAlone
<1> QED
  BY <1>4, <1>5 DEF ConfirmLooksForDevice, BulkReadsLine

\* The job of a label writes no row the invariant is about.
LEMMA QueueAlone ==
  ASSUME IInv, AInv, NEW r \in Requests, QueueJob(r)
  PROVE  AInv'
<1>1. TypeOK /\ Step(r)
  BY DEF IInv, Step
<1>2. Busy(r)
  BY <1>1, StepIsBusy
<1>3. Finish(r) /\ UNCHANGED <<device, line, events, deaths>> /\ req[r].pc = "queue"
  BY DEF QueueJob
<1> QED
  BY <1>2, <1>3, FinishAlone

\* A scanning worker that dies counts among the deaths.
LEMMA AbandonAlone ==
  ASSUME IInv, AInv, UndoneWithCare, NEW r \in Requests, Abandon(r)
  PROVE  AInv'
<1>1. Busy(r) /\ req[r].op \in Scanning
  BY DEF Abandon, UndoneWithCare
<1>2. req[r].pc # "wipe_manifest"
  BY <1>1 DEF IInv, Knows, Scanning
<1>3. deaths' # 0
  BY DEF Abandon, IInv, TypeOK
<1> QED
  BY <1>1, <1>2, <1>3, FinishAlone DEF Abandon

\* The event of a device whose receipt is under way.
LEMMA LogAlone ==
  ASSUME IInv, AInv, NEW r \in Requests, LogEvent(r)
  PROVE  AInv'
<1>1. TypeOK /\ IdsOk /\ Step(r)
  BY DEF IInv, Step
<1>2. Busy(r) /\ req[r] \in Request /\ Knows(req[r]) /\ KnowsAlone(req[r]) /\ req[r].pc = "log"
  BY <1>1, StepIsBusy DEF IInv, AInv, LogEvent
<1>3. UNCHANGED <<device, line, jobs, lastId, deaths>>
  BY DEF LogEvent
<1>4. CASE req[r].id \notin Ids
  <2>1. req[r].op \notin Scanning
    BY <1>2, <1>4 DEF KnowsAlone
  <2> QED
    BY <1>2, <1>3, <1>4, <2>1, FinishAlone DEF LogEvent, Inserted
<1>5. CASE req[r].id \in Ids
  <2>1. PICK id \in Nat : id = req[r].id
    BY <1>2 DEF Request
  <2>2. events' = events (+) SetToBag({id}) /\ Goto(r, "queue")
    BY <1>5, <2>1 DEF LogEvent
  <2>3. req[r].op \in Scanning /\ id \notin BagToSet(events)
    BY <1>2, <1>5, <2>1 DEF Knows, Past
  <2>4. /\ Busy(r)' /\ Others(r)
        /\ req'[r].pc = "queue" /\ req'[r].op = req[r].op /\ req'[r].imei = req[r].imei
        /\ req'[r].line = req[r].line /\ req'[r].manifest = req[r].manifest
    BY <1>1, <1>2, <2>2, WentTo DEF Steps, Others
  <2>5. BagToSet(events') = BagToSet(events) \cup {id}
    <3>1. PICK b : b = events
      OBVIOUS
    <3>2. IsABag(b) /\ id \notin BagToSet(b) /\ events' = b (+) SetToBag({id})
      BY <1>1, <2>2, <2>3, <3>1 DEF TypeOK
    <3>3. BagToSet(b (+) SetToBag({id})) = BagToSet(b) \cup {id}
      BY <3>2, OneMoreRow
    <3> QED
      BY <3>1, <3>2, <3>3
  <2>6. UndoneAlone'
    BY <1>2, <2>4, NobodyJoins
  <2>7. \A q \in Requests : q # r /\ Busy(q)' => KnowsAlone(req[q])'
    BY <1>3, <2>4 DEF AInv, Others, Busy, KnowsAlone, Ids, BookedOn
  <2>8. KnowsAlone(req[r])'
    BY <1>2, <1>3, <2>4 DEF KnowsAlone
  <2>9. \A m : HalfWiped(m) => HalfWiped(m)'
    BY <1>2, <2>4, StillToDo DEF HalfWiped
  <2>10. \A l \in Lines : LineOk(l)'
    BY <1>3, <2>9 DEF AInv, LineOk
  <2>11. \A x : /\ ToMark(x) => ToMark(x)'
                /\ ToLog(x) => ToLog(x)' \/ x = id
    BY <1>2, <2>1, <2>4, StillToDo DEF ToMark, ToLog
  <2>12. ASSUME NEW i \in Imeis
         PROVE  DeviceOk(i)'
    <3>1. DeviceOk(i) /\ BagToSet(events)' = BagToSet(events) \cup {id}
      BY <2>5 DEF AInv, BagToSet
    <3> QED
      BY <1>3, <2>11, <3>1 DEF DeviceOk
  <2> QED
    BY <2>6, <2>7, <2>8, <2>10, <2>12 DEF AInv
<1> QED
  BY <1>4, <1>5

\* A row is inserted with the line it is booked on still to be marked.
LEMMA InsertAlone ==
  ASSUME IInv, AInv, NEW r \in Requests, InsertDevice(r)
  PROVE  AInv'
<1>1. TypeOK /\ IdsOk /\ Step(r)
  BY DEF IInv, Step
<1>2. Busy(r) /\ req[r] \in Request /\ Knows(req[r]) /\ KnowsAlone(req[r]) /\ req[r].pc = "insert"
  BY <1>1, StepIsBusy DEF IInv, AInv, InsertDevice
<1>3. UNCHANGED <<line, events, jobs, deaths>>
  BY DEF InsertDevice
<1>4. CASE Finish(r) /\ UNCHANGED <<device, lastId>>
  BY <1>2, <1>3, <1>4, FinishAlone
<1>5. CASE InsertRow(r) /\ device[req[r].imei] = Absent /\ RefersToRows(r)
  <2>1. PICK i \in Imeis, k \in Lines \cup {NoLine}, m \in Manifests \cup {NoManifest} :
          i = req[r].imei /\ k = req[r].line /\ m = req[r].manifest
    BY <1>2 DEF Knows, Request
  <2>2. PICK n \in Nat : n = lastId
    BY <1>1 DEF TypeOK
  <2>3. n + 1 \in Nat
    BY <2>2
  <2>4. PICK d \in Row : /\ d.id = n + 1 /\ d.line = k /\ d.manifest = m
                         /\ device' = [device EXCEPT ![i] = d]
    <3> DEFINE d == [id |-> n + 1, line |-> k, manifest |-> m]
    <3>1. d \in Row
      BY <2>3 DEF Row
    <3>2. device' = [device EXCEPT ![i] = d] /\ d.id = n + 1 /\ d.line = k /\ d.manifest = m
      BY <1>5, <2>1, <2>2 DEF InsertRow
    <3> QED
      BY <3>1, <3>2
  <2>5. PICK x \in Request : /\ x.pc = AfterInsert(r) /\ x.id = n + 1 /\ x.op = req[r].op
                             /\ x.imei = i /\ x.line = k /\ x.manifest = m
                             /\ req' = [req EXCEPT ![r] = x]
    <3> DEFINE x == [req[r] EXCEPT !.pc = AfterInsert(r), !.id = n + 1]
    <3>1. /\ x \in Request /\ x.pc = AfterInsert(r) /\ x.id = n + 1 /\ x.op = req[r].op
          /\ x.imei = i /\ x.line = k /\ x.manifest = m
      BY <1>2, <2>1, <2>3 DEF Request, AfterInsert
    <3>2. req' = [req EXCEPT ![r] = x]
      BY <1>5, <2>2 DEF InsertRow
    <3> HIDE DEF x
    <3> QED
      BY <3>1, <3>2
  <2>6. x.pc = (IF k = NoLine THEN "log" ELSE "mark")
    BY <2>1, <2>5 DEF AfterInsert
  <2>7. Busy(r)' /\ req'[r] = x /\ Others(r)
    BY <1>1, <2>5, Rewritten DEF Others
  <2>8. /\ device'[i] = d
        /\ \A j \in Imeis : j # i => device'[j] = device[j]
        /\ device[i] = Absent /\ device[i].id = 0
    BY <1>1, <1>5, <2>1, <2>4, RowFacts DEF TypeOK
  <2>9. req[r].op \in Scanning
    BY <1>2 DEF Knows
  <2>10. /\ \A q \in Requests : Busy(q) => req[q].op \in Scanning
         /\ \A y : ~HalfWiped(y)
    BY <1>2, <2>9, ScanOrAlone
  <2>11. UndoneAlone'
    BY <1>2, <2>5, <2>7, NobodyJoins
  <2>12. Inserted(r)'
    BY <2>5, <2>6, <2>7, <2>9 DEF Inserted, Past
  <2>13. ToLog(n + 1)' /\ (k # NoLine => ToMark(n + 1)')
    BY <2>5, <2>6, <2>7, <2>12 DEF ToLog, ToMark
  <2>14. n + 1 \in Ids'
    BY <2>3, <2>4, <2>8 DEF Ids
  <2>15. \A j \in Imeis : device[j].id # 0 => j # i /\ device'[j] = device[j]
    BY <2>8
  <2>16. \A id \in Ids : id \in Ids'
    BY <2>15 DEF Ids
  <2>17. k # NoLine => i = ImeiOf[k] /\ m = ManifestOf[k] /\ line[k].status # "gone"
    BY <1>2, <1>5, <2>1, <2>9 DEF KnowsAlone, RefersToRows
  <2>18. KnowsAlone(req[r])'
    BY <1>3, <2>4, <2>5, <2>6, <2>7, <2>8, <2>9, <2>14, <2>17 DEF KnowsAlone
  <2>19. ASSUME NEW q \in Requests, q # r, Busy(q)'
         PROVE  KnowsAlone(req[q])'
    <3>1. Busy(q) /\ req'[q] = req[q] /\ req[q].op \in Scanning
      BY <2>7, <2>10, <2>19 DEF Others, Busy
    <3>2. Knows(req[q]) /\ KnowsAlone(req[q])
      BY <3>1 DEF IInv, AInv
    <3>3. req[q].pc \notin {"delete", "wipe_manifest"}
      BY <3>1, <3>2 DEF Knows, Scanning
    <3>4. req[q].pc = "mark" => device[req[q].imei].id # 0 /\ req[q].imei \in Imeis
      BY <1>1, <3>2 DEF Knows, KnowsAlone, Past, TypeOK
    <3> QED
      BY <1>3, <2>15, <2>16, <3>1, <3>2, <3>3, <3>4 DEF KnowsAlone
  <2>20. ASSUME NEW l \in Lines, line[l].status = "received"
         PROVE  /\ device'[ImeiOf[l]] # Absent
                /\ device'[ImeiOf[l]].id = line[l].device
                /\ device'[ImeiOf[l]].line = l
    <3>1. /\ device[ImeiOf[l]] # Absent
          /\ device[ImeiOf[l]].id = line[l].device
          /\ device[ImeiOf[l]].line = l
      BY <2>10, <2>20 DEF AInv, LineOk
    <3>2. ImeiOf[l] \in Imeis
      BY ReceivingAssumption
    <3> QED
      BY <2>8, <3>1, <3>2
  <2>21. \A l \in Lines : LineOk(l)'
    BY <1>3, <2>20 DEF LineOk
  <2>22. \A id : /\ ToMark(id) => ToMark(id)'
                 /\ ToLog(id) => ToLog(id)'
    BY <1>2, <2>7, StillToDo DEF ToMark, ToLog
  <2>23. BagToSet(events)' = BagToSet(events)
    BY <1>3 DEF BagToSet
  <2>24. ASSUME NEW j \in Imeis, j # i
         PROVE  DeviceOk(j)'
    <3>1. DeviceOk(j) /\ device'[j] = device[j]
      BY <2>8, <2>24 DEF AInv
    <3> QED
      BY <1>3, <2>22, <2>23, <3>1 DEF DeviceOk
  <2>25. DeviceOk(i)'
    BY <1>3, <2>4, <2>8, <2>13, <2>17 DEF DeviceOk
  <2> QED
    BY <2>11, <2>18, <2>19, <2>21, <2>24, <2>25 DEF AInv
<1> QED
  BY <1>4, <1>5 DEF InsertDevice

\* The line a request marks is there, and a line that was received already names the
\* same device.
LEMMA MarkKnows ==
  ASSUME IInv, AInv, NEW r \in Requests, MarkLine(r)
  PROVE  /\ Busy(r) /\ req[r] \in Request /\ Inserted(r)
         /\ req[r].line \in Lines /\ req[r].imei = ImeiOf[req[r].line] /\ req[r].imei \in Imeis
         /\ req[r].id # 0
         /\ device[req[r].imei].id = req[r].id /\ device[req[r].imei].line = req[r].line
         /\ \A i \in Imeis : device[i].id = req[r].id => i = req[r].imei
         /\ line' = [line EXCEPT ![req[r].line] = [status |-> "received", device |-> req[r].id]]
         /\ line[req[r].line].status = "received" => line' = line
<1>1. TypeOK /\ Step(r) /\ req[r].pc = "mark"
  BY DEF IInv, Step, MarkLine
<1>2. Busy(r) /\ req[r] \in Request /\ Knows(req[r]) /\ KnowsAlone(req[r])
  BY <1>1, StepIsBusy DEF IInv, AInv
<1>3. /\ req[r].op \in Scanning /\ req[r].line \in Lines /\ req[r].imei \in Imeis
      /\ req[r].id \in 1..lastId
      /\ \A i \in Imeis : device[i].id = req[r].id => i = req[r].imei
  BY <1>1, <1>2 DEF Knows, Past
<1>4. req[r].line # NoLine
  BY <1>3, ReceivingAssumption
<1>5. /\ req[r].imei = ImeiOf[req[r].line]
      /\ device[req[r].imei].id = req[r].id /\ device[req[r].imei].line = req[r].line
      /\ line[req[r].line].status # "gone"
  BY <1>1, <1>2, <1>3, <1>4 DEF KnowsAlone
<1>6. req[r].id # 0
  BY <1>1, <1>3 DEF TypeOK
<1>7. line' = [line EXCEPT ![req[r].line] = [status |-> "received", device |-> req[r].id]]
  BY <1>5 DEF MarkLine
<1>8. ASSUME line[req[r].line].status = "received"
      PROVE  line' = line
  <2>1. \A m : ~HalfWiped(m)
    BY <1>2, <1>3, ScanOrAlone
  <2>2. line[req[r].line].device = req[r].id
    BY <1>3, <1>5, <1>8, <2>1 DEF AInv, LineOk
  <2>3. line[req[r].line] = [status |-> "received", device |-> req[r].id]
    BY <1>1, <1>3, <1>8, <2>2 DEF TypeOK, LineRow
  <2> QED
    BY <1>1, <1>7, <2>3 DEF TypeOK
<1> QED
  BY <1>1, <1>2, <1>3, <1>5, <1>6, <1>7, <1>8 DEF Inserted, Past

\* The mark.
LEMMA MarkAlone ==
  ASSUME IInv, AInv, NEW r \in Requests, MarkLine(r)
  PROVE  AInv'
<1>1. TypeOK
  BY DEF IInv
<1>2. PICK k \in Lines, id \in Nat, i \in Imeis : k = req[r].line /\ id = req[r].id /\ i = req[r].imei
  BY MarkKnows DEF Request
<1>3. /\ Busy(r) /\ req[r] \in Request /\ Inserted(r)
      /\ i = ImeiOf[k] /\ id # 0
      /\ device[i].id = id /\ device[i].line = k
      /\ \A j \in Imeis : device[j].id = id => j = i
      /\ line' = [line EXCEPT ![k] = [status |-> "received", device |-> id]]
  BY <1>2, MarkKnows
<1>4. /\ line'[k] = [status |-> "received", device |-> id]
      /\ \A l \in Lines : l # k => line'[l] = line[l]
  BY <1>1, <1>3 DEF TypeOK
<1>5. /\ UNCHANGED <<device, events, jobs, lastId, deaths>>
      /\ req[r].pc = "mark" /\ Goto(r, "log")
  BY DEF MarkLine
<1>6. /\ Busy(r)' /\ Others(r)
      /\ req'[r].pc = "log" /\ req'[r].op = req[r].op /\ req'[r].imei = i
      /\ req'[r].line = k /\ req'[r].manifest = req[r].manifest
      /\ req'[r].id = id
  BY <1>1, <1>2, <1>3, <1>5, WentTo DEF Steps, Others
<1>7. UndoneAlone'
  BY <1>3, <1>6, NobodyJoins
<1>8. \A q \in Requests : Busy(q) => KnowsAlone(req[q])
  BY DEF AInv
<1>9. id \in Ids
  BY <1>3 DEF Ids
<1>10. Ids' = Ids
  BY <1>5 DEF Ids
<1>11. KnowsAlone(req[r])'
  BY <1>2, <1>3, <1>5, <1>6, <1>8, <1>9, <1>10 DEF KnowsAlone
<1>12. ASSUME NEW q \in Requests, q # r, Busy(q)'
       PROVE  KnowsAlone(req[q])'
  <2>1. Busy(q) /\ req'[q] = req[q] /\ KnowsAlone(req[q]) /\ Knows(req[q])
    BY <1>6, <1>8, <1>12 DEF Others, Busy, IInv
  <2>2. req[q].pc = "mark" => req[q].line \in Lines
    BY <2>1 DEF Knows
  <2>3. req[q].pc = "mark" => line'[req[q].line].status # "gone"
    BY <1>4, <2>1, <2>2 DEF KnowsAlone
  <2> QED
    BY <1>5, <1>10, <2>1, <2>3 DEF KnowsAlone, BookedOn
<1>13. \A m : HalfWiped(m) => HalfWiped(m)'
  BY <1>5, <1>6, StillToDo DEF HalfWiped
<1>14. ASSUME NEW l \in Lines
       PROVE  LineOk(l)'
  <2>1. CASE l = k
    <3>1. device[i] # Absent
      BY <1>3, RowFacts
    <3> QED
      BY <1>3, <1>4, <1>5, <2>1, <3>1 DEF LineOk
  <2>2. CASE l # k
    <3>1. LineOk(l) /\ line'[l] = line[l]
      BY <1>4, <2>2 DEF AInv
    <3> QED
      BY <1>5, <1>13, <3>1 DEF LineOk
  <2> QED
    BY <2>1, <2>2
<1>15. ToLog(id)'
  BY <1>3, <1>6 DEF ToLog, Inserted, Past
<1>16. \A x : /\ ToMark(x) => ToMark(x)' \/ x = id
              /\ ToLog(x) => ToLog(x)'
  BY <1>2, <1>6, <1>15, StillToDo DEF ToMark, ToLog
<1>17. BagToSet(events)' = BagToSet(events)
  BY <1>5 DEF BagToSet
<1>18. ASSUME NEW j \in Imeis
       PROVE  DeviceOk(j)'
  <2>1. DeviceOk(j)
    BY DEF AInv
  <2>2. CASE j = i
    BY <1>3, <1>4, <1>5, <1>15, <2>1, <2>2 DEF DeviceOk
  <2>3. CASE j # i
    <3>1. device[j].id # id
      BY <1>3, <2>3
    <3>2. device[j] # Absent /\ device[j].line # NoLine =>
            device[j].line # k /\ device[j].line \in Lines
      BY <1>1, <1>3, <2>1, <2>3 DEF DeviceOk, TypeOK, Row
    <3> QED
      BY <1>4, <1>5, <1>16, <1>17, <2>1, <3>1, <3>2 DEF DeviceOk
  <2> QED
    BY <2>2, <2>3
<1> QED
  BY <1>7, <1>11, <1>12, <1>14, <1>18 DEF AInv

\* While a request undoes a receipt every device is on the record, unless a worker died.
LEMMA OnRecord ==
  ASSUME IInv, AInv, NEW r \in Requests, Busy(r), req[r].op \in Undoing,
         NEW i \in Imeis, device[i] # Absent
  PROVE  /\ device[i].id \in BagToSet(events) \/ deaths # 0
         /\ device[i].line # NoLine =>
              /\ ImeiOf[device[i].line] = i
              /\ ManifestOf[device[i].line] = device[i].manifest
              /\ line[device[i].line].status # "gone"
              /\ line[device[i].line] = [status |-> "received", device |-> device[i].id] \/ deaths # 0
BY ScanOrAlone DEF AInv, DeviceOk

\* A line is opened again with the device that was booked on it gone.
LEMMA DeleteAlone ==
  ASSUME IInv, AInv, NEW r \in Requests, DeleteDevice(r)
  PROVE  AInv'
<1>1. TypeOK /\ IdsOk /\ Step(r)
  BY DEF IInv, Step
<1>2. Busy(r) /\ req[r] \in Request /\ Knows(req[r]) /\ KnowsAlone(req[r]) /\ req[r].pc = "delete"
  BY <1>1, StepIsBusy DEF IInv, AInv, DeleteDevice
<1>3. CASE Finish(r) /\ UNCHANGED <<device, line, jobs>>
  BY <1>2, <1>3, FinishAlone DEF DeleteDevice, Inserted, Past
<1>4. CASE ~(Finish(r) /\ UNCHANGED <<device, line, jobs>>)
  <2>1. PICK i \in Imeis, k \in Lines \cup {NoLine} : i = req[r].imei /\ k = req[r].line
    BY <1>2 DEF Knows, Request
  <2>2. /\ device[i] # Absent /\ device[i].id = req[r].id /\ device[i].line = k
        /\ req[r].op = "delete" /\ req[r].op \in Undoing
    BY <1>2, <2>1 DEF Knows, KnowsAlone, Undoing
  <2>3. /\ line' = IF k = NoLine \/ line[k].status = "gone" THEN line
                                                           ELSE [line EXCEPT ![k] = Pending]
        /\ DeleteRows({i})
        /\ Goto(r, "log")
        /\ UNCHANGED <<events, lastId, deaths>>
    BY <1>4, <2>1, <2>2 DEF DeleteDevice
  <2>4. /\ device'[i] = Absent
        /\ \A j \in Imeis : j # i => device'[j] = device[j]
    BY <2>3 DEF DeleteRows
  <2>5. k # NoLine => ImeiOf[k] = i /\ line[k].status # "gone"
    BY <1>2, <2>2, OnRecord
  <2>6. \A l \in Lines : line'[l] = IF l = k THEN Pending ELSE line[l]
    BY <1>1, <2>3, <2>5, ReceivingAssumption DEF TypeOK
  <2>7. /\ Busy(r)' /\ Others(r) /\ req'[r].pc = "log" /\ req'[r].op = "delete"
    BY <1>1, <1>2, <2>2, <2>3, WentTo DEF Steps, Others
  <2>8. UndoneAlone'
    BY <1>2, <2>2, <2>7, NobodyJoins
  <2>9. \A q \in Requests : Busy(q) => q = r
    BY <1>2, <2>2, ScanOrAlone
  <2>10. \A q \in Requests : Busy(q)' => q = r
    BY <2>7, <2>9 DEF Others, Busy
  <2>11. KnowsAlone(req[r])'
    BY <2>7 DEF KnowsAlone, Scanning
  <2>12. \A m : ~HalfWiped(m)
    BY <1>2, <2>9 DEF HalfWiped
  <2>13. ASSUME NEW l \in Lines
         PROVE  LineOk(l)'
    <3>1. CASE l = k
      BY <2>6, <3>1 DEF LineOk, Pending
    <3>2. CASE l # k
      <4>1. line'[l] = line[l] /\ LineOk(l)
        BY <2>6, <3>2 DEF AInv
      <4>2. line[l].status = "received" => ImeiOf[l] # i /\ ImeiOf[l] \in Imeis
        BY <2>2, <2>12, <3>2, <4>1, ReceivingAssumption DEF LineOk
      <4> QED
        BY <2>4, <2>12, <4>1, <4>2 DEF LineOk
    <3> QED
      BY <3>1, <3>2
  <2>14. ASSUME NEW j \in Imeis, device'[j] # Absent
         PROVE  DeviceOk(j)'
    <3>1. j # i /\ device'[j] = device[j] /\ device[j] # Absent
      BY <2>4, <2>14
    <3>2. /\ device[j].id \in BagToSet(events) \/ deaths # 0
          /\ device[j].line # NoLine =>
               /\ ImeiOf[device[j].line] = j
               /\ ManifestOf[device[j].line] = device[j].manifest
               /\ line[device[j].line].status # "gone"
               /\ line[device[j].line] = [status |-> "received", device |-> device[j].id] \/ deaths # 0
      BY <1>2, <2>2, <3>1, OnRecord
    <3>3. device[j].line # NoLine => device[j].line # k /\ device[j].line \in Lines
      BY <1>1, <2>5, <3>1, <3>2 DEF TypeOK, Row
    <3>4. BagToSet(events)' = BagToSet(events)
      BY <2>3 DEF BagToSet
    <3> QED
      BY <2>3, <2>6, <3>1, <3>2, <3>3, <3>4 DEF DeviceOk
  <2>15. \A j \in Imeis : device'[j] = Absent => DeviceOk(j)'
    BY DEF DeviceOk
  <2> QED
    BY <2>8, <2>10, <2>11, <2>13, <2>14, <2>15 DEF AInv
<1> QED
  BY <1>3, <1>4

\* The devices booked on a manifest go before its lines do.
LEMMA WipeDevicesAlone ==
  ASSUME IInv, AInv, NEW r \in Requests, WipeDevices(r)
  PROVE  AInv'
<1>1. TypeOK /\ IdsOk /\ Step(r)
  BY DEF IInv, Step
<1>2. Busy(r) /\ req[r] \in Request /\ Knows(req[r]) /\ req[r].pc = "wipe_devices"
  BY <1>1, StepIsBusy DEF IInv, WipeDevices
<1>3. CASE Finish(r) /\ UNCHANGED <<device, jobs>>
  BY <1>2, <1>3, FinishAlone DEF WipeDevices, Inserted, Past
<1>4. CASE ~(Finish(r) /\ UNCHANGED <<device, jobs>>)
  <2>1. PICK m \in Manifests : m = req[r].manifest
    BY <1>2 DEF Knows
  <2>2. PICK S \in SUBSET Imeis : S = BookedOn(m)
    BY DEF BookedOn
  <2>3. DeleteRows(S) /\ Goto(r, "wipe_manifest") /\ UNCHANGED <<line, events, lastId, deaths>>
    BY <1>4, <2>1, <2>2 DEF WipeDevices
  <2>4. req[r].op = "wipe" /\ req[r].op \in Undoing
    BY <1>2 DEF Knows, Undoing
  <2>5. \A j \in Imeis : device'[j] = IF j \in S THEN Absent ELSE device[j]
    BY <2>3 DEF DeleteRows
  <2>6. /\ Busy(r)' /\ Others(r) /\ req'[r].pc = "wipe_manifest" /\ req'[r].op = "wipe"
        /\ req'[r].manifest = m
    BY <1>1, <1>2, <2>1, <2>3, <2>4, WentTo DEF Steps, Others
  <2>7. UndoneAlone'
    BY <1>2, <2>4, <2>6, NobodyJoins
  <2>8. \A q \in Requests : Busy(q) => q = r
    BY <1>2, <2>4, ScanOrAlone
  <2>9. \A q \in Requests : Busy(q)' => q = r
    BY <2>6, <2>8 DEF Others, Busy
  <2>10. BookedOn(m)' = {}
    BY <2>2, <2>5 DEF BookedOn
  <2>11. KnowsAlone(req[r])'
    BY <2>6, <2>10 DEF KnowsAlone, Scanning
  <2>12. \A n : ~HalfWiped(n)
    BY <1>2, <2>8 DEF HalfWiped
  <2>13. HalfWiped(m)'
    BY <2>6 DEF HalfWiped
  <2>14. ASSUME NEW l \in Lines
         PROVE  LineOk(l)'
    <3>1. CASE ManifestOf[l] = m
      BY <2>13, <3>1 DEF LineOk
    <3>2. CASE ManifestOf[l] # m
      <4>1. LineOk(l) /\ ImeiOf[l] \in Imeis /\ l # NoLine
        BY ReceivingAssumption DEF AInv
      <4>2. line[l].status = "received" =>
              /\ device[ImeiOf[l]] # Absent
              /\ device[ImeiOf[l]].id = line[l].device
              /\ device[ImeiOf[l]].line = l
        BY <2>12, <4>1 DEF LineOk
      <4>3. line[l].status = "received" => ManifestOf[l] = device[ImeiOf[l]].manifest
        BY <1>2, <2>4, <4>1, <4>2, OnRecord
      <4>4. line[l].status = "received" => ImeiOf[l] \notin S
        BY <2>2, <3>2, <4>3 DEF BookedOn
      <4> QED
        BY <2>3, <2>5, <4>1, <4>2, <4>4 DEF LineOk
    <3> QED
      BY <3>1, <3>2
  <2>15. ASSUME NEW j \in Imeis, device'[j] # Absent
         PROVE  DeviceOk(j)'
    <3>1. device'[j] = device[j] /\ device[j] # Absent
      BY <2>5, <2>15
    <3>2. /\ device[j].id \in BagToSet(events) \/ deaths # 0
          /\ device[j].line # NoLine =>
               /\ ImeiOf[device[j].line] = j
               /\ ManifestOf[device[j].line] = device[j].manifest
               /\ line[device[j].line].status # "gone"
               /\ line[device[j].line] = [status |-> "received", device |-> device[j].id] \/ deaths # 0
      BY <1>2, <2>4, <3>1, OnRecord
    <3>3. BagToSet(events)' = BagToSet(events)
      BY <2>3 DEF BagToSet
    <3> QED
      BY <2>3, <3>1, <3>2, <3>3 DEF DeviceOk
  <2>16. \A j \in Imeis : device'[j] = Absent => DeviceOk(j)'
    BY DEF DeviceOk
  <2> QED
    BY <2>7, <2>9, <2>11, <2>14, <2>15, <2>16 DEF AInv
<1> QED
  BY <1>3, <1>4

\* The lines go when no device is booked on their manifest.
LEMMA WipeManifestAlone ==
  ASSUME IInv, AInv, NEW r \in Requests, WipeManifest(r)
  PROVE  AInv'
<1>1. TypeOK /\ IdsOk /\ Step(r)
  BY DEF IInv, Step
<1>2. Busy(r) /\ Knows(req[r]) /\ KnowsAlone(req[r]) /\ req[r].pc = "wipe_manifest"
  BY <1>1, StepIsBusy DEF IInv, AInv, WipeManifest
<1>3. PICK m \in Manifests : m = req[r].manifest
  BY <1>2 DEF Knows
<1>4. BookedOn(m) = {} /\ req[r].op = "wipe" /\ req[r].op \in Undoing
  BY <1>2, <1>3 DEF Knows, KnowsAlone, Undoing
<1>5. /\ \A l \in Lines : line'[l] = IF ManifestOf[l] = m THEN Gone ELSE line[l]
      /\ Finish(r)
      /\ UNCHANGED <<events, jobs, lastId, deaths>>
  BY <1>3 DEF WipeManifest
<1>6. \A i \in Imeis : device'[i] = device[i]
  BY <1>3, <1>4 DEF WipeManifest
<1>7. ~Busy(r)' /\ Others(r)
  BY <1>1, <1>5, Finished DEF Others
<1>8. UndoneAlone'
  BY <1>2, <1>7, NobodyJoins
<1>9. \A q \in Requests : Busy(q) => q = r
  BY <1>2, <1>4, ScanOrAlone
<1>10. \A q \in Requests : ~Busy(q)'
  BY <1>7, <1>9 DEF Others, Busy
<1>11. \A n : HalfWiped(n) => n = m
  BY <1>3, <1>9 DEF HalfWiped
<1>12. ASSUME NEW l \in Lines
       PROVE  LineOk(l)'
  <2>1. CASE ManifestOf[l] = m
    BY <1>5, <2>1 DEF LineOk, Gone
  <2>2. CASE ManifestOf[l] # m
    <3>1. LineOk(l) /\ ~HalfWiped(ManifestOf[l]) /\ line'[l] = line[l] /\ ImeiOf[l] \in Imeis
      BY <1>5, <1>11, <2>2, ReceivingAssumption DEF AInv
    <3> QED
      BY <1>6, <3>1 DEF LineOk
  <2> QED
    BY <2>1, <2>2
<1>13. ASSUME NEW j \in Imeis, device'[j] # Absent
       PROVE  DeviceOk(j)'
  <2>1. device'[j] = device[j] /\ device[j] # Absent
    BY <1>6, <1>13
  <2>2. /\ device[j].id \in BagToSet(events) \/ deaths # 0
        /\ device[j].line # NoLine =>
             /\ ImeiOf[device[j].line] = j
             /\ ManifestOf[device[j].line] = device[j].manifest
             /\ line[device[j].line].status # "gone"
             /\ line[device[j].line] = [status |-> "received", device |-> device[j].id] \/ deaths # 0
    BY <1>2, <1>4, <2>1, OnRecord
  <2>3. device[j].line # NoLine => device[j].line \in Lines /\ line'[device[j].line] = line[device[j].line]
    <3>1. device[j].manifest # m
      BY <1>4, <2>1 DEF BookedOn
    <3>2. device[j].line # NoLine => device[j].line \in Lines
      BY <1>1, <2>1 DEF TypeOK, Row
    <3> QED
      BY <1>5, <2>2, <3>1, <3>2
  <2>4. BagToSet(events)' = BagToSet(events)
    BY <1>5 DEF BagToSet
  <2> QED
    BY <1>5, <2>1, <2>2, <2>3, <2>4 DEF DeviceOk
<1>14. \A j \in Imeis : device'[j] = Absent => DeviceOk(j)'
  BY DEF DeviceOk
<1> QED
  BY <1>8, <1>10, <1>12, <1>13, <1>14 DEF AInv

\* The invariant holds where the system starts.
LEMMA InitAlone == Init => AInv
<1> SUFFICES ASSUME Init
             PROVE  AInv
  OBVIOUS
<1>1. \A r \in Requests : ~Busy(r)
  BY DEF Init, Busy
<1>2. \A l \in Lines : LineOk(l)
  BY DEF Init, LineOk, Pending
<1>3. \A i \in Imeis : DeviceOk(i)
  BY DEF Init, DeviceOk
<1> QED
  BY <1>1, <1>2, <1>3 DEF AInv, UndoneAlone

\* Every step keeps it.
LEMMA NextAlone == UndoneWithCare => (IInv /\ AInv /\ [Next]_vars => AInv')
<1> SUFFICES ASSUME UndoneWithCare, IInv, AInv, [Next]_vars
             PROVE  AInv'
  OBVIOUS
<1>1. ASSUME NEW r \in Requests, Begin(r)
      PROVE  AInv'
  BY <1>1, BeginAlone
<1>2. ASSUME NEW r \in Requests, Step(r)
      PROVE  AInv'
  BY <1>2, ReadsAlone, InsertAlone, MarkAlone, LogAlone, QueueAlone, DeleteAlone,
     WipeDevicesAlone, WipeManifestAlone DEF Step
<1>3. ASSUME NEW r \in Requests, Abandon(r)
      PROVE  AInv'
  BY <1>3, AbandonAlone
<1>4. CASE UNCHANGED vars
  <2>1. UndoneAlone'
    BY <1>4 DEF vars, AInv, UndoneAlone, Busy
  <2>2. \A r \in Requests : Busy(r)' => KnowsAlone(req[r])'
    BY <1>4 DEF vars, AInv, Busy, KnowsAlone, Ids, BookedOn
  <2>3. \A l \in Lines : LineOk(l)'
    BY <1>4 DEF vars, AInv, LineOk, HalfWiped, Busy
  <2>4. \A i \in Imeis : DeviceOk(i)'
    BY <1>4 DEF vars, AInv, DeviceOk, ToMark, ToLog, Inserted, Busy, BagToSet
  <2> QED
    BY <2>1, <2>2, <2>3, <2>4 DEF AInv
<1> QED
  BY <1>1, <1>2, <1>3, <1>4 DEF Next

\* What LinesAndDevicesAgree says of a state.
LEMMA Agreed == IInv /\ AInv => LinesAndDevicesAgree
<1> SUFFICES ASSUME IInv, AInv
             PROVE  LinesAndDevicesAgree
  OBVIOUS
<1>1. ASSUME \A r \in Requests : Busy(r) => req[r].op \notin {"delete", "wipe"},
             NEW l \in Lines, line[l].status = "received"
      PROVE  device[ImeiOf[l]].id = line[l].device /\ device[ImeiOf[l]].line = l
  <2>1. ~HalfWiped(ManifestOf[l])
    BY <1>1 DEF HalfWiped, IInv, Knows
  <2> QED
    BY <1>1, <2>1 DEF AInv, LineOk
<1>2. ASSUME AtRest, deaths = 0, NEW i \in Imeis, device[i] # Absent
      PROVE  /\ BagIn(device[i].id, events)
             /\ device[i].line # NoLine => line[device[i].line].device = device[i].id
  <2>1. \A id : ~ToMark(id) /\ ~ToLog(id)
    BY <1>2 DEF AtRest, ToMark, ToLog, Inserted
  <2>2. DeviceOk(i)
    BY DEF AInv
  <2>3. device[i].id \in BagToSet(events)
    BY <1>2, <2>1, <2>2 DEF DeviceOk
  <2>4. BagIn(device[i].id, events)
    BY <2>3 DEF BagIn
  <2>5. device[i].line # NoLine => line[device[i].line] = [status |-> "received", device |-> device[i].id]
    BY <1>2, <2>1, <2>2 DEF DeviceOk
  <2> QED
    BY <2>4, <2>5
<1> QED
  BY <1>1, <1>2 DEF LinesAndDevicesAgree

\* However scans race and die, a received line names the device booked on it, and every
\* device is on its line and in device_events once all is quiet (routes/scan.ts).
THEOREM LinesAndDevices ==
  ASSUME UndoneWithCare
  PROVE  Spec => []LinesAndDevicesAgree
<1>1. Init => IInv /\ AInv
  BY InitOk, InitAlone
<1>2. IInv /\ AInv /\ [Next]_vars => (IInv /\ AInv)'
  BY NextOk, NextAlone
<1> QED
  BY <1>1, <1>2, Agreed, PTL DEF Spec

\* Only a step that undoes a receipt changes a received line: a mark writes what it says.
LEMMA LineStands ==
  ASSUME IInv, AInv, [Next]_vars
  PROVE  \A l \in Lines : line[l].status = "received" /\ line'[l] # line[l] =>
           \E r \in Requests : req[r].pc \in {"delete", "wipe_manifest"} /\ req'[r] # req[r]
<1> SUFFICES ASSUME NEW l \in Lines, line[l].status = "received", line'[l] # line[l]
             PROVE  \E r \in Requests : req[r].pc \in {"delete", "wipe_manifest"} /\ req'[r] # req[r]
  OBVIOUS
<1>1. TypeOK
  BY DEF IInv
<1>2. PICK r \in Requests : Begin(r) \/ Step(r) \/ Abandon(r)
  BY DEF Next, vars
<1>3. ~Begin(r) /\ ~Abandon(r)
  BY DEF Begin, StartConfirm, StartBulkRow, StartDelete, StartAdd, StartWipe, Enter, Abandon
<1>4. CASE MarkLine(r)
  <2>1. /\ line' = [line EXCEPT ![req[r].line] = [status |-> "received", device |-> req[r].id]]
        /\ line[req[r].line].status = "received" => line' = line
    BY <1>4, MarkKnows
  <2> QED
    BY <1>1, <2>1 DEF TypeOK
<1>5. CASE DeleteDevice(r) \/ WipeManifest(r)
  <2>1. req[r].pc \in {"delete", "wipe_manifest"} /\ Step(r) /\ (Finish(r) \/ Goto(r, "log"))
    BY <1>5 DEF DeleteDevice, WipeManifest, Step
  <2>2. req[r] \in Request /\ Busy(r)
    BY <1>1, <2>1, StepIsBusy
  <2>3. req'[r] # req[r]
    <3>1. CASE Finish(r)
      BY <1>1, <2>2, <3>1, Finished DEF Busy
    <3>2. CASE Goto(r, "log")
      <4>1. req'[r].pc = "log"
        BY <1>1, <2>2, <3>2, WentTo DEF Steps
      <4> QED
        BY <2>1, <4>1
    <3> QED
      BY <2>1, <3>1, <3>2
  <2> QED
    BY <2>1, <2>3
<1> QED
  BY <1>2, <1>3, <1>4, <1>5 DEF Step, ConfirmLooksForDevice, BulkReadsLine, InsertDevice, LogEvent,
     QueueJob, WipeDevices

\* A received line stays received by the same device until the device or the manifest is
\* deleted (routes/scan.ts): a second scan of the imei never marks it again.
THEOREM ReceivedLinesStand ==
  ASSUME UndoneWithCare
  PROVE  Spec => ReceivedLineStands
<1>1. Init => IInv /\ AInv
  BY InitOk, InitAlone
<1>2. IInv /\ AInv /\ [Next]_vars => (IInv /\ AInv)'
  BY NextOk, NextAlone
<1>3. IInv /\ AInv /\ [Next]_vars =>
        [\A l \in Lines : line[l].status = "received" /\ line'[l] # line[l] =>
           \E r \in Requests : req[r].pc \in {"delete", "wipe_manifest"} /\ req'[r] # req[r]]_vars
  BY LineStands
<1> QED
  BY <1>1, <1>2, <1>3, PTL DEF Spec, ReceivedLineStands
=============================================================================
