-------------------------------- MODULE Comms --------------------------------
(***************************************************************************)
(* The mail about a consignment and the chase for an answer                *)
(* (routes/opr.ts, lib/email.ts, lib/oprComms.ts): pre-alerts and          *)
(* clearance instructions sent through Gmail or by hand, other             *)
(* correspondence and replies entered by a manager, the flag that no       *)
(* answer came, and the checklist of a return.                             *)
(*                                                                         *)
(* Timestamps are strings that are compared as strings, and have three     *)
(* forms: a date alone, the "date time" of CURRENT_TIMESTAMP and the       *)
(* "dateTtime" of a caller.  Day 0 is a Monday.  The time of day is left   *)
(* out: of two stamps of one day and form neither is the later, and the    *)
(* properties claim nothing of a reply on the day of the send.             *)
(***************************************************************************)
EXTENDS Integers, Sequences, FiniteSets, FiniteSetsExt

CONSTANTS
  Shipments,
  Direction,    \* [Shipments -> {"export", "import"}]
  Requests,
  MaxDay,       \* bound: the last day of the calendar
  MaxRows,      \* bound: rows of sent_emails
  MaxReplies,   \* bound: rows of shipment_replies
  Nothing

VARIABLES
  now,          \* today
  lines,        \* shipments that have lines
  emails,       \* sent_emails, oldest first
  replies,      \* shipment_replies
  checklist,    \* the fields of a return's checklist that are filled in
  accepted,     \* requests whose mail Gmail took (external)
  req

vars == <<now, lines, emails, replies, checklist, accepted, req>>

\* Stamps in the order of their strings.
Forms == <<"date", "sql", "iso">>
Stamp(form, day)  == [day |-> day, form |-> form]
CURRENT_TIMESTAMP == Stamp(2, now)
toISOString       == Stamp(3, now)

Later(a, b) == a.day > b.day \/ (a.day = b.day /\ a.form > b.form)

Rest    == [pc |-> "rest"]
Busy(r) == req[r] # Rest
Fields  == {"import_mrn", "customs_entry_ref", "vat_evidence_ref", "repair_cost_confirmed_at"}

Init ==
  /\ now = 0
  /\ lines = {}
  /\ emails = << >>
  /\ replies = {}
  /\ checklist = [s \in Shipments |-> {}]
  /\ accepted = {}
  /\ req = [r \in Requests |-> Rest]

-----------------------------------------------------------------------------
(* What others do meanwhile: time passes, lines are scanned in and out.    *)

Tick ==
  /\ now < MaxDay
  /\ now' = now + 1
  /\ UNCHANGED <<lines, emails, replies, checklist, accepted, req>>

SetLines(s) ==
  /\ lines' = IF s \in lines THEN lines \ {s} ELSE lines \cup {s}
  /\ UNCHANGED <<now, emails, replies, checklist, accepted, req>>

-----------------------------------------------------------------------------
(* Sending.                                                                *)

KindOf(s) == IF Direction[s] = "export" THEN "prealert" ELSE "clearance"

recordEmail(s, kind, status, provider, by) ==
  /\ Len(emails) < MaxRows
  /\ emails' = Append(emails, [ship |-> s, kind |-> kind, status |-> status, provider |-> provider,
                               at |-> CURRENT_TIMESTAMP, by |-> by])

\* With the secrets set and a recipient: the mailbox of the authorisation, or the one
\* that the caller names.  A request without is refused, and writes nothing.
StartSend(r, s) ==
  /\ ~Busy(r) /\ r \notin accepted /\ (\A i \in DOMAIN emails : emails[i].by # r)
  /\ s \in lines
  /\ req' = [req EXCEPT ![r] = [pc |-> "gmail", ship |-> s]]
  /\ UNCHANGED <<now, lines, emails, replies, checklist, accepted>>

\* Mutant: a call that throws is caught, and counts as failed.
Outcomes_LostIsFailed(answer) == IF answer = "taken" THEN {"sent"} ELSE {"failed"}

\* The row's status by what Gmail answered.
Outcomes(answer) == IF answer = "taken" THEN {"sent"} ELSE IF answer = "refused" THEN {"failed"} ELSE {}

\* The token is exchanged and the mail posted.  A call that throws ends the request;
\* the mail may have been taken by then.
sendGmail(r) ==
  /\ Busy(r) /\ req[r].pc = "gmail"
  /\ \E answer \in {"taken", "refused", "lost"}, taken \in BOOLEAN :
       /\ (answer = "taken" => taken) /\ (answer = "refused" => ~taken)
       /\ accepted' = IF taken THEN accepted \cup {r} ELSE accepted
       /\ req' = [req EXCEPT ![r] =
            IF Outcomes(answer) = {} THEN Rest
            ELSE [pc |-> "record", ship |-> @.ship, status |-> CHOOSE o \in Outcomes(answer) : TRUE]]
  /\ UNCHANGED <<now, lines, emails, replies, checklist>>

RecordOutcome(r) ==
  /\ Busy(r) /\ req[r].pc = "record"
  /\ recordEmail(req[r].ship, KindOf(req[r].ship), req[r].status, "gmail", r)
  /\ req' = [req EXCEPT ![r] = Rest]
  /\ UNCHANGED <<now, lines, replies, checklist, accepted>>

\* A worker dies between Gmail's answer and the row, or before.
Abandon(r) ==
  /\ Busy(r)
  /\ req' = [req EXCEPT ![r] = Rest]
  /\ UNCHANGED <<now, lines, emails, replies, checklist, accepted>>

markSent(s) ==
  /\ s \in lines
  /\ recordEmail(s, KindOf(s), "manual", "manual", Nothing)
  /\ UNCHANGED <<now, lines, replies, checklist, accepted, req>>

\* The status is what the manager says it was.
correspondence(s, status) ==
  /\ recordEmail(s, "correspondence", status, IF status = "manual" THEN "manual" ELSE "gmail", Nothing)
  /\ UNCHANGED <<now, lines, replies, checklist, accepted, req>>

-----------------------------------------------------------------------------
(* Replies and the chase.                                                  *)

\* A caller's stamp may be of any form, and not after the ISO string of this moment:
\* in the SQL form the rest of today is not.
logReply(s, at) ==
  /\ at = CURRENT_TIMESTAMP \/ ~Later(at, toISOString)
  /\ Cardinality(replies) < MaxReplies
  /\ replies' = replies \cup {[ship |-> s, at |-> at]}
  /\ UNCHANGED <<now, lines, emails, checklist, accepted, req>>

isWorkingDay(day) == day % 7 < 5

\* Mutant: the day of the send counts.
workingDaysBetween_FromSend(from, to) == Cardinality({ day \in from..to : isWorkingDay(day) })

\* The day it begins with is not counted, the day it ends with is.
workingDaysBetween(from, to) == Cardinality({ day \in (from + 1)..to : isWorkingDay(day) })

FOLLOW_UP_THRESHOLD_WORKING_DAYS == 3

Sends(s) == { emails[i].at : i \in { j \in DOMAIN emails : emails[j].ship = s } }
LastSend(s) == CHOOSE a \in Sends(s) : \A b \in Sends(s) : ~Later(b, a)
ReplySince(s) == \E reply \in replies : reply.ship = s /\ Later(reply.at, LastSend(s))

\* computeFollowUpStatus().flagged: a send that failed is chased too.
Flagged(s) ==
  /\ Sends(s) # {}
  /\ ~ReplySince(s)
  /\ workingDaysBetween(LastSend(s).day, now) >= FOLLOW_UP_THRESHOLD_WORKING_DAYS

-----------------------------------------------------------------------------
(* The checklist of a return.  The import MRN is import-proof's.           *)

postChecklist(s, filled, cleared) ==
  /\ Direction[s] = "import"
  /\ filled \cup cleared # {} /\ filled \cap cleared = {}
  /\ "import_mrn" \notin filled \cup cleared
  /\ checklist' = [checklist EXCEPT ![s] = (@ \cup filled) \ cleared]
  /\ UNCHANGED <<now, lines, emails, replies, accepted, req>>

importProof(s) ==
  /\ Direction[s] = "import" /\ "import_mrn" \notin checklist[s]
  /\ checklist' = [checklist EXCEPT ![s] = @ \cup {"import_mrn"}]
  /\ UNCHANGED <<now, lines, emails, replies, accepted, req>>

\* computeOutstandingChecklist()
Outstanding(s) == Fields \ checklist[s]
Complete(s)    == Outstanding(s) = {}

-----------------------------------------------------------------------------

Mail(s) ==
  \/ SetLines(s)
  \/ \E r \in Requests : StartSend(r, s)
  \/ markSent(s)
  \/ \E status \in {"sent", "failed", "manual"} : correspondence(s, status)
  \/ \E form \in DOMAIN Forms, day \in 0..now : logReply(s, Stamp(form, day))

Sending(r) == sendGmail(r) \/ RecordOutcome(r) \/ Abandon(r)

MailNext == Tick \/ (\E s \in Shipments : Mail(s)) \/ (\E r \in Requests : Sending(r))

ChecklistNext ==
  \E s \in Shipments :
    \/ \E filled, cleared \in SUBSET (Fields \ {"import_mrn"}) : postChecklist(s, filled, cleared)
    \/ importProof(s)

Next == MailNext \/ ChecklistNext

Spec == Init /\ [][Next]_vars

-----------------------------------------------------------------------------

TypeOK ==
  /\ now \in 0..MaxDay
  /\ \A i \in DOMAIN emails :
       /\ emails[i].kind \in {"correspondence", KindOf(emails[i].ship)}
       /\ emails[i].status \in {"sent", "failed", "manual"}
  /\ \A reply \in replies : reply.at.day <= now
  /\ \A s \in Shipments : Outstanding(s) \in SUBSET Fields /\ (Direction[s] = "export" => ~Complete(s))

\* The rows that the system wrote of its own sends are true, though calls to Gmail
\* throw, workers die and requests overlap: a pre-alert or a clearance instruction
\* that is on record as sent was taken by Gmail, and one on record as failed never
\* was.  (A mail that was taken may have no row.)
LogIsHonest ==
  \A i \in DOMAIN emails :
    emails[i].by # Nothing => emails[i].status = (IF emails[i].by \in accepted THEN "sent" ELSE "failed")

\* Whatever the order of sends and replies, weekends included: a send that nothing
\* was entered about for five days is flagged, and none is flagged before the third
\* day, nor once a reply of a later day is entered.
ChasedWhenDue ==
  \A s \in Shipments :
    LET RepliesFrom(day) == { reply \in replies : reply.ship = s /\ reply.at.day >= day }
        last == Max({ at.day : at \in Sends(s) })
    IN  Sends(s) # {} =>
          /\ now - last >= 5 /\ RepliesFrom(last) = {} => Flagged(s)
          /\ Flagged(s) => now - last >= 3 /\ RepliesFrom(last + 1) = {}
=============================================================================
