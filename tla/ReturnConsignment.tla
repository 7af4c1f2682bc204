-------------------------- MODULE ReturnConsignment --------------------------
(***************************************************************************)
(* The returns that discharge one finalised OPR export (routes/opr.ts):    *)
(* the lines of each import shipment, the declared units and the balance   *)
(* against the export, the corrections found on re-scan, receipt           *)
(* (finaliseImportShipment) and restocking.                                *)
(*                                                                         *)
(* One request is served at a time; what it shares with other requests is  *)
(* ExportConsignment's subject.  What is hard here is a worker that dies   *)
(* between the statements of receipt or of restocking:                     *)
(*                                                                         *)
(*   finalise  flip -> declare? -> receive*      restock  (move -> apply?)* *)
(*                                                                         *)
(* A route that reads and then writes one row is one action.               *)
(***************************************************************************)
EXTENDS DeviceStatus, Integers, FiniteSets

CONSTANTS
  Devices,      \* the devices on the export
  Returns,      \* the import shipments related to it
  UnitChoices,  \* what supplementary_units may be set to
  NoUnits,      \* its NULL
  MaxCorrected, \* bound on the lines that get a correction
  MaxDeaths     \* how many workers may die between two statements

ASSUME ReturnAssumption ==
  /\ IsFiniteSet(Devices)
  /\ IsFiniteSet(Returns)
  /\ UnitChoices \subseteq Nat
  /\ NoUnits \notin Nat
  /\ MaxCorrected \in Nat
  /\ MaxDeaths \in Nat

VARIABLES
  status,       \* received_devices.status
  shipment,     \* shipments.status of each return
  lines,        \* shipment_lines of the returns, as <<return, device>>
  units,        \* shipments.supplementary_units
  corr,         \* the latest return_line_corrections row of each line
  outstanding,  \* outstanding_count of the partial_return_declarations row
  identity,     \* what imei, brand, model, capacity and color of the device say
  regraded,     \* devices whose grade and SKU a restock rewrote
  reported,     \* devices a restock named in correction_apply_errors
  req,          \* the local variables of the request being served
  deaths        \* workers that have died

vars == <<status, shipment, lines, units, corr, outstanding, identity, regraded, reported,
          req, deaths>>

written == <<identity, regraded, reported>>

\* What a correction changes: the IMEI (and perhaps more), the grade (and perhaps
\* more, but no IMEI), or only other fields.
Changes    == {"imei", "grade", "spec"}
Correction == [change : Changes \cup {"none"}, reviewed : BOOLEAN]
Uncorrected == [change |-> "none", reviewed |-> FALSE]

Request == [ pc   : {"declare", "receive", "restock", "apply"},
             ship : Returns,
             hand : SUBSET Devices,     \* the device moved, at "apply"
             left : SUBSET Devices,     \* what the loop has left
             back : Nat ]               \* returned_cumulative_including_this_return

Rest == [pc |-> "idle"]

Idle == req = Rest

On(s) == { d \in Devices : <<s, d>> \in lines }

Exported == Cardinality(Devices)

\* A leg counts its declared units, or else its lines.
Counted(s) == IF units[s] = NoUnits THEN Cardinality(On(s)) ELSE units[s]

Finalised == { s \in Returns : shipment[s] = "FINALISED" }

\* The units of a leg, one by one, and how many those of some legs are together.
Pieces(s)      == {s} \X (1..Counted(s))
CountedOver(S) == Cardinality(UNION { Pieces(s) : s \in S })

-----------------------------------------------------------------------------

\* The export has been finalised.
Init ==
  /\ status      = [d \in Devices |-> "EXPORTED_UNDER_OPR"]
  /\ shipment    = [s \in Returns |-> "DRAFT"]
  /\ lines       = {}
  /\ units       = [s \in Returns |-> NoUnits]
  /\ corr        = [s \in Returns |-> [d \in Devices |-> Uncorrected]]
  /\ outstanding = [s \in Returns |-> 0]
  /\ identity    = [d \in Devices |-> "exported"]
  /\ regraded    = {}
  /\ reported    = {}
  /\ req         = Rest
  /\ deaths      = 0

-----------------------------------------------------------------------------
(* Building a return.                                                      *)

\* Mutant: no duplicate-draft guard.
AddLine_NoGuard(s, d) ==
  /\ Idle
  /\ shipment[s] = "DRAFT"
  /\ status[d] = "EXPORTED_UNDER_OPR"
  /\ lines' = lines \cup {<<s, d>>}
  /\ UNCHANGED <<status, shipment, units, corr, outstanding, written, req, deaths>>

AddLine(s, d) ==
  /\ Idle
  /\ shipment[s] = "DRAFT"
  /\ status[d] = "EXPORTED_UNDER_OPR"
  /\ \A t \in Returns \ {s} : shipment[t] = "DRAFT" => d \notin On(t)
  /\ lines' = lines \cup {<<s, d>>}
  /\ UNCHANGED <<status, shipment, units, corr, outstanding, written, req, deaths>>

\* return_line_corrections refers to the line: a corrected one cannot go.
RemoveLine(s, d) ==
  /\ Idle
  /\ shipment[s] = "DRAFT"
  /\ d \in On(s)
  /\ corr[s][d] = Uncorrected
  /\ lines' = lines \ {<<s, d>>}
  /\ UNCHANGED <<status, shipment, units, corr, outstanding, written, req, deaths>>

\* PATCH /shipments/:id.
SetUnits(s) ==
  /\ Idle
  /\ shipment[s] = "DRAFT"
  /\ \E u \in UnitChoices \cup {NoUnits} : units' = [units EXCEPT ![s] = u]
  /\ UNCHANGED <<status, shipment, lines, corr, outstanding, written, req, deaths>>

CorrectedLines == { l \in lines : corr[l[1]][l[2]] # Uncorrected }

\* A correction is a full snapshot merged over the one before it, so the new
\* row may change the IMEI, keep a changed one, or take the change back.
Correct(s, d) ==
  /\ Idle
  /\ shipment[s] = "DRAFT"
  /\ d \in On(s)
  /\ corr[s][d] # Uncorrected \/ Cardinality(CorrectedLines) < MaxCorrected
  /\ \E what \in Changes :
       corr' = [corr EXCEPT ![s][d] = [change |-> what, reviewed |-> FALSE]]
  /\ UNCHANGED <<status, shipment, lines, units, outstanding, written, req, deaths>>

\* Mutant: an IMEI correction may be reviewed too.
Review_Any(s, d) ==
  /\ Idle
  /\ d \in On(s)
  /\ corr[s][d].change \in Changes /\ ~corr[s][d].reviewed
  /\ corr' = [corr EXCEPT ![s][d].reviewed = TRUE]
  /\ UNCHANGED <<status, shipment, lines, units, outstanding, written, req, deaths>>

\* Refused for an IMEI correction; any other may have been flagged for review.
Review(s, d) ==
  /\ Idle
  /\ d \in On(s)
  /\ corr[s][d].change \in {"grade", "spec"} /\ ~corr[s][d].reviewed
  /\ corr' = [corr EXCEPT ![s][d].reviewed = TRUE]
  /\ UNCHANGED <<status, shipment, lines, units, outstanding, written, req, deaths>>

-----------------------------------------------------------------------------
(* Receipt.                                                                *)

ImeiBlocked(s) == \E d \in On(s) : corr[s][d].change = "imei" /\ ~corr[s][d].reviewed

\* loadReturnBalance(): the other finalised legs and this one.
Balance(s) == CountedOver(Finalised) + Counted(s)

\* Mutant: this leg is not counted.
BalanceIsRed_OtherLegs(s, reason) ==
  \/ CountedOver(Finalised) > Exported
  \/ Balance(s) < Exported /\ ~reason

\* IMP_RETURN_BALANCE.
BalanceIsRed(s, reason) ==
  \/ Balance(s) > Exported
  \/ Balance(s) < Exported /\ ~reason

\* Validation, the status of every device, and the flip.
Finalise(s, reason) ==
  /\ Idle
  /\ shipment[s] = "DRAFT"
  /\ On(s) # {} /\ ~ImeiBlocked(s) /\ ~BalanceIsRed(s, reason)
  /\ \A d \in On(s) : status[d] = "EXPORTED_UNDER_OPR"
  /\ shipment' = [shipment EXCEPT ![s] = "FINALISED"]
  /\ req' = [ pc |-> IF Balance(s) < Exported THEN "declare" ELSE "receive",
              ship |-> s, hand |-> {}, left |-> On(s), back |-> Balance(s) ]
  /\ UNCHANGED <<status, lines, units, corr, outstanding, written, deaths>>

\* Mutant: the outstanding count is taken from this leg alone.
Declare_ThisLeg ==
  /\ req.pc = "declare"
  /\ outstanding' = [outstanding EXCEPT ![req.ship] = Exported - Counted(req.ship)]
  /\ req' = [req EXCEPT !.pc = "receive"]
  /\ UNCHANGED <<status, shipment, lines, units, corr, written, deaths>>

Declare ==
  /\ req.pc = "declare"
  /\ outstanding' = [outstanding EXCEPT ![req.ship] = Exported - req.back]
  /\ req' = [req EXCEPT !.pc = "receive"]
  /\ UNCHANGED <<status, shipment, lines, units, corr, written, deaths>>

\* The loop of transitionDevice() calls; a call that throws ends the request.
Receive ==
  /\ req.pc = "receive"
  /\ \E d \in req.left :
       IF Allowed(status[d], "RETURNED_UNDER_OPR")
         THEN /\ status' = [status EXCEPT ![d] = "RETURNED_UNDER_OPR"]
              /\ req' = IF req.left = {d} THEN Rest ELSE [req EXCEPT !.left = @ \ {d}]
         ELSE req' = Rest /\ UNCHANGED status
  /\ UNCHANGED <<shipment, lines, units, corr, outstanding, written, deaths>>

-----------------------------------------------------------------------------
(* Restocking: each device is moved, then its correction written through.  *)

Restock(s) ==
  /\ Idle
  /\ shipment[s] = "FINALISED"
  /\ On(s) # {}
  /\ req' = [pc |-> "restock", ship |-> s, hand |-> {}, left |-> On(s), back |-> 0]
  /\ UNCHANGED <<status, shipment, lines, units, corr, outstanding, written, deaths>>

\* Mutant: the status of the device is not written.
RestockDevice_WrongStatus ==
  /\ req.pc = "restock"
  /\ \E d \in req.left :
       /\ status' = [status EXCEPT ![d] = "RESTOCKED"]
       /\ req' = IF req.left = {d} THEN Rest ELSE [req EXCEPT !.left = @ \ {d}]
  /\ UNCHANGED <<shipment, lines, units, corr, outstanding, written, deaths>>

\* A device that is not RETURNED_UNDER_OPR is skipped.
RestockDevice ==
  /\ req.pc = "restock"
  /\ \E d \in req.left :
       LET rest == req.left \ {d} IN
       IF status[d] = "RETURNED_UNDER_OPR"
         THEN /\ status' = [status EXCEPT ![d] = "ACTIVE_INVENTORY"]
              /\ req' = IF corr[req.ship][d].change # "none"
                          THEN [req EXCEPT !.pc = "apply", !.hand = {d}, !.left = rest]
                        ELSE IF rest = {} THEN Rest ELSE [req EXCEPT !.left = rest]
         ELSE /\ req' = IF rest = {} THEN Rest ELSE [req EXCEPT !.left = rest]
              /\ UNCHANGED status
  /\ UNCHANGED <<shipment, lines, units, corr, outstanding, written, deaths>>

\* planGradeCorrection() and buildGradeCorrectionStmts(), one batch: the identity
\* fields are written in every case; a changed grade, with its SKU, only when the
\* catalogue has exactly one SKU for the corrected device.
WriteThrough(d, change, matched) ==
  /\ identity' = [identity EXCEPT ![d] = change]
  /\ regraded' = IF change = "grade" /\ matched THEN regraded \cup {d} ELSE regraded

\* Mutant: a plan that skips the grade writes nothing.
WriteThrough_SkipIsAll(d, change, matched) ==
  IF change = "grade" /\ ~matched
    THEN UNCHANGED <<identity, regraded>>
    ELSE /\ identity' = [identity EXCEPT ![d] = change]
         /\ regraded' = IF change = "grade" THEN regraded \cup {d} ELSE regraded

\* Mutant: an error of the write-through is swallowed without a word.
ApplyCorrection_Silent ==
  /\ req.pc = "apply"
  /\ \E d \in req.hand :
       \/ \E matched \in BOOLEAN : WriteThrough(d, corr[req.ship][d].change, matched)
       \/ UNCHANGED <<identity, regraded>>
  /\ UNCHANGED reported
  /\ req' = IF req.left = {} THEN Rest ELSE [req EXCEPT !.pc = "restock", !.hand = {}]
  /\ UNCHANGED <<status, shipment, lines, units, corr, outstanding, deaths>>

\* applyReturnCorrectionAtRestock(). The batch may throw (an IMEI that clashes by
\* now), and so may the event that is logged after it: the caller catches either.
ApplyCorrection ==
  /\ req.pc = "apply"
  /\ \E d \in req.hand :
       \/ /\ \E matched \in BOOLEAN : WriteThrough(d, corr[req.ship][d].change, matched)
          /\ reported' \in {reported, reported \cup {d}}
       \/ /\ reported' = reported \cup {d}
          /\ UNCHANGED <<identity, regraded>>
  /\ req' = IF req.left = {} THEN Rest ELSE [req EXCEPT !.pc = "restock", !.hand = {}]
  /\ UNCHANGED <<status, shipment, lines, units, corr, outstanding, deaths>>

\* The worker dies between two statements.
Abandon ==
  /\ ~Idle
  /\ deaths < MaxDeaths
  /\ deaths' = deaths + 1
  /\ req' = Rest
  /\ UNCHANGED <<status, shipment, lines, units, corr, outstanding, written>>

-----------------------------------------------------------------------------

Next ==
  \/ \E s \in Returns :
       \/ SetUnits(s) \/ Restock(s)
       \/ \E reason \in BOOLEAN : Finalise(s, reason)
       \/ \E d \in Devices :
            AddLine(s, d) \/ RemoveLine(s, d) \/ Correct(s, d) \/ Review(s, d)
  \/ Declare \/ Receive \/ RestockDevice \/ ApplyCorrection \/ Abandon

Spec == Init /\ [][Next]_vars

-----------------------------------------------------------------------------
(* Properties.                                                             *)

\* Every variable has its type.
TypeOK ==
  /\ status \in [Devices -> DEVICE_STATUSES]
  /\ shipment \in [Returns -> {"DRAFT", "FINALISED"}]
  /\ lines \subseteq Returns \X Devices
  /\ units \in [Returns -> UnitChoices \cup {NoUnits}]
  /\ corr \in [Returns -> [Devices -> Correction]]
  /\ outstanding \in [Returns -> Nat]
  /\ identity \in [Devices -> Changes \cup {"exported"}]
  /\ regraded \subseteq Devices
  /\ reported \subseteq Devices
  /\ req \in Request \cup {Rest}
  /\ deaths \in Nat

\* Every device on a return still being built can be received: it is not back
\* already through another return, also after receipts a dead worker left half
\* done.  "A duplicate-draft guard stops the same device being placed on two open
\* return consignments" (addDeviceToShipment).
DraftCanBeReceived ==
  \A s \in Returns : \A d \in On(s) :
    shipment[s] = "DRAFT" => status[d] = "EXPORTED_UNDER_OPR"

\* However the units are declared, the legs that were received never return
\* more than the export declared (IMP_RETURN_BALANCE).
NeverOverReturned == CountedOver(Finalised) <= Exported

\* While no worker dies, what is still outstanding after the legs received so
\* far is on record: the latest declaration, the one with the least outstanding,
\* says exactly that (migration 0040).
OutstandingOnRecord ==
  LET owed     == Exported - CountedOver(Finalised)
      declared == { outstanding[s] : s \in { t \in Returns : outstanding[t] # 0 } }
  IN  Idle /\ deaths = 0 /\ Finalised # {} /\ owed > 0
        => owed \in declared /\ \A n \in declared : owed <= n

\* Whether the row of a device is what a received return says it is: nothing was
\* corrected there, or the latest correction was written.
Says(s, d) == corr[s][d].change \in {"none", identity[d]}

\* Devices back in stock that are as none of their returns says, with no error
\* reported for them.
Unexplained ==
  { d \in Devices : /\ status[d] = "ACTIVE_INVENTORY" /\ d \notin reported
                    /\ \A s \in Finalised : d \in On(s) => ~Says(s, d) }

\* "an IMEI correction ALWAYS hard-blocks finalisation with no override path" (the
\* review route), and a write-through problem is "surfaced separately so it is not
\* silently lost" (the restock route): no return with a line whose latest correction
\* changes the IMEI is received; a grade is rewritten only for a line that corrects it;
\* and a restocked device has the identity fields its return corrected, or is reported,
\* but for one device per worker that died, whom nothing will correct any more. (A
\* grade that stays behind because the catalogue has no single SKU is not reported.)
CorrectionApplied ==
  /\ \A s \in Finalised : \A d \in On(s) : corr[s][d].change # "imei"
  /\ \A d \in regraded : \E s \in Finalised : d \in On(s) /\ corr[s][d].change = "grade"
  /\ Idle => Cardinality(Unexplained) <= deaths

\* "import/return receipt has no equivalent stuck state" (the resume route): at
\* rest, no device on a received return still reads EXPORTED_UNDER_OPR.
NoStuckReceipt ==
  Idle => \A s \in Finalised : \A d \in On(s) : status[d] # "EXPORTED_UNDER_OPR"
=============================================================================
