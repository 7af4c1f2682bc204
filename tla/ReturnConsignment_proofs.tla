---------------------- MODULE ReturnConsignment_proofs ----------------------
(***************************************************************************)
(* Proofs about returns, for any export, any number of import shipments    *)
(* and any declared units.                                                 *)
(*                                                                         *)
(* IInv is what holds however many workers die.  What is received is never *)
(* more than the export: receipt weighs the leg with the others, and a leg *)
(* that was received changes no more.  A device on a draft can be received *)
(* because drafts share no device, and because what the loop of a receipt  *)
(* has left is on no draft.                                                *)
(*                                                                         *)
(* OInv is what holds while none died: the balance is on record unless a   *)
(* declaration is under way.  CInv counts the devices whose correction was *)
(* lost: a restocking holds one device at a time, so a worker that dies    *)
(* loses no more than the one at hand.                                     *)
(***************************************************************************)
EXTENDS ReturnConsignment, FiniteSetTheorems, TLAPS

\* The steps of a receipt, and of a restocking.
Receiving  == {"declare", "receive"}
Restocking == {"restock", "apply"}

Owed == Exported - CountedOver(Finalised)

\* What the request being served holds.
ReqOk ==
  /\ ~Idle => /\ shipment[req.ship] = "FINALISED"
              /\ req.left \subseteq On(req.ship)
  /\ req.pc \in Receiving =>
       \A d \in req.left :
         /\ status[d] = "EXPORTED_UNDER_OPR"
         /\ \A s \in Returns : shipment[s] = "DRAFT" => d \notin On(s)
  /\ req.pc = "declare" => req.back = CountedOver(Finalised) /\ req.back < Exported
  /\ req.pc = "apply" =>
       \E d \in On(req.ship) :
         req.hand = {d} /\ d \notin req.left /\ corr[req.ship][d].change # "none"

\* Drafts share no device, and have no device that is not abroad.
DraftsOk ==
  \A s \in Returns : shipment[s] = "DRAFT" =>
    \A d \in On(s) :
      /\ status[d] = "EXPORTED_UNDER_OPR"
      /\ \A t \in Returns \ {s} : shipment[t] = "DRAFT" => d \notin On(t)

\* No correction of the IMEI is reviewed, and none of a received leg is one.
CorrectionsOk ==
  /\ \A s \in Returns, d \in Devices : corr[s][d].reviewed => corr[s][d].change \in {"grade", "spec"}
  /\ \A s \in Finalised : \A d \in On(s) : corr[s][d].change # "imei"

\* The inductive invariant, whoever dies.
IInv == TypeOK /\ ReqOk /\ DraftsOk /\ CorrectionsOk /\ NeverOverReturned

\* The declarations while no worker dies: none says less than is owed, and one says
\* exactly that, unless it is being written.
OInv ==
  deaths = 0 =>
    /\ \A s \in Returns : outstanding[s] # 0 => Owed <= outstanding[s]
    /\ Finalised # {} /\ Owed > 0 /\ req.pc # "declare" => \E s \in Returns : outstanding[s] = Owed

\* The device whose correction is at hand.
Hand == IF req.pc = "apply" THEN req.hand ELSE {}

\* Devices in stock, other than that one, whose correction was lost.
Lost == Unexplained \ Hand

\* A grade was rewritten for a line that corrects it.
Regrades == \A d \in regraded : \E s \in Finalised : d \in On(s) /\ corr[s][d].change = "grade"

\* Whoever dies loses at most the correction at hand.
CInv == Cardinality(Lost) <= deaths /\ Regrades

\* All of it.
Inv == IInv /\ OInv /\ CInv

-----------------------------------------------------------------------------
(* Counting what was returned.                                             *)

\* The lines of a return, and what it counts, are finite.
LEMMA PieceFacts ==
  ASSUME TypeOK, NEW s \in Returns
  PROVE  /\ Counted(s) \in Nat
         /\ IsFiniteSet(Pieces(s)) /\ Cardinality(Pieces(s)) = Counted(s)
<1>1. IsFiniteSet(On(s)) /\ Cardinality(On(s)) \in Nat
  <2>1. On(s) \in SUBSET Devices /\ IsFiniteSet(Devices)
    BY ReturnAssumption DEF On
  <2> QED
    BY <2>1, FS_Subset, FS_CardinalityType
<1>2. Counted(s) \in Nat
  BY <1>1, ReturnAssumption DEF Counted, TypeOK
<1>3. PICK n \in Nat : n = Counted(s)
  BY <1>2
<1>4. IsFiniteSet(1..n) /\ Cardinality(1..n) = n
  <2>1. 1 \in Int /\ n \in Int
    BY <1>3
  <2>2. IsFiniteSet(1..n) /\ Cardinality(1..n) = IF 1 > n THEN 0 ELSE n - 1 + 1
    BY <2>1, FS_Interval
  <2> QED
    BY <1>3, <2>2
<1>5. IsFiniteSet({s}) /\ Cardinality({s}) = 1
  BY FS_Singleton
<1>6. IsFiniteSet({s} \X (1..n)) /\ Cardinality({s} \X (1..n)) = 1 * n
  <2>1. PICK A, B : A = {s} /\ B = 1..n
    OBVIOUS
  <2>2. IsFiniteSet(A) /\ IsFiniteSet(B) /\ Cardinality(A) = 1 /\ Cardinality(B) = n
    BY <1>4, <1>5, <2>1
  <2>3. IsFiniteSet(A \X B) /\ Cardinality(A \X B) = Cardinality(A) * Cardinality(B)
    BY <2>2, FS_Product
  <2> QED
    BY <2>1, <2>2, <2>3
<1> QED
  BY <1>3, <1>6 DEF Pieces

\* Some returns together count a number.
LEMMA SumIsNat ==
  ASSUME TypeOK, NEW S \in SUBSET Returns
  PROVE  IsFiniteSet(UNION { Pieces(s) : s \in S }) /\ CountedOver(S) \in Nat
<1>1. IsFiniteSet(S)
  BY ReturnAssumption, FS_Subset
<1>2. PICK f : f = [s \in S |-> Pieces(s)]
  OBVIOUS
<1>3. PICK T : T = { Pieces(s) : s \in S }
  OBVIOUS
<1>4. f \in Surjection(S, T)
  BY <1>2, <1>3 DEF Surjection
<1>5. IsFiniteSet(T)
  BY <1>1, <1>4, FS_Surjection
<1>6. \A P \in T : IsFiniteSet(P)
  BY <1>3, PieceFacts
<1>7. IsFiniteSet(UNION T)
  BY <1>5, <1>6, FS_UNION
<1>8. Cardinality(UNION T) \in Nat
  BY <1>7, FS_CardinalityType
<1> QED
  BY <1>3, <1>7, <1>8 DEF CountedOver

\* One more return adds what it counts.
LEMMA SumAdds ==
  ASSUME TypeOK, NEW S \in SUBSET Returns, NEW s \in Returns \ S
  PROVE  CountedOver(S \cup {s}) = CountedOver(S) + Counted(s)
<1>1. PICK A, B : A = UNION { Pieces(t) : t \in S } /\ B = Pieces(s)
  OBVIOUS
<1>2. IsFiniteSet(A) /\ CountedOver(S) = Cardinality(A) /\ CountedOver(S) \in Nat
  BY <1>1, SumIsNat DEF CountedOver
<1>3. IsFiniteSet(B) /\ Cardinality(B) = Counted(s) /\ Counted(s) \in Nat
  BY <1>1, PieceFacts
<1>4. A \cap B = {}
  BY <1>1 DEF Pieces
<1>5. UNION { Pieces(t) : t \in S \cup {s} } = A \cup B
  BY <1>1
<1>6. Cardinality(A \cup B) = Cardinality(A) + Cardinality(B) - Cardinality(A \cap B)
  BY <1>2, <1>3, FS_Union
<1>7. Cardinality(A \cap B) = 0
  BY <1>4, FS_EmptySet
<1>8. Cardinality(A \cup B) = CountedOver(S) + Counted(s)
  BY <1>2, <1>3, <1>6, <1>7
<1>9. CountedOver(S \cup {s}) = Cardinality(A \cup B)
  BY <1>5 DEF CountedOver
<1> QED
  BY <1>8, <1>9

\* A sum over returns that count what they did.
LEMMA SumStands ==
  ASSUME NEW S, \A s \in S : Counted(s)' = Counted(s)
  PROVE  CountedOver(S)' = CountedOver(S)
<1>1. \A s \in S : Pieces(s)' = Pieces(s)
  BY DEF Pieces
<1>2. (UNION { Pieces(s) : s \in S })' = UNION { Pieces(s) : s \in S }
  BY <1>1
<1> QED
  BY <1>2 DEF CountedOver

\* The export is finite.
LEMMA ExportIsFinite == Exported \in Nat
BY ReturnAssumption, FS_CardinalityType DEF Exported

\* A step that leaves the received legs alone leaves what is owed.
LEMMA LegsStand ==
  ASSUME IInv, shipment' = shipment,
         \A s \in Finalised : units'[s] = units[s] /\ On(s)' = On(s)
  PROVE  /\ Finalised' = Finalised
         /\ CountedOver(Finalised)' = CountedOver(Finalised)
         /\ Owed' = Owed
         /\ NeverOverReturned'
<1>1. Finalised' = Finalised
  BY DEF Finalised
<1>2. PICK F : F = Finalised
  OBVIOUS
<1>3. \A s \in F : Counted(s)' = Counted(s)
  BY <1>2 DEF Counted
<1>4. CountedOver(F)' = CountedOver(F)
  BY <1>3, SumStands
<1>5. CountedOver(Finalised)' = CountedOver(F)'
  BY <1>1, <1>2 DEF CountedOver
<1>6. CountedOver(Finalised)' = CountedOver(Finalised)
  BY <1>2, <1>4, <1>5
<1> QED
  BY <1>1, <1>6 DEF IInv, NeverOverReturned, Owed, Exported

\* What is on record stays on record when nothing is owed or declared anew.
LEMMA StillOnRecord ==
  ASSUME OInv, Finalised' = Finalised, Owed' = Owed, outstanding' = outstanding,
         deaths' = 0 => deaths = 0 /\ (req.pc = "declare" => req'.pc = "declare")
  PROVE  OInv'
BY DEF OInv

-----------------------------------------------------------------------------
(* The desk: nothing of it touches a received leg.                         *)

\* Corrections that were lost are finitely many, and no more when no other is lost.
LEMMA LostCount ==
  ASSUME CInv, NEW S \in SUBSET Lost
  PROVE  IsFiniteSet(S) /\ Cardinality(S) \in Nat /\ (deaths \in Nat => Cardinality(S) <= deaths)
<1>1. Lost \in SUBSET Devices
  BY DEF Lost, Unexplained
<1>2. IsFiniteSet(Lost) /\ IsFiniteSet(S)
  BY <1>1, ReturnAssumption, FS_Subset
<1>3. Cardinality(S) <= Cardinality(Lost) /\ Cardinality(S) \in Nat /\ Cardinality(Lost) \in Nat
  BY <1>2, FS_Subset, FS_CardinalityType
<1> QED
  BY <1>2, <1>3 DEF CInv

\* A step that writes no correction, puts nothing into stock and leaves received legs
\* what they are loses none.
LEMMA CorrectionsStand ==
  ASSUME TypeOK, CInv, deaths' = deaths, Hand = {}, Hand' = {},
         UNCHANGED <<identity, regraded, reported>>,
         \A d \in Devices : status'[d] = "ACTIVE_INVENTORY" => status[d] = "ACTIVE_INVENTORY",
         Finalised \subseteq Finalised',
         \A s \in Finalised : \A d \in On(s) :
           d \in On(s)' /\ corr'[s][d].change = corr[s][d].change
  PROVE  CInv'
<1>1. Lost' \subseteq Lost
  <2>1. ASSUME NEW d \in Lost'
        PROVE  d \in Lost
    <3>1. /\ d \in Devices /\ status[d] = "ACTIVE_INVENTORY" /\ d \notin reported
          /\ \A s \in Finalised' : d \in On(s)' => ~Says(s, d)'
      BY <2>1 DEF Lost, Unexplained
    <3>2. \A s \in Finalised : d \in On(s) => ~Says(s, d)
      BY <3>1 DEF Says
    <3> QED
      BY <3>1, <3>2 DEF Lost, Unexplained
  <2> QED
    BY <2>1
<1>2. Cardinality(Lost') <= deaths
  BY <1>1, LostCount DEF TypeOK
<1>3. Regrades'
  BY DEF CInv, Regrades
<1> QED
  BY <1>2, <1>3 DEF CInv

\* A device goes on a draft when it is on no other and abroad.
LEMMA AddLineStep ==
  ASSUME Inv, NEW s \in Returns, NEW d \in Devices, AddLine(s, d)
  PROVE  Inv'
<1>1. TypeOK /\ ReqOk /\ DraftsOk /\ CorrectionsOk /\ IInv /\ OInv /\ CInv
  BY DEF Inv, IInv
<1>2. /\ shipment[s] = "DRAFT" /\ status[d] = "EXPORTED_UNDER_OPR" /\ req = Rest
      /\ UNCHANGED <<status, shipment, units, corr, outstanding, identity, regraded, reported,
                     req, deaths>>
      /\ \A t \in Returns \ {s} : shipment[t] = "DRAFT" => d \notin On(t)
  BY DEF AddLine, Idle, written
<1>3. /\ On(s)' = On(s) \cup {d}
      /\ \A t \in Returns \ {s} : On(t)' = On(t)
  BY DEF AddLine, On
<1>4. s \notin Finalised
  BY <1>2 DEF Finalised
<1>5. \A t \in Finalised : units'[t] = units[t] /\ On(t)' = On(t)
  BY <1>2, <1>3, <1>4 DEF Finalised
<1>6. /\ Finalised' = Finalised
      /\ CountedOver(Finalised)' = CountedOver(Finalised)
      /\ Owed' = Owed
      /\ NeverOverReturned'
  BY <1>1, <1>2, <1>5, LegsStand
<1>7. TypeOK'
  BY <1>1, <1>2 DEF TypeOK, AddLine
<1>8. ReqOk'
  BY <1>2 DEF ReqOk, Idle, Rest, Receiving
<1>9. DraftsOk'
  BY <1>1, <1>2, <1>3 DEF DraftsOk
<1>10. CorrectionsOk'
  BY <1>1, <1>2, <1>5, <1>6 DEF CorrectionsOk
<1>11. OInv'
  BY <1>1, <1>2, <1>6, StillOnRecord
<1>12. Hand = {} /\ Hand' = {}
  BY <1>2 DEF Hand, Rest
<1>13. CInv'
  BY <1>1, <1>2, <1>5, <1>6, <1>12, CorrectionsStand
<1> QED
  BY <1>6, <1>7, <1>8, <1>9, <1>10, <1>11, <1>13 DEF Inv, IInv

\* A line goes from a draft.
LEMMA RemoveLineStep ==
  ASSUME Inv, NEW s \in Returns, NEW d \in Devices, RemoveLine(s, d)
  PROVE  Inv'
<1>1. TypeOK /\ ReqOk /\ DraftsOk /\ CorrectionsOk /\ IInv /\ OInv /\ CInv
  BY DEF Inv, IInv
<1>2. /\ shipment[s] = "DRAFT" /\ req = Rest
      /\ UNCHANGED <<status, shipment, units, corr, outstanding, identity, regraded, reported,
                     req, deaths>>
  BY DEF RemoveLine, Idle, written
<1>3. /\ On(s)' \subseteq On(s)
      /\ \A t \in Returns \ {s} : On(t)' = On(t)
  BY DEF RemoveLine, On
<1>4. s \notin Finalised
  BY <1>2 DEF Finalised
<1>5. \A t \in Finalised : units'[t] = units[t] /\ On(t)' = On(t)
  BY <1>2, <1>3, <1>4 DEF Finalised
<1>6. /\ Finalised' = Finalised
      /\ CountedOver(Finalised)' = CountedOver(Finalised)
      /\ Owed' = Owed
      /\ NeverOverReturned'
  BY <1>1, <1>2, <1>5, LegsStand
<1>7. TypeOK'
  BY <1>1, <1>2 DEF TypeOK, RemoveLine
<1>8. ReqOk'
  BY <1>2 DEF ReqOk, Idle, Rest, Receiving
<1>9. DraftsOk'
  BY <1>1, <1>2, <1>3 DEF DraftsOk
<1>10. CorrectionsOk'
  BY <1>1, <1>2, <1>5, <1>6 DEF CorrectionsOk
<1>11. OInv'
  BY <1>1, <1>2, <1>6, StillOnRecord
<1>12. CInv'
  <2>1. Hand = {} /\ Hand' = {}
    BY <1>2 DEF Hand, Rest
  <2>2. \A t \in Finalised : \A g \in On(t) :
          g \in On(t)' /\ corr'[t][g].change = corr[t][g].change
    BY <1>2, <1>5 DEF Finalised, On
  <2>3. Finalised \subseteq Finalised'
    BY <1>2 DEF Finalised
  <2> QED
    BY <1>1, <1>2, <2>1, <2>2, <2>3, CorrectionsStand
<1> QED
  BY <1>6, <1>7, <1>8, <1>9, <1>10, <1>11, <1>12 DEF Inv, IInv

\* The units of a draft are declared.
LEMMA SetUnitsStep ==
  ASSUME Inv, NEW s \in Returns, SetUnits(s)
  PROVE  Inv'
<1>1. TypeOK /\ ReqOk /\ DraftsOk /\ CorrectionsOk /\ IInv /\ OInv /\ CInv
  BY DEF Inv, IInv
<1>2. /\ shipment[s] = "DRAFT" /\ req = Rest
      /\ UNCHANGED <<status, shipment, lines, corr, outstanding, identity, regraded, reported,
                     req, deaths>>
  BY DEF SetUnits, Idle, written
<1>3. \A t \in Returns : On(t)' = On(t) /\ (t # s => units'[t] = units[t])
  BY <1>1, <1>2 DEF SetUnits, On, TypeOK
<1>4. s \notin Finalised
  BY <1>2 DEF Finalised
<1>5. \A t \in Finalised : units'[t] = units[t] /\ On(t)' = On(t)
  BY <1>3, <1>4 DEF Finalised
<1>6. /\ Finalised' = Finalised
      /\ CountedOver(Finalised)' = CountedOver(Finalised)
      /\ Owed' = Owed
      /\ NeverOverReturned'
  BY <1>1, <1>2, <1>5, LegsStand
<1>7. TypeOK'
  BY <1>1, <1>2 DEF TypeOK, SetUnits
<1>8. ReqOk'
  BY <1>2 DEF ReqOk, Idle, Rest, Receiving
<1>9. DraftsOk'
  BY <1>1, <1>2, <1>3 DEF DraftsOk
<1>10. CorrectionsOk'
  BY <1>1, <1>2, <1>5, <1>6 DEF CorrectionsOk
<1>11. OInv'
  BY <1>1, <1>2, <1>6, StillOnRecord
<1>12. CInv'
  <2>1. Hand = {} /\ Hand' = {}
    BY <1>2 DEF Hand, Rest
  <2>2. \A t \in Finalised : \A g \in On(t) :
          g \in On(t)' /\ corr'[t][g].change = corr[t][g].change
    BY <1>2, <1>5 DEF Finalised, On
  <2>3. Finalised \subseteq Finalised'
    BY <1>2 DEF Finalised
  <2> QED
    BY <1>1, <1>2, <2>1, <2>2, <2>3, CorrectionsStand
<1> QED
  BY <1>6, <1>7, <1>8, <1>9, <1>10, <1>11, <1>12 DEF Inv, IInv

\* A correction is made to a draft; a review changes none that is of the IMEI.
LEMMA CorrectStep ==
  ASSUME Inv, NEW s \in Returns, NEW d \in Devices, Correct(s, d) \/ Review(s, d)
  PROVE  Inv'
<1>1. TypeOK /\ ReqOk /\ DraftsOk /\ CorrectionsOk /\ IInv /\ OInv /\ CInv
  BY DEF Inv, IInv
<1>2. /\ d \in On(s) /\ req = Rest
      /\ UNCHANGED <<status, shipment, lines, units, outstanding, identity, regraded, reported,
                     req, deaths>>
  BY DEF Correct, Review, Idle, written
<1>3. \A t \in Returns : On(t)' = On(t)
  BY <1>2 DEF On
<1>4. /\ Finalised' = Finalised
      /\ CountedOver(Finalised)' = CountedOver(Finalised)
      /\ Owed' = Owed
      /\ NeverOverReturned'
  BY <1>1, <1>2, <1>3, LegsStand DEF Finalised
<1>5. PICK c \in Correction : /\ corr' = [corr EXCEPT ![s][d] = c]
                              /\ c.reviewed => c.change \in {"grade", "spec"}
                              /\ shipment[s] = "FINALISED" => c.change = corr[s][d].change
  <2>1. CASE Correct(s, d)
    <3>1. PICK what \in Changes :
            corr' = [corr EXCEPT ![s][d] = [change |-> what, reviewed |-> FALSE]]
      BY <2>1 DEF Correct
    <3>2. [change |-> what, reviewed |-> FALSE] \in Correction
      BY DEF Correction
    <3> QED
      BY <2>1, <3>1, <3>2 DEF Correct
  <2>2. CASE Review(s, d)
    <3>1. PICK c : c = [corr[s][d] EXCEPT !.reviewed = TRUE]
      OBVIOUS
    <3>2. corr[s][d] \in Correction /\ corr[s][d].change \in {"grade", "spec"}
      BY <1>1, <2>2 DEF TypeOK, Review
    <3>3. c \in Correction /\ c.change = corr[s][d].change
      BY <3>1, <3>2 DEF Correction
    <3>4. corr' = [corr EXCEPT ![s][d] = c]
      BY <1>1, <2>2, <3>1 DEF Review, TypeOK
    <3> QED
      BY <3>2, <3>3, <3>4
  <2> QED
    BY <2>1, <2>2
<1>6. /\ corr' \in [Returns -> [Devices -> Correction]]
      /\ corr'[s][d] = c
      /\ \A t \in Returns, e \in Devices : t # s \/ e # d => corr'[t][e] = corr[t][e]
  BY <1>1, <1>5 DEF TypeOK
<1>7. TypeOK'
  BY <1>1, <1>2, <1>6 DEF TypeOK
<1>8. ReqOk'
  BY <1>2 DEF ReqOk, Idle, Rest, Receiving
<1>9. DraftsOk'
  BY <1>1, <1>2, <1>3 DEF DraftsOk
<1>10. CorrectionsOk'
  BY <1>1, <1>2, <1>3, <1>4, <1>5, <1>6 DEF CorrectionsOk, Finalised, On
<1>11. OInv'
  BY <1>1, <1>2, <1>4, StillOnRecord
<1>12. CInv'
  <2>1. Hand = {} /\ Hand' = {}
    BY <1>2 DEF Hand, Rest
  <2>2. \A t \in Finalised : \A g \in On(t) :
          g \in On(t)' /\ corr'[t][g].change = corr[t][g].change
    BY <1>2, <1>3, <1>4, <1>5, <1>6 DEF Finalised, On
  <2>3. Finalised \subseteq Finalised'
    BY <1>2 DEF Finalised
  <2> QED
    BY <1>1, <1>2, <2>1, <2>2, <2>3, CorrectionsStand
<1> QED
  BY <1>4, <1>7, <1>8, <1>9, <1>10, <1>11, <1>12 DEF Inv, IInv

-----------------------------------------------------------------------------
(* Receipt.                                                                *)

\* The leg is weighed with those before it: it is received when they make no more than
\* the export, and declared when they make less.
LEMMA FinaliseStep ==
  ASSUME Inv, NEW s \in Returns, NEW reason \in BOOLEAN, Finalise(s, reason)
  PROVE  Inv'
<1>1. TypeOK /\ ReqOk /\ DraftsOk /\ CorrectionsOk /\ IInv /\ OInv /\ CInv
  BY DEF Inv, IInv
<1>2. /\ shipment[s] = "DRAFT" /\ req = Rest
      /\ ~ImeiBlocked(s) /\ ~BalanceIsRed(s, reason)
      /\ \A d \in On(s) : status[d] = "EXPORTED_UNDER_OPR"
      /\ shipment' = [shipment EXCEPT ![s] = "FINALISED"]
      /\ UNCHANGED <<status, lines, units, corr, outstanding, identity, regraded, reported, deaths>>
  BY DEF Finalise, Idle, written
<1>3. PICK F \in SUBSET Returns : F = Finalised
  BY DEF Finalised
<1>4. s \notin F /\ Finalised' = F \cup {s}
  BY <1>1, <1>2, <1>3 DEF Finalised, TypeOK
<1>5. /\ \A t \in Returns : On(t)' = On(t) /\ Counted(t)' = Counted(t)
      /\ Exported' = Exported /\ Exported \in Nat
  BY <1>2, ExportIsFinite DEF On, Counted, Exported
<1>6. PICK n \in Nat, k \in Nat, c \in Nat :
        k = CountedOver(Finalised) /\ c = Counted(s) /\ n = Balance(s) /\ n = k + c
  <2>1. CountedOver(F) \in Nat /\ Counted(s) \in Nat
    BY <1>1, SumIsNat, PieceFacts
  <2>2. CountedOver(F) = CountedOver(Finalised)
    BY <1>3
  <2>3. PICK k \in Nat, c \in Nat : k = CountedOver(Finalised) /\ c = Counted(s)
    BY <2>1, <2>2
  <2>4. Balance(s) = k + c
    BY <2>3 DEF Balance
  <2> QED
    BY <2>3, <2>4
<1>7. CountedOver(Finalised)' = n
  <2>1. CountedOver(F \cup {s})' = CountedOver(F \cup {s})
    BY <1>5, SumStands
  <2>2. CountedOver(F \cup {s}) = n
    BY <1>1, <1>3, <1>4, <1>6, SumAdds DEF Balance
  <2>3. CountedOver(Finalised)' = CountedOver(F \cup {s})'
    BY <1>4 DEF CountedOver
  <2> QED
    BY <2>1, <2>2, <2>3
<1>8. n <= Exported /\ k <= n
  BY <1>2, <1>5, <1>6 DEF BalanceIsRed
<1>9. PICK x \in Request :
        /\ req' = x
        /\ x.pc = (IF n < Exported THEN "declare" ELSE "receive")
        /\ x.ship = s /\ x.left = On(s) /\ x.back = n
  <2>1. PICK step \in {"declare", "receive"} : step = IF n < Exported THEN "declare" ELSE "receive"
    OBVIOUS
  <2>2. PICK L \in SUBSET Devices : L = On(s)
    BY DEF On
  <2>3. [pc |-> step, ship |-> s, hand |-> {}, left |-> L, back |-> n] \in Request
    BY DEF Request
  <2>4. req' = [pc |-> step, ship |-> s, hand |-> {}, left |-> L, back |-> n]
    BY <1>6, <2>1, <2>2 DEF Finalise
  <2> QED
    BY <2>1, <2>2, <2>3, <2>4
<1>10. TypeOK'
  BY <1>1, <1>2, <1>9 DEF TypeOK
<1>11. \A t \in Returns : shipment'[t] = "DRAFT" <=> shipment[t] = "DRAFT" /\ t # s
  BY <1>1, <1>2 DEF TypeOK
<1>12. shipment'[s] = "FINALISED"
  BY <1>1, <1>2 DEF TypeOK
<1>13. NeverOverReturned'
  BY <1>5, <1>7, <1>8 DEF NeverOverReturned
<1>14. ReqOk'
  BY <1>1, <1>2, <1>5, <1>7, <1>9, <1>11, <1>12 DEF ReqOk, DraftsOk
<1>15. DraftsOk'
  BY <1>1, <1>2, <1>5, <1>11 DEF DraftsOk
<1>16. CorrectionsOk'
  BY <1>1, <1>2, <1>3, <1>4, <1>5 DEF CorrectionsOk, ImeiBlocked, On
<1>17. OInv'
  <2> SUFFICES ASSUME deaths = 0
               PROVE  OInv'
    BY <1>2 DEF OInv
  <2>1. PICK e \in Nat : e = Exported
    BY <1>5
  <2>2. Owed = e - k /\ Owed' = e - n
    BY <1>5, <1>6, <1>7, <2>1 DEF Owed
  <2>3. \A t \in Returns : outstanding[t] \in Nat
    BY <1>1 DEF TypeOK
  <2>4. \A t \in Returns : outstanding'[t] # 0 => Owed' <= outstanding'[t]
    BY <1>1, <1>2, <1>8, <2>1, <2>2, <2>3 DEF OInv
  <2>5. Owed' > 0 => req'.pc = "declare"
    BY <1>9, <2>1, <2>2
  <2> QED
    BY <2>4, <2>5 DEF OInv
<1>18. CInv'
  <2>1. Hand = {} /\ Hand' = {}
    BY <1>2, <1>9 DEF Hand, Rest
  <2>2. \A t \in Finalised : \A g \in On(t) :
          g \in On(t)' /\ corr'[t][g].change = corr[t][g].change
    BY <1>2, <1>5, <1>3 DEF Finalised, On
  <2>3. Finalised \subseteq Finalised'
    BY <1>2, <1>3, <1>4
  <2> QED
    BY <1>1, <1>2, <2>1, <2>2, <2>3, CorrectionsStand
<1> QED
  BY <1>10, <1>13, <1>14, <1>15, <1>16, <1>17, <1>18 DEF Inv, IInv

\* The request being served is of a received leg.
LEMMA ReqFacts ==
  ASSUME Inv, req.pc \in Receiving \cup Restocking
  PROVE  /\ req \in Request /\ ~Idle
         /\ req.ship \in Finalised
         /\ req.left \subseteq On(req.ship) /\ req.left \subseteq Devices
BY DEF Inv, IInv, TypeOK, ReqOk, Idle, Rest, Receiving, Restocking, Request, Finalised

\* What is owed is written as it stands.
LEMMA DeclareStep ==
  ASSUME Inv, Declare
  PROVE  Inv'
<1>1. TypeOK /\ ReqOk /\ DraftsOk /\ CorrectionsOk /\ IInv /\ OInv /\ CInv
  BY DEF Inv, IInv
<1>2. /\ req.pc = "declare"
      /\ outstanding' = [outstanding EXCEPT ![req.ship] = Exported - req.back]
      /\ req' = [req EXCEPT !.pc = "receive"]
      /\ UNCHANGED <<status, shipment, lines, units, corr, identity, regraded, reported, deaths>>
  BY DEF Declare, written
<1>3. /\ req \in Request /\ ~Idle
      /\ req.ship \in Finalised
      /\ req.left \subseteq On(req.ship) /\ req.left \subseteq Devices
  BY <1>2, ReqFacts DEF Receiving
<1>4. PICK s \in Returns, L \in SUBSET Devices : s = req.ship /\ L = req.left
  BY <1>3 DEF Request
<1>5. /\ req' \in Request /\ req'.pc = "receive" /\ req'.ship = s /\ req'.left = L
  BY <1>2, <1>3, <1>4 DEF Request
<1>6. \A t \in Returns : units'[t] = units[t] /\ On(t)' = On(t)
  BY <1>2 DEF On
<1>7. /\ Finalised' = Finalised
      /\ CountedOver(Finalised)' = CountedOver(Finalised)
      /\ Owed' = Owed
      /\ NeverOverReturned'
  BY <1>1, <1>2, <1>6, LegsStand DEF Finalised
<1>8. PICK e \in Nat, k \in Nat :
        /\ e = Exported /\ k = CountedOver(Finalised) /\ k < e /\ req.back = k
        /\ Owed = e - k
  <2>1. Finalised \in SUBSET Returns
    BY DEF Finalised
  <2> QED
    BY <1>1, <1>2, <2>1, ExportIsFinite, SumIsNat DEF ReqOk, Owed
<1>9. PICK o \in Nat : o = e - k /\ o # 0 /\ Owed = o
  BY <1>8
<1>10. outstanding' = [outstanding EXCEPT ![s] = o]
  BY <1>2, <1>4, <1>8, <1>9
<1>11. TypeOK'
  BY <1>1, <1>2, <1>5, <1>10 DEF TypeOK
<1>12. ReqOk'
  BY <1>1, <1>2, <1>3, <1>4, <1>5, <1>6 DEF ReqOk, Idle, Receiving
<1>13. DraftsOk'
  BY <1>1, <1>2, <1>6 DEF DraftsOk
<1>14. CorrectionsOk'
  BY <1>1, <1>2, <1>6, <1>7 DEF CorrectionsOk, On
<1>15. OInv'
  <2> SUFFICES ASSUME deaths = 0
               PROVE  OInv'
    BY <1>2 DEF OInv
  <2>1. outstanding'[s] = o /\ \A t \in Returns : t # s => outstanding'[t] = outstanding[t]
    BY <1>1, <1>10 DEF TypeOK
  <2>2. \A t \in Returns : outstanding'[t] # 0 => o <= outstanding'[t]
    BY <1>1, <1>9, <2>1 DEF OInv
  <2> QED
    BY <1>7, <1>9, <2>1, <2>2 DEF OInv
<1>16. CInv'
  <2>1. Hand = {} /\ Hand' = {}
    BY <1>2, <1>4, <1>5, <1>6 DEF Hand
  <2>2. \A t \in Finalised : \A g \in On(t) :
          g \in On(t)' /\ corr'[t][g].change = corr[t][g].change
    BY <1>2 DEF On
  <2>3. Finalised \subseteq Finalised'
    BY <1>2 DEF Finalised
  <2> QED
    BY <1>1, <1>2, <2>1, <2>2, <2>3, CorrectionsStand
<1> QED
  BY <1>7, <1>11, <1>12, <1>13, <1>14, <1>15, <1>16 DEF Inv, IInv

\* A device comes back.
LEMMA ReceiveStep ==
  ASSUME Inv, Receive
  PROVE  Inv'
<1>1. TypeOK /\ ReqOk /\ DraftsOk /\ CorrectionsOk /\ IInv /\ OInv /\ CInv
  BY DEF Inv, IInv
<1>2. /\ req.pc = "receive"
      /\ UNCHANGED <<shipment, lines, units, corr, outstanding, identity, regraded, reported, deaths>>
  BY DEF Receive, written
<1>3. /\ req \in Request /\ ~Idle
      /\ req.ship \in Finalised
      /\ req.left \subseteq On(req.ship) /\ req.left \subseteq Devices
  BY <1>2, ReqFacts DEF Receiving
<1>4. PICK s \in Returns, L \in SUBSET Devices : s = req.ship /\ L = req.left
  BY <1>3 DEF Request
<1>5. \A d \in L :
        /\ status[d] = "EXPORTED_UNDER_OPR"
        /\ \A t \in Returns : shipment[t] = "DRAFT" => d \notin On(t)
  BY <1>1, <1>2, <1>4 DEF ReqOk, Receiving
<1>6. Allowed("EXPORTED_UNDER_OPR", "RETURNED_UNDER_OPR") /\ "RETURNED_UNDER_OPR" \in DEVICE_STATUSES
  BY DEF Allowed, ALLOWED_TRANSITIONS, DEVICE_STATUSES
<1>7. PICK d \in L :
        /\ status' = [status EXCEPT ![d] = "RETURNED_UNDER_OPR"]
        /\ req' = IF L = {d} THEN Rest ELSE [req EXCEPT !.left = L \ {d}]
  BY <1>4, <1>5, <1>6 DEF Receive
<1>8. /\ status'[d] = "RETURNED_UNDER_OPR"
      /\ \A e \in Devices : e # d => status'[e] = status[e]
      /\ status' \in [Devices -> DEVICE_STATUSES]
  BY <1>1, <1>6, <1>7 DEF TypeOK
<1>9. \/ req' = Rest /\ L = {d}
      \/ /\ req' \in Request /\ req'.pc = "receive" /\ req'.ship = s
         /\ req'.left = L \ {d}
  BY <1>2, <1>3, <1>4, <1>7 DEF Request
<1>10. \A t \in Returns : units'[t] = units[t] /\ On(t)' = On(t)
  BY <1>2 DEF On
<1>11. /\ Finalised' = Finalised
       /\ CountedOver(Finalised)' = CountedOver(Finalised)
       /\ Owed' = Owed
       /\ NeverOverReturned'
  BY <1>1, <1>2, <1>10, LegsStand DEF Finalised
<1>12. TypeOK'
  BY <1>1, <1>2, <1>8, <1>9 DEF TypeOK
<1>13. ReqOk'
  BY <1>2, <1>3, <1>4, <1>5, <1>8, <1>9, <1>10, <1>11 DEF ReqOk, Idle, Rest, Receiving, Finalised
<1>14. DraftsOk'
  BY <1>1, <1>2, <1>5, <1>8, <1>10 DEF DraftsOk, On
<1>15. CorrectionsOk'
  BY <1>1, <1>2, <1>10, <1>11 DEF CorrectionsOk, Finalised
<1>16. OInv'
  BY <1>1, <1>2, <1>11, StillOnRecord
<1>17. CInv'
  <2>0. \A e \in Devices : status'[e] = "ACTIVE_INVENTORY" => status[e] = "ACTIVE_INVENTORY"
    BY <1>8
  <2>1. Hand = {} /\ Hand' = {}
    BY <1>2, <1>9 DEF Hand, Rest
  <2>2. \A t \in Finalised : \A g \in On(t) :
          g \in On(t)' /\ corr'[t][g].change = corr[t][g].change
    BY <1>2 DEF On
  <2>3. Finalised \subseteq Finalised'
    BY <1>2 DEF Finalised
  <2> QED
    BY <1>1, <1>2, <2>0, <2>1, <2>2, <2>3, CorrectionsStand
<1> QED
  BY <1>11, <1>12, <1>13, <1>14, <1>15, <1>16, <1>17 DEF Inv, IInv

-----------------------------------------------------------------------------
(* Restocking.                                                             *)

\* A received leg is taken to be restocked.
LEMMA RestockStep ==
  ASSUME Inv, NEW s \in Returns, Restock(s)
  PROVE  Inv'
<1>1. TypeOK /\ ReqOk /\ DraftsOk /\ CorrectionsOk /\ IInv /\ OInv /\ CInv
  BY DEF Inv, IInv
<1>2. /\ shipment[s] = "FINALISED" /\ req = Rest
      /\ UNCHANGED <<status, shipment, lines, units, corr, outstanding, identity, regraded, reported, deaths>>
  BY DEF Restock, Idle, written
<1>3. PICK L \in SUBSET Devices : L = On(s)
  BY DEF On
<1>4. /\ req' \in Request /\ req'.pc = "restock" /\ req'.ship = s /\ req'.left = L
  BY <1>3 DEF Restock, Request
<1>5. \A t \in Returns : units'[t] = units[t] /\ On(t)' = On(t)
  BY <1>2 DEF On
<1>6. /\ Finalised' = Finalised
      /\ CountedOver(Finalised)' = CountedOver(Finalised)
      /\ Owed' = Owed
      /\ NeverOverReturned'
  BY <1>1, <1>2, <1>5, LegsStand DEF Finalised
<1>7. TypeOK'
  BY <1>1, <1>2, <1>4 DEF TypeOK
<1>8. ReqOk'
  BY <1>2, <1>3, <1>4, <1>5 DEF ReqOk, Receiving
<1>9. DraftsOk'
  BY <1>1, <1>2, <1>5 DEF DraftsOk
<1>10. CorrectionsOk'
  BY <1>1, <1>2, <1>5, <1>6 DEF CorrectionsOk, Finalised
<1>11. OInv'
  BY <1>1, <1>2, <1>6, StillOnRecord DEF Rest
<1>12. CInv'
  <2>1. Hand = {} /\ Hand' = {}
    BY <1>2, <1>4 DEF Hand, Rest
  <2>2. \A t \in Finalised : \A g \in On(t) :
          g \in On(t)' /\ corr'[t][g].change = corr[t][g].change
    BY <1>2 DEF On
  <2>3. Finalised \subseteq Finalised'
    BY <1>2 DEF Finalised
  <2> QED
    BY <1>1, <1>2, <2>1, <2>2, <2>3, CorrectionsStand
<1> QED
  BY <1>6, <1>7, <1>8, <1>9, <1>10, <1>11, <1>12 DEF Inv, IInv

\* A device that is back goes into stock, with its correction, if any, at hand.
LEMMA RestockDeviceStep ==
  ASSUME Inv, RestockDevice
  PROVE  Inv'
<1>1. TypeOK /\ ReqOk /\ DraftsOk /\ CorrectionsOk /\ IInv /\ OInv /\ CInv
  BY DEF Inv, IInv
<1>2. /\ req.pc = "restock"
      /\ UNCHANGED <<shipment, lines, units, corr, outstanding, identity, regraded, reported, deaths>>
  BY DEF RestockDevice, written
<1>3. /\ req \in Request /\ ~Idle
      /\ req.ship \in Finalised
      /\ req.left \subseteq On(req.ship) /\ req.left \subseteq Devices
  BY <1>2, ReqFacts DEF Restocking
<1>4. PICK s \in Returns, L \in SUBSET Devices : s = req.ship /\ L = req.left
  BY <1>3 DEF Request
<1>5. "ACTIVE_INVENTORY" \in DEVICE_STATUSES
  BY DEF DEVICE_STATUSES
<1>6. PICK d \in L :
        IF status[d] = "RETURNED_UNDER_OPR"
          THEN /\ status' = [status EXCEPT ![d] = "ACTIVE_INVENTORY"]
               /\ req' = IF corr[s][d].change # "none"
                           THEN [req EXCEPT !.pc = "apply", !.hand = {d}, !.left = L \ {d}]
                         ELSE IF L \ {d} = {} THEN Rest ELSE [req EXCEPT !.left = L \ {d}]
          ELSE /\ req' = IF L \ {d} = {} THEN Rest ELSE [req EXCEPT !.left = L \ {d}]
               /\ UNCHANGED status
  BY <1>4 DEF RestockDevice
<1>7. d \in On(s) /\ d \in Devices /\ L \subseteq On(s)
  BY <1>3, <1>4
<1>8. /\ status' \in [Devices -> DEVICE_STATUSES]
      /\ \A e \in Devices : e # d => status'[e] = status[e]
      /\ \/ status[d] = "RETURNED_UNDER_OPR" /\ status'[d] = "ACTIVE_INVENTORY"
         \/ status[d] # "RETURNED_UNDER_OPR" /\ status'[d] = status[d]
  BY <1>1, <1>5, <1>6, <1>7 DEF TypeOK
<1>9. \/ /\ req' = Rest
         /\ status[d] = "RETURNED_UNDER_OPR" => corr[s][d].change = "none"
      \/ /\ req' \in Request /\ req'.pc = "restock" /\ req'.ship = s /\ req'.left = L \ {d}
         /\ status[d] = "RETURNED_UNDER_OPR" => corr[s][d].change = "none"
      \/ /\ req' \in Request /\ req'.pc = "apply" /\ req'.ship = s /\ req'.left = L \ {d}
         /\ req'.hand = {d} /\ corr[s][d].change # "none"
  <2>1. [req EXCEPT !.pc = "apply", !.hand = {d}, !.left = L \ {d}] \in Request
    BY <1>3, <1>7 DEF Request
  <2>2. [req EXCEPT !.left = L \ {d}] \in Request
    BY <1>3, <1>7 DEF Request
  <2> QED
    BY <1>2, <1>3, <1>4, <1>6, <2>1, <2>2 DEF Request
<1>10. \A t \in Returns : units'[t] = units[t] /\ On(t)' = On(t)
  BY <1>2 DEF On
<1>11. /\ Finalised' = Finalised
       /\ CountedOver(Finalised)' = CountedOver(Finalised)
       /\ Owed' = Owed
       /\ NeverOverReturned'
  BY <1>1, <1>2, <1>10, LegsStand DEF Finalised
<1>12. TypeOK'
  BY <1>1, <1>2, <1>8, <1>9 DEF TypeOK
<1>13. ReqOk'
  BY <1>2, <1>3, <1>4, <1>7, <1>9, <1>10 DEF ReqOk, Idle, Rest, Receiving, Finalised
<1>14. DraftsOk'
  BY <1>1, <1>2, <1>8, <1>10 DEF DraftsOk, On
<1>15. CorrectionsOk'
  BY <1>1, <1>2, <1>10, <1>11 DEF CorrectionsOk, Finalised
<1>16. OInv'
  BY <1>1, <1>2, <1>11, StillOnRecord
<1>17. CInv'
  <2>1. ASSUME NEW e \in Lost'
        PROVE  e \in Lost
    <3>1. /\ e \in Devices /\ status'[e] = "ACTIVE_INVENTORY" /\ e \notin reported
          /\ \A t \in Finalised : e \in On(t) => ~Says(t, e)
          /\ e \notin Hand'
      BY <1>2, <1>11, <2>1 DEF Lost, Unexplained, Says, On
    <3>2. Hand = {}
      BY <1>2 DEF Hand
    <3>3. status[e] = "ACTIVE_INVENTORY"
      <4>1. CASE e = d /\ status[d] = "RETURNED_UNDER_OPR"
        <5>1. corr[s][d].change # "none"
          BY <1>3, <1>4, <1>7, <3>1, <4>1 DEF Says
        <5> QED
          BY <1>9, <3>1, <4>1, <5>1 DEF Hand
      <4> QED
        BY <1>8, <3>1, <4>1
    <3> QED
      BY <3>1, <3>2, <3>3 DEF Lost, Unexplained
  <2>2. Cardinality(Lost') <= deaths'
    BY <1>1, <1>2, <2>1, LostCount DEF TypeOK
  <2>3. Regrades'
    BY <1>1, <1>2, <1>11 DEF CInv, Regrades, On
  <2> QED
    BY <2>2, <2>3 DEF CInv
<1> QED
  BY <1>11, <1>12, <1>13, <1>14, <1>15, <1>16, <1>17 DEF Inv, IInv

\* The correction at hand is written, or its device reported.
LEMMA ApplyStep ==
  ASSUME Inv, ApplyCorrection
  PROVE  Inv'
<1>1. TypeOK /\ ReqOk /\ DraftsOk /\ CorrectionsOk /\ IInv /\ OInv /\ CInv
  BY DEF Inv, IInv
<1>2. /\ req.pc = "apply"
      /\ req' = IF req.left = {} THEN Rest ELSE [req EXCEPT !.pc = "restock", !.hand = {}]
      /\ UNCHANGED <<status, shipment, lines, units, corr, outstanding, deaths>>
  BY DEF ApplyCorrection
<1>3. /\ req \in Request /\ ~Idle
      /\ req.ship \in Finalised
      /\ req.left \subseteq On(req.ship) /\ req.left \subseteq Devices
  BY <1>2, ReqFacts DEF Restocking
<1>4. PICK s \in Returns, L \in SUBSET Devices : s = req.ship /\ L = req.left
  BY <1>3 DEF Request
<1>5. PICK d \in On(s) : req.hand = {d} /\ corr[s][d].change # "none"
  BY <1>1, <1>2, <1>4 DEF ReqOk
<1>6. d \in Devices
  BY DEF On
<1>7. PICK x : x = corr[s][d].change
  OBVIOUS
<1>8. x \in Changes
  <2>1. corr[s][d] \in Correction
    BY <1>1, <1>6 DEF TypeOK
  <2> QED
    BY <1>5, <1>7, <2>1 DEF Correction
<1>9. /\ identity' \in [Devices -> Changes \cup {"exported"}]
      /\ \A e \in Devices : e # d => identity'[e] = identity[e]
      /\ reported \subseteq reported' /\ reported' \subseteq Devices
      /\ regraded' = regraded \/ (x = "grade" /\ regraded' = regraded \cup {d})
      /\ identity'[d] = x \/ d \in reported'
  <2>1. \/ /\ \E matched \in BOOLEAN : WriteThrough(d, x, matched)
           /\ reported' \in {reported, reported \cup {d}}
        \/ reported' = reported \cup {d} /\ UNCHANGED <<identity, regraded>>
    BY <1>4, <1>5, <1>7 DEF ApplyCorrection
  <2>2. \A matched \in BOOLEAN : WriteThrough(d, x, matched) =>
          /\ identity' = [identity EXCEPT ![d] = x]
          /\ regraded' = regraded \/ (x = "grade" /\ regraded' = regraded \cup {d})
    BY DEF WriteThrough
  <2> QED
    BY <1>1, <1>6, <1>8, <2>1, <2>2 DEF TypeOK
<1>10. \/ req' = Rest
       \/ req' \in Request /\ req'.pc = "restock" /\ req'.ship = s /\ req'.left = L
  BY <1>2, <1>3, <1>4 DEF Request
<1>11. \A t \in Returns : units'[t] = units[t] /\ On(t)' = On(t)
  BY <1>2 DEF On
<1>12. /\ Finalised' = Finalised
       /\ CountedOver(Finalised)' = CountedOver(Finalised)
       /\ Owed' = Owed
       /\ NeverOverReturned'
  BY <1>1, <1>2, <1>11, LegsStand DEF Finalised
<1>13. TypeOK'
  BY <1>1, <1>2, <1>6, <1>9, <1>10 DEF TypeOK
<1>14. ReqOk'
  BY <1>2, <1>3, <1>4, <1>10, <1>11 DEF ReqOk, Idle, Rest, Receiving, Finalised
<1>15. DraftsOk'
  BY <1>1, <1>2, <1>11 DEF DraftsOk
<1>16. CorrectionsOk'
  BY <1>1, <1>2, <1>11, <1>12 DEF CorrectionsOk, Finalised
<1>17. OInv'
  BY <1>1, <1>2, <1>12, StillOnRecord
<1>18. CInv'
  <2>1. ASSUME NEW e \in Lost'
        PROVE  e \in Lost
    <3>1. /\ e \in Devices /\ status[e] = "ACTIVE_INVENTORY" /\ e \notin reported'
          /\ \A t \in Finalised : e \in On(t) => corr[t][e].change \notin {"none", identity'[e]}
      BY <1>2, <1>12, <2>1 DEF Lost, Unexplained, Says, On
    <3>2. e # d
      BY <1>3, <1>4, <1>7, <1>9, <3>1
    <3>3. e \notin Hand
      BY <1>5, <3>2 DEF Hand
    <3> QED
      BY <1>9, <3>1, <3>2, <3>3 DEF Lost, Unexplained, Says
  <2>2. Cardinality(Lost') <= deaths'
    BY <1>1, <1>2, <2>1, LostCount DEF TypeOK
  <2>3. Regrades'
    <3>1. ASSUME NEW e \in regraded'
          PROVE  \E t \in Finalised : e \in On(t) /\ corr[t][e].change = "grade"
      BY <1>1, <1>3, <1>4, <1>7, <1>9 DEF CInv, Regrades
    <3> QED
      BY <1>2, <1>12, <3>1 DEF Regrades, On
  <2> QED
    BY <2>2, <2>3 DEF CInv
<1> QED
  BY <1>12, <1>13, <1>14, <1>15, <1>16, <1>17, <1>18 DEF Inv, IInv

\* A worker that dies leaves its receipt, or its restocking, where it is.
LEMMA AbandonStep ==
  ASSUME Inv, Abandon
  PROVE  Inv'
<1>1. TypeOK /\ ReqOk /\ DraftsOk /\ CorrectionsOk /\ IInv /\ OInv /\ CInv
  BY DEF Inv, IInv
<1>2. /\ req' = Rest /\ ~Idle /\ deaths \in Nat /\ deaths' = deaths + 1
      /\ UNCHANGED <<status, shipment, lines, units, corr, outstanding, identity, regraded, reported>>
  BY <1>1 DEF Abandon, TypeOK, written
<1>3. \A t \in Returns : units'[t] = units[t] /\ On(t)' = On(t)
  BY <1>2 DEF On
<1>4. /\ Finalised' = Finalised
      /\ NeverOverReturned'
  BY <1>1, <1>2, <1>3, LegsStand DEF Finalised
<1>5. TypeOK'
  BY <1>1, <1>2 DEF TypeOK
<1>6. ReqOk'
  BY <1>2 DEF ReqOk, Idle, Rest, Receiving
<1>7. DraftsOk'
  BY <1>1, <1>2, <1>3 DEF DraftsOk
<1>8. CorrectionsOk'
  BY <1>1, <1>2, <1>3, <1>4 DEF CorrectionsOk, Finalised
<1>9. OInv'
  BY <1>2 DEF OInv
<1>10. CInv'
  <2>1. PICK d : Hand \subseteq {d}
    BY <1>1 DEF ReqOk, Hand
  <2>2. Lost' \subseteq Lost \cup {d}
    <3>1. Unexplained' = Unexplained
      BY <1>2, <1>4 DEF Unexplained, Says, On
    <3> QED
      BY <2>1, <3>1 DEF Lost
  <2>3. IsFiniteSet(Lost') /\ Cardinality(Lost') <= Cardinality(Lost) + 1
    <3>1. IsFiniteSet(Lost) /\ Cardinality(Lost) \in Nat
      BY <1>1, LostCount
    <3>2. /\ IsFiniteSet(Lost \cup {d})
          /\ Cardinality(Lost \cup {d}) = IF d \in Lost THEN Cardinality(Lost) ELSE Cardinality(Lost) + 1
      BY <3>1, FS_AddElement
    <3>3. IsFiniteSet(Lost') /\ Cardinality(Lost') <= Cardinality(Lost \cup {d})
      BY <2>2, <3>2, FS_Subset
    <3>4. Cardinality(Lost') \in Nat
      BY <3>3, FS_CardinalityType
    <3> QED
      BY <3>1, <3>2, <3>3, <3>4
  <2>4. Cardinality(Lost') \in Nat /\ Cardinality(Lost) \in Nat /\ Cardinality(Lost) <= deaths
    BY <1>1, <2>3, LostCount, FS_CardinalityType DEF CInv
  <2>5. Cardinality(Lost') <= deaths'
    BY <1>2, <2>3, <2>4
  <2>6. Regrades'
    BY <1>1, <1>2, <1>4 DEF CInv, Regrades, On
  <2> QED
    BY <2>5, <2>6 DEF CInv
<1> QED
  BY <1>4, <1>5, <1>6, <1>7, <1>8, <1>9, <1>10 DEF Inv, IInv

-----------------------------------------------------------------------------

\* The invariant holds when the export has been finalised.
LEMMA InitOk == Init => Inv
<1> SUFFICES ASSUME Init
             PROVE  Inv
  OBVIOUS
<1>1. Uncorrected \in Correction /\ "EXPORTED_UNDER_OPR" \in DEVICE_STATUSES
  BY DEF Uncorrected, Correction, DEVICE_STATUSES
<1>2. TypeOK
  BY <1>1 DEF Init, TypeOK
<1>3. Finalised = {} /\ \A s \in Returns : On(s) = {}
  BY DEF Init, Finalised, On
<1>4. CountedOver(Finalised) = 0
  <2>1. UNION { Pieces(s) : s \in Finalised } = {}
    BY <1>3
  <2> QED
    BY <2>1, FS_EmptySet DEF CountedOver
<1>5. NeverOverReturned
  BY <1>4, ExportIsFinite DEF NeverOverReturned
<1>6. ReqOk
  BY DEF Init, ReqOk, Idle, Rest, Receiving
<1>7. DraftsOk
  BY <1>3 DEF DraftsOk
<1>8. CorrectionsOk
  BY <1>3 DEF Init, CorrectionsOk, Uncorrected
<1>9. OInv
  BY <1>3 DEF Init, OInv
<1>10. CInv
  <2>1. Lost = {}
    BY DEF Init, Lost, Unexplained
  <2> QED
    BY <2>1, FS_EmptySet DEF Init, CInv, Regrades
<1> QED
  BY <1>2, <1>5, <1>6, <1>7, <1>8, <1>9, <1>10 DEF Inv, IInv

\* Every step keeps it.
LEMMA NextOk == Inv /\ [Next]_vars => Inv'
<1> SUFFICES ASSUME Inv, [Next]_vars
             PROVE  Inv'
  OBVIOUS
<1>1. CASE Next
  BY <1>1, AddLineStep, RemoveLineStep, SetUnitsStep, CorrectStep, FinaliseStep, DeclareStep,
     ReceiveStep, RestockStep, RestockDeviceStep, ApplyStep, AbandonStep DEF Next
<1>2. CASE UNCHANGED vars
  <2>1. \A t \in Returns : units'[t] = units[t] /\ On(t)' = On(t)
    BY <1>2 DEF vars, On
  <2>2. /\ Finalised' = Finalised
        /\ CountedOver(Finalised)' = CountedOver(Finalised)
        /\ Owed' = Owed
        /\ NeverOverReturned'
    BY <1>2, <2>1, LegsStand DEF vars, Inv, Finalised
  <2>3. TypeOK' /\ DraftsOk'
    BY <1>2, <2>1 DEF vars, Inv, IInv, TypeOK, DraftsOk
  <2>4. ReqOk'
    <3>1. (UNCHANGED <<Exported, Idle>>) /\ \A s : On(s)' = On(s)
      BY <1>2 DEF vars, Exported, Idle, On
    <3> QED
      BY <1>2, <2>2, <3>1 DEF vars, Inv, IInv, ReqOk
  <2>5. CorrectionsOk'
    BY <1>2, <2>1, <2>2 DEF vars, Inv, IInv, CorrectionsOk, Finalised
  <2>7. CInv'
    <3>1. Lost' = Lost /\ deaths' = deaths
      BY <1>2, <2>2 DEF vars, Lost, Unexplained, Says, Hand, On
    <3>2. Regrades'
      BY <1>2, <2>2 DEF vars, Inv, CInv, Regrades, On
    <3> QED
      BY <3>1, <3>2 DEF Inv, CInv
  <2>6. OInv'
    BY <1>2, <2>2 DEF vars, Inv, OInv
  <2> QED
    BY <2>2, <2>3, <2>4, <2>5, <2>6, <2>7 DEF Inv, IInv
<1> QED
  BY <1>1, <1>2

\* What is received, declared and corrected agrees at every step (routes/opr.ts).
THEOREM ReturnInductive == Spec => []Inv
BY InitOk, NextOk, PTL DEF Spec

\* The rows and the locals of the request have their types.
THEOREM ReturnTypes == Spec => []TypeOK
<1>1. Inv => TypeOK
  BY DEF Inv, IInv
<1> QED
  BY <1>1, ReturnInductive, PTL

\* The legs received never return more than the export declared (IMP_RETURN_BALANCE),
\* whoever dies and however the units are declared.
THEOREM NeverTooMany == Spec => []NeverOverReturned
<1>1. Inv => NeverOverReturned
  BY DEF Inv, IInv
<1> QED
  BY <1>1, ReturnInductive, PTL

\* A device on a return that is being built can be received (addDeviceToShipment), also
\* after a receipt that a dead worker left half done.
THEOREM DraftsCanBeReceived == Spec => []DraftCanBeReceived
<1>1. Inv => DraftCanBeReceived
  BY DEF Inv, IInv, DraftsOk, DraftCanBeReceived
<1> QED
  BY <1>1, ReturnInductive, PTL

\* While no worker dies, the least that was declared outstanding is what is owed
\* (partial_return_declarations, migration 0040).
THEOREM OutstandingIsOnRecord == Spec => []OutstandingOnRecord
<1>1. Inv => OutstandingOnRecord
  <2> SUFFICES ASSUME Inv, Idle, deaths = 0, Finalised # {}, Owed > 0
               PROVE  LET declared == { outstanding[s] : s \in { t \in Returns : outstanding[t] # 0 } }
                      IN  Owed \in declared /\ \A n \in declared : Owed <= n
    BY DEF OutstandingOnRecord, Owed
  <2>1. /\ \A s \in Returns : outstanding[s] # 0 => Owed <= outstanding[s]
        /\ \E s \in Returns : outstanding[s] = Owed
    BY DEF Inv, OInv, Idle, Rest
  <2>2. Owed # 0
    OBVIOUS
  <2> QED
    BY <2>1, <2>2
<1> QED
  BY <1>1, ReturnInductive, PTL

\* No leg with a changed IMEI is received; a restocked device has what its return
\* corrected, or is reported, but for one device per dead worker; and a grade is
\* rewritten only where it was corrected (applyReturnCorrectionAtRestock).
THEOREM CorrectionsApplied == Spec => []CorrectionApplied
<1>1. Inv => CorrectionApplied
  <2> SUFFICES ASSUME Inv
               PROVE  CorrectionApplied
    OBVIOUS
  <2>1. \A s \in Finalised : \A d \in On(s) : corr[s][d].change # "imei"
    BY DEF Inv, IInv, CorrectionsOk
  <2>2. \A d \in regraded : \E s \in Finalised : d \in On(s) /\ corr[s][d].change = "grade"
    BY DEF Inv, CInv, Regrades
  <2>3. Idle => Lost = Unexplained
    BY DEF Idle, Rest, Lost, Hand
  <2>4. Idle => Cardinality(Unexplained) <= deaths
    BY <2>3 DEF Inv, CInv
  <2> QED
    BY <2>1, <2>2, <2>4 DEF CorrectionApplied
<1> QED
  BY <1>1, ReturnInductive, PTL
=============================================================================
