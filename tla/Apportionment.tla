---------------------------- MODULE Apportionment ----------------------------
(***************************************************************************)
(* Freight and customs charges shared out over the devices of a            *)
(* consignment by value: lib/freightApportionment.ts and                   *)
(* lib/customsApportionment.ts, two copies of one largest-remainder        *)
(* method.  Amounts are whole pence; the floating-point shares of the code *)
(* are exact fractions here.                                               *)
(***************************************************************************)
EXTENDS Integers, FiniteSets, FiniteSetsExt

Total(f) == MapThenSumSet(LAMBDA d : f[d], DOMAIN f)

\* The exact share of d is Exact(price, d, total) / Total(price) pence.
Exact(price, d, total) == price[d] * total

Floored(price, d, total)   == Exact(price, d, total) \div Total(price)
Remainder(price, d, total) == Exact(price, d, total) % Total(price)

\* The order in which the leftover pence are handed out.
Precedes(price, total, d, e) ==
  LET rd == Remainder(price, d, total)
      re == Remainder(price, e, total)
  IN  \/ rd > re
      \/ rd = re /\ price[d] > price[e]
      \/ rd = re /\ price[d] = price[e] /\ d < e

\* Mutant: shares are rounded down and the leftover is dropped.
LargestRemainder_Floors(price, total) ==
  [d \in DOMAIN price |-> Floored(price, d, total)]

LargestRemainder(price, total) ==
  LET leftover == total - MapThenSumSet(LAMBDA d : Floored(price, d, total), DOMAIN price)
      ahead(d) == { e \in DOMAIN price : Precedes(price, total, e, d) }
  IN  [d \in DOMAIN price |->
         Floored(price, d, total) + (IF Cardinality(ahead(d)) < leftover THEN 1 ELSE 0)]

Held == [ok |-> FALSE, shares |-> <<>>]

\* members is the consignment, price a function on the devices priced so far:
\* the charge is held until every member is priced.
Apportion(members, price, total) ==
  IF members = {} \/ total < 0 \/ ~(members \subseteq DOMAIN price) \/ Total(price) <= 0
    THEN Held
    ELSE [ok |-> TRUE, shares |-> LargestRemainder(price, total)]

apportionFreightByValue(members, price, total) == Apportion(members, price, total)
apportionCustomsByValue(members, price, total) == Apportion(members, price, total)

-----------------------------------------------------------------------------

\* What an apportionment promises: the shares of the charge add up to it to the
\* penny, none is a penny or more away from its exact value, and of two devices
\* the dearer never carries less.
Fair(price, total, shares) ==
  /\ Total(shares) = total
  /\ \A d \in DOMAIN price :
       /\ shares[d] * Total(price) < Exact(price, d, total) + Total(price)
       /\ shares[d] * Total(price) > Exact(price, d, total) - Total(price)
  /\ \A d, e \in DOMAIN price : price[d] > price[e] => shares[d] >= shares[e]
=============================================================================
