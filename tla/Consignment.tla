----------------------------- MODULE Consignment -----------------------------
(***************************************************************************)
(* What an export consignment promises: a device in stock is packed on one *)
(* draft consignment at most, may be unpacked or sold only before that     *)
(* consignment is finalised, and leaves the country with it afterwards.    *)
(***************************************************************************)
CONSTANTS Devices, Shipments

VARIABLES
  place,  \* where a device is: "stock", "sold", or the consignment it is packed on
  final,  \* the consignments that are finalised
  gone    \* the devices that have left the country

vars == <<place, final, gone>>

Init ==
  /\ place = [d \in Devices |-> "stock"]
  /\ final = {}
  /\ gone  = {}

Pack(d, s) ==
  /\ place[d] = "stock"
  /\ s \notin final
  /\ place' = [place EXCEPT ![d] = s]
  /\ UNCHANGED <<final, gone>>

Unpack(d) ==
  /\ place[d] \in Shipments \ final
  /\ place' = [place EXCEPT ![d] = "stock"]
  /\ UNCHANGED <<final, gone>>

Sell(d) ==
  /\ place[d] = "stock"
  /\ place' = [place EXCEPT ![d] = "sold"]
  /\ UNCHANGED <<final, gone>>

Finalise(s) ==
  /\ s \notin final
  /\ \E d \in Devices : place[d] = s
  /\ final' = final \cup {s}
  /\ UNCHANGED <<place, gone>>

Depart(d) ==
  /\ place[d] \in final
  /\ gone' = gone \cup {d}
  /\ UNCHANGED <<place, final>>

Next ==
  \/ \E d \in Devices : Unpack(d) \/ Sell(d) \/ Depart(d)
  \/ \E s \in Shipments : Finalise(s) \/ \E d \in Devices : Pack(d, s)

Spec == Init /\ [][Next]_vars
=============================================================================
