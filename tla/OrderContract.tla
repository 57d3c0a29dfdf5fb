---------------------------- MODULE OrderContract ----------------------------
(***************************************************************************)
(* What the customer, the merchant and the bank may rely on about an       *)
(* order, whatever webhooks, clicks and crashes happen inside the service: *)
(* money is taken for an order that was placed, once until it ships;       *)
(* nothing counts as paid, is confirmed or ships before money was taken.   *)
(* Module OrderLifecycle implements it.                                    *)
(***************************************************************************)
CONSTANTS Orders,
          Receipts     \* the payments that may ever be made for an order

VARIABLES placed,      \* orders in the shop's books
          receipts,    \* receipts[o]: payments the gateway took for o
          recorded,    \* orders the shop counts as paid for
          confirmed,   \* orders whose customer was told the payment arrived
          shipped      \* orders the merchant has sent out

vars == <<placed, receipts, recorded, confirmed, shipped>>

Init ==
  /\ placed = {}
  /\ receipts = [o \in Orders |-> {}]
  /\ recorded = {}
  /\ confirmed = {}
  /\ shipped = {}

Place(o) ==
  /\ placed' = placed \cup {o}
  /\ UNCHANGED <<receipts, recorded, confirmed, shipped>>

(* An order that has shipped may be charged again: a late failure event    *)
(* then makes the shop ask for the money once more.                        *)
Charge(o, r) ==
  /\ o \in placed
  /\ receipts[o] = {} \/ o \in shipped
  /\ receipts' = [receipts EXCEPT ![o] = @ \cup {r}]
  /\ UNCHANGED <<placed, recorded, confirmed, shipped>>

Record(o) ==
  /\ receipts[o] # {}
  /\ recorded' = recorded \cup {o}
  /\ UNCHANGED <<placed, receipts, confirmed, shipped>>

Confirm(o) ==
  /\ receipts[o] # {}
  /\ confirmed' = confirmed \cup {o}
  /\ UNCHANGED <<placed, receipts, recorded, shipped>>

Ship(o) ==
  /\ o \in recorded
  /\ shipped' = shipped \cup {o}
  /\ UNCHANGED <<placed, receipts, recorded, confirmed>>

(* The books forget a payment only once the goods are out.                 *)
Lapse(o) ==
  /\ o \in shipped
  /\ recorded' = recorded \ {o}
  /\ UNCHANGED <<placed, receipts, confirmed, shipped>>

Next == \E o \in Orders :
  \/ Place(o) \/ Record(o) \/ Confirm(o) \/ Ship(o) \/ Lapse(o)
  \/ \E r \in Receipts : Charge(o, r)

Spec == Init /\ [][Next]_vars
=============================================================================
