------------------------------ MODULE OrderRows ------------------------------
(***************************************************************************)
(* One row of the orders table and the conditional UPDATEs that            *)
(* db/repository.py performs on it.  Every function of the repository that *)
(* changes an order is one SQL statement, so it is given here as a guard   *)
(* (the WHERE clause: which rows the statement matches) and an effect (the *)
(* SET clause).  The modules that EXTEND this one decide when the          *)
(* statements run and how they interleave.                                 *)
(*                                                                         *)
(* A payment link is the number of the link among those made for its       *)
(* order, 0 being SQL's NULL.  created_at, paid_at, payment_method, the    *)
(* language and the money columns are left out.                            *)
(***************************************************************************)
EXTENDS Naturals

CONSTANT MaxLinks   \* how many payment links the gateway will make for one order

ASSUME MaxLinksAssumption == MaxLinks \in Nat \ {0}

Links == 1 .. MaxLinks
NoLink == 0

Statuses == {"pending_payment", "paid", "failed", "fulfilled"}

(* payment_gateway_reference: nothing, a plink_xxx id or a pay_xxx id, the *)
(* last one naming the link the payment was made through.                  *)
References == [kind : {"null", "plink", "pay"}, link : Links \cup {NoLink}]
NoReference == [kind |-> "null", link |-> NoLink]

Rows == [status : Statuses \cup {"absent"},
         link   : Links \cup {NoLink},
         ref    : References,
         nudged : BOOLEAN]

NoRow == [status |-> "absent", link |-> NoLink, ref |-> NoReference, nudged |-> FALSE]

(* checkout_cart's INSERT INTO orders; schema.sql's defaults leave the     *)
(* link, the reference and nudge_sent_at NULL.                             *)
InsertedRow == [NoRow EXCEPT !.status = "pending_payment"]

Exists(row) == row.status # "absent"

-----------------------------------------------------------------------------
(* The statements.  A definition followed by a longer name in the same     *)
(* group (CanMarkPaidAlways, ...) is a way to get the statement wrong, for *)
(* the runs to reject.                                                     *)

(* mark_order_paid.                                                        *)
CanMarkPaidOnlyPending(row) == row.status = "pending_payment"
CanMarkPaidAlways(row) == Exists(row)
CanMarkPaid(row) == Exists(row) /\ row.status # "paid"

MarkPaidKeepsReference(row, l) == [row EXCEPT !.status = "paid"]
MarkPaid(row, l) ==
  [row EXCEPT !.status = "paid", !.ref = [kind |-> "pay", link |-> l]]

(* mark_order_failed.                                                      *)
CanMarkFailedOnlyOnce(row) == Exists(row) /\ row.status # "failed"
CanMarkFailedAgain(row) == Exists(row) /\ row.status # "paid"
CanMarkFailed(row) == Exists(row) /\ row.status \notin {"paid", "failed"}

MarkFailed(row) == [row EXCEPT !.status = "failed"]

(* mark_order_fulfilled.                                                   *)
CanMarkFulfilledAnyOpen(row) == Exists(row) /\ row.status # "fulfilled"
CanMarkFulfilled(row) == row.status = "paid"

MarkFulfilledMisspelt(row) == [row EXCEPT !.status = "fullfilled"]
MarkFulfilled(row) == [row EXCEPT !.status = "fulfilled"]

(* update_order_payment_link: no condition on the status, and both callers *)
(* pass the id of the link they made, so the COALESCE always takes it.     *)
StoreLink(row, l) ==
  [row EXCEPT !.link = l, !.ref = [kind |-> "plink", link |-> l]]

(* get_abandoned_orders' WHERE clause without its age condition, and       *)
(* mark_nudge_sent.                                                        *)
IsAbandoned(row) == row.status = "pending_payment" /\ ~row.nudged

CanClaimNudgeAlways(row) == Exists(row)
CanClaimNudge(row) == Exists(row) /\ ~row.nudged

ClaimNudgeInStatus(row) == [row EXCEPT !.status = "nudged"]
ClaimNudge(row) == [row EXCEPT !.nudged = TRUE]
=============================================================================
