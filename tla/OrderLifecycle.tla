--------------------------- MODULE OrderLifecycle ---------------------------
(***************************************************************************)
(* An order from the moment checkout_cart has committed it: the payment    *)
(* link made for it (core/commerce_flow.py, payments.py), Razorpay's       *)
(* payment webhooks (core/main.py, core/commerce_flow.py) and the          *)
(* merchant's "fulfill" button (portal/orders.py).                         *)
(*                                                                         *)
(* A handler execution is a worker.  Each of its SQL statements, each call *)
(* of the gateway and its closing WhatsApp send is a step of its own, so   *)
(* handlers interleave as they do between the processes of a deployment;   *)
(* with one worker the model is one process serving one request at a time. *)
(* A worker may die between any two steps.                                 *)
(*                                                                         *)
(* Razorpay is modelled by what payments.py and the handlers rely on: a    *)
(* link is payable until it is paid or expires, and each payment, expiry   *)
(* or failed attempt gives an event that is delivered in any order,        *)
(* arbitrarily late and more than once.  A payment's event is repeated     *)
(* until a 200 gets through to Razorpay and may stop there; of the others  *)
(* nothing is promised, neither that they come nor that they stop.         *)
(***************************************************************************)
EXTENDS OrderRows, FiniteSets

CONSTANTS Orders,           \* the orders ever placed
          NoOrder,          \* what an idle worker works on
          Workers,          \* handler executions that may run at the same time
          MaxShipments,     \* bound: no fulfil click once an order shipped this often
          MaxCrashes,       \* bound on worker crashes
          GatewayMayFail    \* whether create_payment_link may raise

ASSUME LifecycleAssumption ==
  /\ NoOrder \notin Orders
  /\ MaxShipments \in Nat
  /\ MaxCrashes \in Nat
  /\ GatewayMayFail \in BOOLEAN

VARIABLES rows,        \* the orders table
          gateway,       \* gateway[o][l]: Razorpay's state of link l of order o
          stored,        \* stored[o]: links that were ever written to o's row
          events,        \* webhook events Razorpay may still deliver
          worker,        \* the handler executions
          confirmed,     \* confirmed[o]: "payment received" messages sent (history)
          shipments,     \* shipments[o]: moves to "fulfilled" (history)
          crashes        \* crashes so far

vars == <<rows, gateway, stored, events, worker, confirmed, shipments, crashes>>

LinkStates == {"none", "open", "paid", "expired"}

Events == [kind : {"paid", "expired", "failed"}, order : Orders, link : Links]

(* pc: the next thing the handler does.  link: the link it has made        *)
(* (checkout, expired), the one its snapshot of the order holds (failed),  *)
(* or the one its event says was paid (paid).                              *)
Handlers == [kind  : {"idle", "checkout", "paid", "expired", "failed", "fulfil"},
             pc    : {"idle", "mark", "create", "store", "send"},
             order : Orders \cup {NoOrder},
             link  : Links \cup {NoLink}]

IdleHandler == [kind |-> "idle", pc |-> "idle", order |-> NoOrder, link |-> NoLink]

Idle(w) == worker[w].pc = "idle"
Goto(w, pc) == worker' = [worker EXCEPT ![w].pc = pc]
Finish(w) == worker' = [worker EXCEPT ![w] = IdleHandler]

Unmade(o) == {l \in Links : gateway[o][l] = "none"}
Payable(o) == {l \in Links : gateway[o][l] = "open"}
Captured(o) == {l \in Links : gateway[o][l] = "paid"}
Shipped(o) == shipments[o] > 0

Init ==
  /\ rows = [o \in Orders |-> NoRow]
  /\ gateway = [o \in Orders |-> [l \in Links |-> "none"]]
  /\ stored = [o \in Orders |-> {}]
  /\ events = {}
  /\ worker = [w \in Workers |-> IdleHandler]
  /\ confirmed = [o \in Orders |-> 0]
  /\ shipments = [o \in Orders |-> 0]
  /\ crashes = 0

-----------------------------------------------------------------------------
(* What starts a handler.                                                  *)

(* _complete_checkout_from_cart up to checkout_cart's commit; module       *)
(* Checkout models that transaction statement by statement.                *)
PlaceOrder(w, o) ==
  /\ Idle(w)
  /\ rows[o] = NoRow
  /\ rows' = [rows EXCEPT ![o] = InsertedRow]
  /\ worker' = [worker EXCEPT ![w] =
       [kind |-> "checkout", pc |-> "create", order |-> o, link |-> NoLink]]
  /\ UNCHANGED <<gateway, stored, events, confirmed, shipments, crashes>>

(* receive_payment_webhook for a genuine event, up to the get_order that   *)
(* handle_payment_success and handle_payment_failure open with; only the   *)
(* failure handler uses the snapshot's link.  The event stays in events    *)
(* while it is handled: Razorpay may deliver it again.                     *)
HandlerOf(e) ==
  [kind |-> e.kind, pc |-> "mark", order |-> e.order,
   link |-> CASE e.kind = "paid" -> e.link
              [] e.kind = "failed" -> rows[e.order].link
              [] e.kind = "expired" -> NoLink]

Deliver(w, e) ==
  /\ Idle(w)
  /\ e \in events
  /\ Exists(rows[e.order])
  /\ worker' = [worker EXCEPT ![w] = HandlerOf(e)]
  /\ UNCHANGED <<rows, gateway, stored, events, confirmed, shipments, crashes>>

(* order_fulfill: the route does not look at the status, and the page with *)
(* the button may be old.                                                  *)
ClickFulfil(w, o) ==
  /\ Idle(w)
  /\ Exists(rows[o])
  /\ shipments[o] < MaxShipments
  /\ worker' = [worker EXCEPT ![w] =
       [kind |-> "fulfil", pc |-> "mark", order |-> o, link |-> NoLink]]
  /\ UNCHANGED <<rows, gateway, stored, events, confirmed, shipments, crashes>>

-----------------------------------------------------------------------------
(* What a handler does, statement by statement.                            *)

(* A webhook request that ran to its end is answered with a 200.  It gets  *)
(* through and Razorpay stops repeating a payment's event, or it is lost.  *)
Answer(w) ==
  IF worker[w].kind = "paid"
    THEN LET e == [kind |-> "paid", order |-> worker[w].order, link |-> worker[w].link]
         IN events' \in {events, events \ {e}}
    ELSE UNCHANGED events

DoMarkPaid(w) ==
  LET o == worker[w].order IN
  /\ worker[w].kind = "paid" /\ worker[w].pc = "mark"
  /\ IF CanMarkPaid(rows[o])
       THEN /\ rows' = [rows EXCEPT ![o] = MarkPaid(@, worker[w].link)]
            /\ Goto(w, "send")
            /\ UNCHANGED events
       ELSE /\ Finish(w)
            /\ Answer(w)
            /\ UNCHANGED rows
  /\ UNCHANGED <<gateway, stored, confirmed, shipments, crashes>>

DoMarkFailed(w) ==
  LET o == worker[w].order IN
  /\ worker[w].kind \in {"failed", "expired"} /\ worker[w].pc = "mark"
  /\ IF CanMarkFailed(rows[o])
       THEN /\ rows' = [rows EXCEPT ![o] = MarkFailed(@)]
            /\ Goto(w, IF worker[w].kind = "expired" THEN "create" ELSE "send")
       ELSE /\ Finish(w)
            /\ UNCHANGED rows
  /\ UNCHANGED <<gateway, stored, events, confirmed, shipments, crashes>>

DoMarkFulfilled(w) ==
  LET o == worker[w].order IN
  /\ worker[w].kind = "fulfil" /\ worker[w].pc = "mark"
  /\ IF CanMarkFulfilled(rows[o])
       THEN /\ rows' = [rows EXCEPT ![o] = MarkFulfilled(@)]
            /\ shipments' = [shipments EXCEPT ![o] = @ + 1]
            /\ Goto(w, "send")
       ELSE /\ Finish(w)
            /\ UNCHANGED <<rows, shipments>>
  /\ UNCHANGED <<gateway, stored, events, confirmed, crashes>>

(* payments.create_payment_link returns.                                   *)
CreateLink(w) ==
  LET o == worker[w].order IN
  /\ worker[w].pc = "create"
  /\ \E l \in Unmade(o) :
       /\ \A k \in Unmade(o) : l <= k
       /\ gateway' = [gateway EXCEPT ![o][l] = "open"]
       /\ worker' = [worker EXCEPT ![w].pc = "store", ![w].link = l]
  /\ UNCHANGED <<rows, stored, events, confirmed, shipments, crashes>>

(* create_payment_link raises: PaymentGatewayNotConfigured, or any error   *)
(* of the Razorpay client.  The handler swallows it and only words its     *)
(* message differently.  When the answer is lost the link exists all the   *)
(* same and nobody has its address.  The gateway also refuses a link over  *)
(* the bound MaxLinks.                                                     *)
LinkRefused(w) ==
  LET o == worker[w].order IN
  /\ worker[w].pc = "create"
  /\ GatewayMayFail \/ Unmade(o) = {}
  /\ Goto(w, "send")
  /\ \/ UNCHANGED gateway
     \/ \E l \in Unmade(o) :
          /\ \A k \in Unmade(o) : l <= k
          /\ gateway' = [gateway EXCEPT ![o][l] = "open"]
  /\ UNCHANGED <<rows, stored, events, confirmed, shipments, crashes>>

(* update_order_payment_link.  From here on the customer can be shown the  *)
(* link: by this handler's message, a retry, or a nudge.                   *)
DoStoreLink(w) ==
  LET o == worker[w].order
      l == worker[w].link IN
  /\ worker[w].pc = "store"
  /\ rows' = [rows EXCEPT ![o] = StoreLink(@, l)]
  /\ stored' = [stored EXCEPT ![o] = @ \cup {l}]
  /\ Goto(w, "send")
  /\ UNCHANGED <<gateway, events, confirmed, shipments, crashes>>

(* wa.send_text, which never raises, and the end of the handler.           *)
Send(w) ==
  LET o == worker[w].order IN
  /\ worker[w].pc = "send"
  /\ confirmed' = IF worker[w].kind = "paid"
                    THEN [confirmed EXCEPT ![o] = @ + 1] ELSE confirmed
  /\ Finish(w)
  /\ Answer(w)
  /\ UNCHANGED <<rows, gateway, stored, shipments, crashes>>

(* The process dies, or a statement raises and the request ends in a 500:  *)
(* no 200 goes out.                                                        *)
Crash(w) ==
  /\ ~Idle(w)
  /\ crashes < MaxCrashes
  /\ crashes' = crashes + 1
  /\ Finish(w)
  /\ UNCHANGED <<rows, gateway, stored, events, confirmed, shipments>>

-----------------------------------------------------------------------------
(* Razorpay and the customer.                                              *)

Emit(kind, o, l) == events' = events \cup {[kind |-> kind, order |-> o, link |-> l]}

(* An attempt on an open link fails: the link stays payable.               *)
AttemptFails(o, l) ==
  /\ gateway[o][l] = "open"
  /\ l \in stored[o]
  /\ Emit("failed", o, l)
  /\ UNCHANGED <<rows, gateway, stored, worker, confirmed, shipments, crashes>>

Pay(o, l) ==
  /\ gateway[o][l] = "open"
  /\ l \in stored[o]
  /\ gateway' = [gateway EXCEPT ![o][l] = "paid"]
  /\ Emit("paid", o, l)
  /\ UNCHANGED <<rows, stored, worker, confirmed, shipments, crashes>>

(* A link lives for days and the statement that stores it follows at once: *)
(* it does not expire in between.                                          *)
BeingStored(o, l) ==
  \E w \in Workers : worker[w].pc = "store" /\ worker[w].order = o /\ worker[w].link = l

Expire(o, l) ==
  /\ gateway[o][l] = "open"
  /\ ~BeingStored(o, l)
  /\ gateway' = [gateway EXCEPT ![o][l] = "expired"]
  /\ Emit("expired", o, l)
  /\ UNCHANGED <<rows, stored, worker, confirmed, shipments, crashes>>

-----------------------------------------------------------------------------
Step(w) ==
  \/ DoMarkPaid(w) \/ DoMarkFailed(w) \/ DoMarkFulfilled(w)
  \/ CreateLink(w) \/ LinkRefused(w) \/ DoStoreLink(w) \/ Send(w)

Next ==
  \/ \E w \in Workers :
       \/ \E o \in Orders : PlaceOrder(w, o) \/ ClickFulfil(w, o)
       \/ \E e \in Events : Deliver(w, e)
       \/ Step(w)
       \/ Crash(w)
  \/ \E o \in Orders, l \in Links : AttemptFails(o, l) \/ Pay(o, l) \/ Expire(o, l)

Spec == Init /\ [][Next]_vars

(* A handler that has started runs on, and Razorpay repeats a payment's    *)
(* event until it has a 200 for it: as long as it has none, some handler   *)
(* takes the event up however often all workers happen to be busy.         *)
Fairness ==
  /\ \A w \in Workers : WF_vars(Step(w))
  /\ \A o \in Orders, l \in Links :
       SF_vars(\E w \in Workers :
                 Deliver(w, [kind |-> "paid", order |-> o, link |-> l]))

FairSpec == Spec /\ Fairness

-----------------------------------------------------------------------------
(* Properties.                                                             *)

TypeOK ==
  /\ rows \in [Orders -> Rows]
  /\ gateway \in [Orders -> [Links -> LinkStates]]
  /\ stored \in [Orders -> SUBSET Links]
  /\ events \in SUBSET Events
  /\ worker \in [Workers -> Handlers]
  /\ confirmed \in [Orders -> Nat]
  /\ shipments \in [Orders -> Nat]
  /\ crashes \in 0 .. MaxCrashes

(* The merchant never ships, and an order never counts as revenue, unless  *)
(* Razorpay took money for it: whatever order events, clicks and crashes   *)
(* come in, "paid" and "fulfilled" are reached only through a capture.     *)
PaidMeansCaptured ==
  \A o \in Orders : rows[o].status \in {"paid", "fulfilled"} => Captured(o) # {}

(* Until its first shipment an order has at most one link that can still   *)
(* take the customer's money or already took it: redelivered, late or      *)
(* racing expiry events never make the shop ask for payment twice.         *)
OneChargePerOrder ==
  \A o \in Orders : ~Shipped(o) =>
    \A k, l \in Payable(o) \cup Captured(o) : k = l

(* The confirmation is sent once, however often the paid event comes in    *)
(* and however its handlers interleave; a shipment is the only thing after *)
(* which the same event can count as a new one.                            *)
ConfirmedOncePerShipment ==
  \A o \in Orders : confirmed[o] <= 1 + shipments[o]

(* A paid order not yet shipped keeps the id of the payment that paid for  *)
(* it: no link stored late overwrites it.                                  *)
ReceiptKept ==
  \A o \in Orders : rows[o].status = "paid" /\ ~Shipped(o) =>
    /\ rows[o].ref.kind = "pay"
    /\ rows[o].ref.link \in Captured(o)

(* A late or out-of-order failure event never takes "paid" away; the only  *)
(* way on from there is the merchant's.                                    *)
PaidIsOnlyFulfilled ==
  [][\A o \in Orders :
       rows[o].status = "paid" => rows'[o].status \in {"paid", "fulfilled"}]_vars

(* Money that Razorpay took is recorded: the order becomes paid, also when *)
(* it had failed before, handlers crashed before the statement, answers    *)
(* were lost and events overtook one another, and Razorpay never stops     *)
(* before it is.  Recorded at least once, not for good: a failure event    *)
(* that comes after the shipment takes the order back to "failed"          *)
(* (NoDowngradeAfterPayment below), and nothing need bring it out of that  *)
(* again.                                                                  *)
CaptureIsRecorded ==
  \A o \in Orders :
    Captured(o) # {} ~> rows[o].status \in {"paid", "fulfilled"} \/ Shipped(o)

(* All of this together, seen from outside: however its handlers           *)
(* interleave and fail, the service keeps the contract.  Nothing is        *)
(* shipped, confirmed or counted as paid before the gateway took the       *)
(* money, and no second payment is taken before the first shipment.        *)
Contract == INSTANCE OrderContract WITH
  Receipts  <- Links,
  placed    <- {o \in Orders : Exists(rows[o])},
  receipts  <- [o \in Orders |-> Captured(o)],
  recorded  <- {o \in Orders : rows[o].status \in {"paid", "fulfilled"}},
  confirmed <- {o \in Orders : confirmed[o] > 0},
  shipped   <- {o \in Orders : Shipped(o)}
ContractSpec == Contract!Spec

-----------------------------------------------------------------------------
(* What comments of the repository claim and the code does not do.         *)

(* repository.py, mark_order_paid: "a duplicate delivery never             *)
(* double-sends" the confirmation.                                         *)
ConfirmedOnce == \A o \in Orders : confirmed[o] <= 1

(* repository.py, mark_order_failed: a late failure event "can never       *)
(* downgrade an order that a different webhook delivery already marked     *)
(* paid"; a fulfilled order is one.                                        *)
NoDowngradeAfterPayment ==
  [][\A o \in Orders : rows[o].status = "fulfilled" => rows'[o].status # "failed"]_vars

(* commerce_flow.py, handle_payment_failure: on an expiry event "the link  *)
(* itself is no longer payable, so a fresh one is generated".  Handling    *)
(* one to its end leaves the customer of an unpaid order a live link.      *)
DropsExpiry(w) ==
  worker[w].kind = "expired" /\ worker[w].pc = "mark" /\ worker'[w].pc = "idle"

ExpiryGetsFreshLink ==
  [][\A w \in Workers : DropsExpiry(w) =>
       Payable(worker[w].order) \cup Captured(worker[w].order) # {}]_vars
=============================================================================
