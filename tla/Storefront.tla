----------------------------- MODULE Storefront -----------------------------
(***************************************************************************)
(* One customer's conversation with the bot: the message lock of           *)
(* core/main.py, the session store of core/history.py and the state        *)
(* machine of core/commerce_flow.py.                                       *)
(*                                                                         *)
(* The service is one process (railway.toml): a handler runs without       *)
(* interruption up to its first awaited send, and others run while it      *)
(* waits.  Everything before that await is one step, except that the       *)
(* process may die, or the database fail, between clearing the session and *)
(* creating the order.  Several sends in a row are one wait.               *)
(*                                                                         *)
(* The customer may tap any button of any old message at any time, and     *)
(* WhatsApp may deliver a message again.  Stock, coupons and the catalog   *)
(* are whatever they happen to be at the moment they are looked up.        *)
(***************************************************************************)
EXTENDS Naturals, FiniteSets

CONSTANTS Products, NoProduct,
          Workers,        \* webhook deliveries that may be under way at the same time
          MaxAdds,        \* bound on units of a product the customer adds in all
          MaxExpiries,    \* bound on locks expiring while their handler still waits
          MaxCrashes      \* bound on crashes of the process

ASSUME StorefrontAssumption ==
  /\ NoProduct \notin Products
  /\ MaxAdds \in Nat /\ MaxExpiries \in Nat /\ MaxCrashes \in Nat

VARIABLES redis,      \* whether sessions and locks are in Redis, or in the process
          session,    \* the (tenant, phone) session, as sessions.get returns it
          lock,       \* whether the (tenant, phone) message lock is held
          worker,     \* the deliveries being handled
          known,      \* whether the customers table has the customer's name
          added,      \* added[p]: units of p ever put in a cart (history)
          ordered,    \* ordered[p]: units of p ordered from carts (history)
          expiries, crashes

vars == <<redis, session, lock, worker, known, added, ordered, expiries, crashes>>

States == {"IDLE", "SHOP_LIST", "PRODUCT_DETAIL", "POST_ADD", "CART", "APPLY_COUPON",
           "COLLECT_NAME", "ORDER_LIST", "ORDER_DETAIL"}

Carts == [Products -> 0 .. MaxAdds]
EmptyCart == [p \in Products |-> 0]

(* The context's language, cart, product_id and coupon_code; shop_offset   *)
(* and order_id only choose what a message shows.                          *)
Sessions == [state : States, language : BOOLEAN, cart : Carts,
             product : Products \cup {NoProduct}, coupon : BOOLEAN]

NoSession == [state |-> "IDLE", language |-> FALSE, cart |-> EmptyCart,
              product |-> NoProduct, coupon |-> FALSE]
At(state) == [NoSession EXCEPT !.state = state, !.language = TRUE]

(* What the customer does: a text that is a greeting or another one, a tap *)
(* on a button or list row, or a native catalog order.                     *)
Buttons == {"greeting", "text", "language", "menu_shop", "menu_orders", "menu_other",
            "add_to_cart", "back_to_products", "view_cart", "continue_shopping",
            "checkout", "apply_coupon", "main_menu", "order", "native"}
Messages == [tap : Buttons, product : {NoProduct}] \cup [tap : {"product"}, product : Products]

(* What a handler has decided by its first await: the session it has       *)
(* written, the one it will write after the await (or Nothing), the cart   *)
(* it will check out.                                                      *)
Nothing == [NoSession EXCEPT !.state = "nothing"]

Now(s) == [now |-> s, later |-> Nothing, basket |-> EmptyCart]
Later(s, next) == [now |-> s, later |-> next, basket |-> EmptyCart]
Sell(cart) == [now |-> At("IDLE"), later |-> Nothing, basket |-> cart]

(* twin: the handler's order came from a native cart and exists.  read:    *)
(* the session a handler decided on that will write again (history).       *)
Handlers == [pc : {"idle", "sell", "send"}, later : Sessions \cup {Nothing},
             basket : Carts, twin : BOOLEAN, read : Sessions]

IdleHandler == [pc |-> "idle", later |-> Nothing, basket |-> EmptyCart,
                twin |-> FALSE, read |-> NoSession]

UnderWay == {w \in Workers : worker[w].pc # "idle"}

(* A handler about to create an order awaits nothing: it has the process.  *)
ProcessFree == \A w \in Workers : worker[w].pc # "sell"

Init ==
  /\ redis \in BOOLEAN
  /\ session = NoSession
  /\ lock = FALSE
  /\ worker = [w \in Workers |-> IdleHandler]
  /\ known \in BOOLEAN
  /\ added = EmptyCart
  /\ ordered = EmptyCart
  /\ expiries = 0
  /\ crashes = 0

-----------------------------------------------------------------------------
(* The state machine: what the handler of each state may decide on message *)
(* m, given session s.  A definition followed by a longer name             *)
(* (CheckoutKeepingCart, ...) is a way to get it wrong, for the runs to    *)
(* reject.                                                                 *)

Stay(s, state) == Now([s EXCEPT !.state = state])

(* _start_shop and _start_orders_list: without products or orders the      *)
(* session is written first, otherwise only once the list has been sent.   *)
Start(s, state) == {Now(At("IDLE")), Later(s, At(state))}

HandleIdle(s, m) ==
  CASE m.tap = "language" -> {Now(At("IDLE"))}
    [] m.tap # "language" /\ ~s.language -> {Now(NoSession)}
    [] m.tap = "menu_shop" /\ s.language -> Start(s, "SHOP_LIST")
    [] m.tap = "menu_orders" /\ s.language -> Start(s, "ORDER_LIST")
    [] OTHER -> {Now(At("IDLE"))}

HandleShopListWithCart(s, m) ==
  IF m.tap = "view_cart" THEN {Stay(s, "CART")} ELSE {Stay(s, "SHOP_LIST")}
HandleShopList(s, m) ==
  {Stay(s, "SHOP_LIST")} \cup
  {Now([s EXCEPT !.state = "PRODUCT_DETAIL", !.product = p]) :
     p \in {p \in Products : m.tap = "product" /\ m.product = p}}

(* A product may be gone, out of stock or short of what the cart asks for. *)
HandleProductDetail(s, m) ==
  CASE s.product = NoProduct -> {Now(At("IDLE"))}
    [] s.product # NoProduct /\ m.tap = "back_to_products" -> {Stay(s, "SHOP_LIST")}
    [] s.product # NoProduct /\ m.tap = "add_to_cart" ->
         {Stay(s, "SHOP_LIST"), Stay(s, "PRODUCT_DETAIL")} \cup
         {Stay([s EXCEPT !.cart[p] = @ + 1], "POST_ADD") :
            p \in {p \in Products : p = s.product /\ added[p] < MaxAdds}}
    [] OTHER -> {Stay(s, "PRODUCT_DETAIL")}

HandlePostAdd(s, m) ==
  CASE m.tap = "view_cart" -> {Stay(s, "CART")}
    [] m.tap = "continue_shopping" -> {Stay(s, "SHOP_LIST")}
    [] OTHER -> {Stay(s, "POST_ADD")}

(* _checkout clears the session before it creates the order.               *)
CheckoutKeepingCart(s) ==
  IF s.cart = EmptyCart THEN {Now(At("IDLE"))} ELSE {[Sell(s.cart) EXCEPT !.now = s]}
Checkout(s) ==
  IF s.cart = EmptyCart THEN {Now(At("IDLE"))} ELSE {Sell(s.cart)}

(* _start_checkout.                                                        *)
StartCheckout(s) ==
  IF s.cart = EmptyCart \/ known THEN Checkout(s)
  ELSE {Stay([s EXCEPT !.product = NoProduct], "COLLECT_NAME")}

HandleCart(s, m) ==
  CASE m.tap = "continue_shopping" -> {Stay(s, "SHOP_LIST")}
    [] m.tap = "apply_coupon" -> {Stay(s, "APPLY_COUPON")}
    [] m.tap = "checkout" -> StartCheckout(s)
    [] OTHER -> {Stay(s, "CART")}

(* An invalid code leaves the one applied before in place.                 *)
HandleApplyCouponMisspelt(s, m) == {Stay(s, "COUPON")}
HandleApplyCoupon(s, m) ==
  IF m.tap = "text" THEN {Stay(s, "CART"), Stay([s EXCEPT !.coupon = TRUE], "CART")}
  ELSE {Stay(s, "APPLY_COUPON")}

HandleCollectName(s, m) ==
  IF m.tap = "text" THEN Checkout(s) ELSE {Stay(s, "COLLECT_NAME")}

HandleOrderList(s, m) ==
  {Stay(s, "ORDER_LIST")} \cup
  (IF m.tap = "order" THEN {Stay(s, "ORDER_DETAIL")} ELSE {})

HandleOrderDetail(s, m) ==
  IF m.tap = "main_menu" THEN {Now(At("IDLE"))} ELSE {Stay(s, "ORDER_DETAIL")}

(* handle_incoming: greetings and main-menu buttons go to _handle_idle     *)
(* from every state.                                                       *)
Restarts == {"greeting", "menu_shop", "menu_orders", "menu_other"}

HandleIncoming(s, m) ==
  CASE m.tap \in Restarts \/ s.state = "IDLE" -> HandleIdle(s, m)
    [] m.tap \notin Restarts /\ s.state = "SHOP_LIST" -> HandleShopList(s, m)
    [] m.tap \notin Restarts /\ s.state = "PRODUCT_DETAIL" -> HandleProductDetail(s, m)
    [] m.tap \notin Restarts /\ s.state = "POST_ADD" -> HandlePostAdd(s, m)
    [] m.tap \notin Restarts /\ s.state = "CART" -> HandleCart(s, m)
    [] m.tap \notin Restarts /\ s.state = "APPLY_COUPON" -> HandleApplyCoupon(s, m)
    [] m.tap \notin Restarts /\ s.state = "COLLECT_NAME" -> HandleCollectName(s, m)
    [] m.tap \notin Restarts /\ s.state = "ORDER_LIST" -> HandleOrderList(s, m)
    [] m.tap \notin Restarts /\ s.state = "ORDER_DETAIL" -> HandleOrderDetail(s, m)

-----------------------------------------------------------------------------
(* Deliveries.                                                             *)

(* _acquire_message_lock; a delivery that finds the lock held is answered  *)
(* with a 200 and forgotten, which changes nothing.                        *)
AcquireAnyway == TRUE
Acquire == ~lock

Receive(w, m) ==
  /\ ProcessFree
  /\ worker[w].pc = "idle"
  /\ m.tap # "native"
  /\ Acquire
  /\ lock' = TRUE
  /\ \E outcome \in HandleIncoming(session, m) :
       /\ session' = outcome.now
       /\ worker' = [worker EXCEPT ![w] =
            [pc |-> IF outcome.basket = EmptyCart THEN "send" ELSE "sell",
             later |-> outcome.later, basket |-> outcome.basket,
             twin |-> FALSE,
             read |-> IF outcome.later = Nothing THEN NoSession ELSE session]]
       /\ added' = [p \in Products |->
            IF outcome.now.cart[p] > session.cart[p] THEN added[p] + 1 ELSE added[p]]
  /\ known' = (known \/ (session.state = "COLLECT_NAME" /\ m.tap = "text"))
  /\ UNCHANGED <<redis, ordered, expiries, crashes>>

(* handle_native_order: no session; the order is created at once, or       *)
(* nothing of the cart is available.  There is one native cart here: every *)
(* delivery is of the same "Send order".                                   *)
ReceiveNative(w) ==
  /\ ProcessFree
  /\ worker[w].pc = "idle"
  /\ Acquire
  /\ lock' = TRUE
  /\ \E created \in BOOLEAN :
       worker' = [worker EXCEPT ![w] =
         [IdleHandler EXCEPT !.pc = "send", !.twin = created]]
  /\ UNCHANGED <<redis, session, known, added, ordered, expiries, crashes>>

(* _complete_checkout_from_cart up to the send: checkout_cart drops what   *)
(* is not available any more.                                              *)
CreateOrder(w) ==
  /\ worker[w].pc = "sell"
  /\ \E available \in SUBSET Products :
       ordered' = [p \in Products |->
         IF p \in available THEN ordered[p] + worker[w].basket[p] ELSE ordered[p]]
  /\ worker' = [worker EXCEPT ![w].pc = "send", ![w].basket = EmptyCart]
  /\ UNCHANGED <<redis, session, lock, known, added, expiries, crashes>>

(* The awaited sends return; what is left to write is written, and the     *)
(* lock released, whoever holds it by now.                                 *)
SendReturns(w) ==
  /\ ProcessFree
  /\ worker[w].pc = "send"
  /\ session' = IF worker[w].later = Nothing THEN session ELSE worker[w].later
  /\ worker' = [worker EXCEPT ![w] = IdleHandler]
  /\ lock' = FALSE
  /\ UNCHANGED <<redis, known, added, ordered, expiries, crashes>>

(* The database fails during the checkout: `finally` releases the lock.    *)
CheckoutRaises(w) ==
  /\ worker[w].pc = "sell"
  /\ worker' = [worker EXCEPT ![w] = IdleHandler]
  /\ lock' = FALSE
  /\ UNCHANGED <<redis, session, known, added, ordered, expiries, crashes>>

(* The lock's 15 seconds are over, a send may take 30.                     *)
LockExpiresOnlyInUse ==
  /\ lock /\ UnderWay # {}
  /\ expiries < MaxExpiries
  /\ lock' = FALSE
  /\ expiries' = expiries + 1
  /\ UNCHANGED <<redis, session, worker, known, added, ordered, crashes>>
LockExpires ==
  /\ lock /\ ProcessFree
  /\ UnderWay # {} => expiries < MaxExpiries
  /\ lock' = FALSE
  /\ expiries' = IF UnderWay = {} THEN expiries ELSE expiries + 1
  /\ UNCHANGED <<redis, session, worker, known, added, ordered, crashes>>

(* Thirty minutes without a message.                                       *)
SessionTimesOut ==
  /\ ProcessFree
  /\ session' = NoSession
  /\ UNCHANGED <<redis, lock, worker, known, added, ordered, expiries, crashes>>

(* The process restarts: every delivery under way is lost.                 *)
Crash ==
  /\ crashes < MaxCrashes
  /\ crashes' = crashes + 1
  /\ worker' = [w \in Workers |-> IdleHandler]
  /\ IF redis THEN UNCHANGED <<session, lock>>
     ELSE session' = NoSession /\ lock' = FALSE
  /\ UNCHANGED <<redis, known, added, ordered, expiries>>

Next ==
  \/ \E w \in Workers :
       \/ \E m \in Messages : Receive(w, m)
       \/ ReceiveNative(w) \/ CreateOrder(w) \/ SendReturns(w) \/ CheckoutRaises(w)
  \/ LockExpires \/ SessionTimesOut \/ Crash

Spec == Init /\ [][Next]_vars

(* Sends return or time out, a running handler runs on, and time passes.   *)
FairSpec ==
  /\ Spec
  /\ \A w \in Workers : WF_vars(CreateOrder(w)) /\ WF_vars(SendReturns(w))
  /\ WF_vars(LockExpires)

-----------------------------------------------------------------------------
TypeOK ==
  /\ redis \in BOOLEAN
  /\ session \in Sessions
  /\ lock \in BOOLEAN
  /\ worker \in [Workers -> Handlers]
  /\ known \in BOOLEAN
  /\ added \in Carts
  /\ ordered \in Carts
  /\ expiries \in 0 .. MaxExpiries
  /\ crashes \in 0 .. MaxCrashes

(* Whatever old button is tapped in whatever order, and whoever writes the *)
(* session late, a state comes with the context its handler needs: no      *)
(* customer meets the "corrupted session" and "empty cart" branches, and a *)
(* coupon stays with the cart it was entered for.                          *)
ContextFits ==
  /\ session.state # "IDLE" => session.language
  /\ session.state = "PRODUCT_DETAIL" => session.product # NoProduct
  /\ session.state \in {"POST_ADD", "CART", "APPLY_COUPON", "COLLECT_NAME"}
       => session.cart # EmptyCart
  /\ session.coupon => session.cart # EmptyCart

(* _checkout: double taps, redeliveries, expired locks and crashes never   *)
(* charge the customer for more units than they added: a cart is sold at   *)
(* most once and a sold one never comes back.                              *)
SoldOnce ==
  \A p \in Products :
    /\ ordered[p] + session.cart[p] <= added[p]
    /\ \A w \in Workers : ordered[p] + session.cart[p] + worker[w].basket[p] <= added[p]

(* As long as no lock expires under a waiting handler, the session it will *)
(* overwrite after the wait is the one it decided on (or has timed out):   *)
(* nothing the customer did in between is undone.                          *)
LateWriteLosesNothing ==
  expiries = 0 =>
    \A w \in Workers :
      worker[w].later # Nothing => session \in {worker[w].read, NoSession}

(* A customer is never locked out for good, not even by a process that     *)
(* died holding the lock.                                                  *)
LockIsFreed == lock ~> ~lock

-----------------------------------------------------------------------------
(* What comments of the repository claim and the code does not do.         *)

(* main.py, _process_message: under the message lock "a redelivered order  *)
(* webhook can't race itself into creating two orders from the same cart". *)
NoTwinOrders == Cardinality({w \in Workers : worker[w].twin}) <= 1
=============================================================================
