-------------------------- MODULE StorefrontProofs --------------------------
(***************************************************************************)
(* Theorems about Storefront, for any products, deliveries, expiries and   *)
(* crashes.                                                                *)
(***************************************************************************)
EXTENDS Storefront, TLAPS

-----------------------------------------------------------------------------
(* The inductive invariant.                                                *)

(* A session that the handler of its state can work with.                  *)
Fits(s) ==
  /\ s.state # "IDLE" => s.language
  /\ s.state = "PRODUCT_DETAIL" => s.product # NoProduct
  /\ s.state \in {"POST_ADD", "CART", "APPLY_COUPON", "COLLECT_NAME"} => s.cart # EmptyCart
  /\ s.coupon => s.cart # EmptyCart

Lists == {At("SHOP_LIST"), At("ORDER_LIST")}

(* Only a handler that has the process holds a basket, and what is written *)
(* late is the beginning of a list.                                        *)
HandlerRight(w) ==
  /\ worker[w].pc # "sell" => worker[w].basket = EmptyCart
  /\ worker[w].pc # "send" => worker[w].later = Nothing
  /\ worker[w].later \in Lists \cup {Nothing}

OneSells == \A v, w \in Workers : worker[v].pc = "sell" /\ worker[w].pc = "sell" => v = w

(* The lock works as long as it outlasts what it guards.                   *)
LockKeepsApart ==
  expiries = 0 =>
    /\ \A w \in Workers : worker[w].pc # "idle" => lock
    /\ \A v, w \in Workers : worker[v].pc # "idle" /\ worker[w].pc # "idle" => v = w

IInv == /\ TypeOK /\ Fits(session) /\ SoldOnce
        /\ \A w \in Workers : HandlerRight(w)
        /\ OneSells /\ LockKeepsApart /\ LateWriteLosesNothing

-----------------------------------------------------------------------------
(* What the handlers may decide.                                           *)

(* The session written now fits its state, and its cart is the one of      *)
(* before, an empty one, or one with a unit more; or else the cart is sold *)
(* and no longer in the session.                                           *)
CartRight(s, o) ==
  \/ o.basket = EmptyCart /\ o.now.cart \in {s.cart, EmptyCart}
  \/ /\ o.basket = EmptyCart
     /\ \E p \in Products : added[p] < MaxAdds /\ o.now.cart = [s.cart EXCEPT ![p] = @ + 1]
  \/ o.basket = s.cart /\ s.cart # EmptyCart /\ o.now.cart = EmptyCart

OutcomeRight(s, o) ==
  /\ o.now \in Sessions /\ Fits(o.now)
  /\ o.later \in Lists \cup {Nothing}
  /\ o.later # Nothing => o.basket = EmptyCart /\ o.now = s
  /\ CartRight(s, o)

LEMMA EmptyCartType == EmptyCart \in Carts
BY StorefrontAssumption DEF EmptyCart, Carts

LEMMA AtFacts ==
  ASSUME NEW state \in States
  PROVE  /\ At(state) \in Sessions /\ At(state) # Nothing
         /\ At(state).state = state /\ At(state).language = TRUE
         /\ At(state).cart = EmptyCart /\ At(state).product = NoProduct
         /\ At(state).coupon = FALSE
BY EmptyCartType DEF At, NoSession, Sessions, States, Nothing

LEMMA NoSessionFacts ==
  /\ NoSession \in Sessions /\ Fits(NoSession) /\ NoSession.cart = EmptyCart
  /\ Nothing \notin Sessions
BY EmptyCartType DEF NoSession, Nothing, Sessions, States, Fits

LEMMA ListsFacts ==
  ASSUME NEW l \in Lists
  PROVE  l \in Sessions /\ l # Nothing /\ Fits(l) /\ l.cart = EmptyCart
<1>1. "SHOP_LIST" \in States /\ "ORDER_LIST" \in States
  BY DEF States
<1>2. QED
  BY <1>1, AtFacts DEF Lists, Fits

(* Writing a session that fits, with the same cart or none.                *)
LEMMA NowRight ==
  ASSUME NEW s \in Sessions, NEW t \in Sessions, Fits(t), t.cart \in {s.cart, EmptyCart}
  PROVE  OutcomeRight(s, Now(t))
<1>1. Now(t).now = t /\ Now(t).later = Nothing /\ Now(t).basket = EmptyCart
  BY DEF Now
<1>2. QED
  BY <1>1 DEF OutcomeRight, CartRight

LEMMA IdleRight ==
  ASSUME NEW s \in Sessions
  PROVE  OutcomeRight(s, Now(At("IDLE"))) /\ OutcomeRight(s, Now(NoSession))
<1>1. "IDLE" \in States
  BY DEF States
<1>2. Fits(At("IDLE"))
  BY <1>1, AtFacts DEF Fits
<1>3. QED
  BY <1>1, <1>2, AtFacts, NowRight, NoSessionFacts

LEMMA ToFacts ==
  ASSUME NEW s \in Sessions, NEW state \in States
  PROVE  LET t == [s EXCEPT !.state = state] IN
         /\ t \in Sessions /\ t.state = state /\ t.language = s.language /\ t.cart = s.cart
         /\ t.product = s.product /\ t.coupon = s.coupon
BY DEF Sessions

LEMMA StayRight ==
  ASSUME NEW s \in Sessions, NEW state \in States, Fits(s), s.state # "IDLE",
         state = "PRODUCT_DETAIL" => s.product # NoProduct,
         state \in {"POST_ADD", "CART", "APPLY_COUPON", "COLLECT_NAME"} => s.cart # EmptyCart
  PROVE  OutcomeRight(s, Stay(s, state))
<1> DEFINE t == [s EXCEPT !.state = state]
<1>1. t \in Sessions /\ Fits(t) /\ t.cart = s.cart
  BY ToFacts DEF Fits
<1>2. QED
  BY <1>1, NowRight DEF Stay

LEMMA StartRight ==
  ASSUME NEW s \in Sessions, Fits(s), NEW state \in {"SHOP_LIST", "ORDER_LIST"},
         NEW o \in Start(s, state)
  PROVE  OutcomeRight(s, o)
<1>1. CASE o = Now(At("IDLE"))
  BY <1>1, IdleRight
<1>2. CASE o = Later(s, At(state))
  <2>1. o.now = s /\ o.later = At(state) /\ o.basket = EmptyCart
    BY <1>2 DEF Later
  <2>2. QED
    BY <2>1 DEF OutcomeRight, CartRight, Lists
<1>3. QED
  BY <1>1, <1>2 DEF Start

LEMMA IdleHandled ==
  ASSUME NEW s \in Sessions, Fits(s), NEW m \in Messages, NEW o \in HandleIdle(s, m)
  PROVE  OutcomeRight(s, o)
<1>1. \/ o \in {Now(At("IDLE")), Now(NoSession)}
      \/ o \in Start(s, "SHOP_LIST") \/ o \in Start(s, "ORDER_LIST")
  BY DEF HandleIdle
<1>2. QED
  BY <1>1, IdleRight, StartRight

LEMMA ShopListHandled ==
  ASSUME NEW s \in Sessions, Fits(s), s.state = "SHOP_LIST", NEW m \in Messages,
         NEW o \in HandleShopList(s, m)
  PROVE  OutcomeRight(s, o)
<1>1. CASE o = Stay(s, "SHOP_LIST")
  BY <1>1, StayRight DEF States
<1>2. ASSUME NEW p \in Products, o = Now([s EXCEPT !.state = "PRODUCT_DETAIL", !.product = p])
      PROVE  OutcomeRight(s, o)
  <2> DEFINE t == [s EXCEPT !.state = "PRODUCT_DETAIL", !.product = p]
  <2>1. /\ t \in Sessions /\ t.state = "PRODUCT_DETAIL" /\ t.product = p
        /\ t.language = s.language /\ t.cart = s.cart /\ t.coupon = s.coupon
    BY DEF Sessions, States
  <2>2. Fits(t)
    BY <2>1, StorefrontAssumption DEF Fits
  <2>3. QED
    BY <1>2, <2>1, <2>2, NowRight
<1>3. QED
  BY <1>1, <1>2 DEF HandleShopList

LEMMA ProductDetailHandled ==
  ASSUME NEW s \in Sessions, Fits(s), s.state = "PRODUCT_DETAIL", NEW m \in Messages,
         NEW o \in HandleProductDetail(s, m), added \in Carts,
         \A p \in Products : s.cart[p] <= added[p]
  PROVE  OutcomeRight(s, o)
<1>1. \/ o \in {Now(At("IDLE")), Stay(s, "SHOP_LIST"), Stay(s, "PRODUCT_DETAIL")}
      \/ \E p \in Products : /\ added[p] < MaxAdds
                             /\ o = Stay([s EXCEPT !.cart[p] = @ + 1], "POST_ADD")
  BY DEF HandleProductDetail
<1>2. CASE o \in {Now(At("IDLE")), Stay(s, "SHOP_LIST"), Stay(s, "PRODUCT_DETAIL")}
  <2>1. s.product # NoProduct
    BY DEF Fits
  <2>2. QED
    BY <1>2, <2>1, IdleRight, StayRight DEF States
<1>3. ASSUME NEW p \in Products, added[p] < MaxAdds,
             o = Stay([s EXCEPT !.cart[p] = @ + 1], "POST_ADD")
      PROVE  OutcomeRight(s, o)
  <2> DEFINE u == [s EXCEPT !.cart[p] = @ + 1]
             t == [u EXCEPT !.state = "POST_ADD"]
  <2>0. s.cart \in Carts
    BY DEF Sessions
  <2>1. /\ u.cart = [s.cart EXCEPT ![p] = @ + 1] /\ u.language = s.language
        /\ u.product = s.product /\ u.coupon = s.coupon
        /\ u = [state |-> s.state, language |-> s.language, cart |-> u.cart,
                product |-> s.product, coupon |-> s.coupon]
    BY DEF Sessions
  <2>2. u.cart \in Carts /\ u.cart # EmptyCart
    <3>1. s.cart[p] \in Nat /\ s.cart[p] + 1 <= MaxAdds
      BY <1>3, <2>0, StorefrontAssumption DEF Carts
    <3>2. QED
      BY <2>0, <2>1, <3>1 DEF Carts, EmptyCart
  <2>3. u \in Sessions
    BY <2>1, <2>2 DEF Sessions
  <2>4. /\ t \in Sessions /\ t.state = "POST_ADD" /\ t.language = s.language
        /\ t.cart = u.cart /\ t.coupon = s.coupon
    BY <2>1, <2>3, ToFacts DEF States
  <2>5. Fits(t)
    BY <2>2, <2>4 DEF Fits
  <2>6. o.now = t /\ o.later = Nothing /\ o.basket = EmptyCart
    BY <1>3 DEF Stay, Now
  <2>7. QED
    BY <1>3, <2>1, <2>4, <2>5, <2>6 DEF OutcomeRight, CartRight
<1>4. QED
  BY <1>1, <1>2, <1>3

LEMMA PostAddHandled ==
  ASSUME NEW s \in Sessions, Fits(s), s.state = "POST_ADD", NEW m \in Messages,
         NEW o \in HandlePostAdd(s, m)
  PROVE  OutcomeRight(s, o)
<1>1. o \in {Stay(s, "CART"), Stay(s, "SHOP_LIST"), Stay(s, "POST_ADD")}
  BY DEF HandlePostAdd
<1>2. s.cart # EmptyCart
  BY DEF Fits
<1>3. QED
  BY <1>1, <1>2, StayRight DEF States

(* The cart that is sold has left the session.                             *)
LEMMA CheckoutRight ==
  ASSUME NEW s \in Sessions, NEW o \in Checkout(s)
  PROVE  OutcomeRight(s, o)
<1>1. CASE s.cart = EmptyCart
  BY <1>1, IdleRight DEF Checkout
<1>2. CASE s.cart # EmptyCart
  <2>1. o.now = At("IDLE") /\ o.later = Nothing /\ o.basket = s.cart
    BY <1>2 DEF Checkout, Sell
  <2>2. At("IDLE") \in Sessions /\ Fits(At("IDLE")) /\ At("IDLE").cart = EmptyCart
    BY AtFacts DEF States, Fits
  <2>3. QED
    BY <1>2, <2>1, <2>2 DEF OutcomeRight, CartRight
<1>3. QED
  BY <1>1, <1>2

LEMMA StartCheckoutRight ==
  ASSUME NEW s \in Sessions, Fits(s), s.state = "CART", NEW o \in StartCheckout(s)
  PROVE  OutcomeRight(s, o)
<1>1. CASE o \in Checkout(s)
  BY <1>1, CheckoutRight
<1>2. CASE o = Stay([s EXCEPT !.product = NoProduct], "COLLECT_NAME")
  <2> DEFINE u == [s EXCEPT !.product = NoProduct]
             t == [u EXCEPT !.state = "COLLECT_NAME"]
  <2>1. u \in Sessions /\ u.language = s.language /\ u.cart = s.cart /\ u.coupon = s.coupon
    BY DEF Sessions
  <2>2. /\ t \in Sessions /\ t.state = "COLLECT_NAME" /\ t.language = s.language
        /\ t.cart = s.cart /\ t.coupon = s.coupon
    BY <2>1, ToFacts DEF States
  <2>3. Fits(t)
    BY <2>2 DEF Fits
  <2>4. o = Now(t)
    BY <1>2 DEF Stay
  <2>5. QED
    BY <2>2, <2>3, <2>4, NowRight
<1>3. QED
  BY <1>1, <1>2 DEF StartCheckout

LEMMA CartHandled ==
  ASSUME NEW s \in Sessions, Fits(s), s.state = "CART", NEW m \in Messages,
         NEW o \in HandleCart(s, m)
  PROVE  OutcomeRight(s, o)
<1>1. \/ o \in {Stay(s, "SHOP_LIST"), Stay(s, "APPLY_COUPON"), Stay(s, "CART")}
      \/ o \in StartCheckout(s)
  BY DEF HandleCart
<1>2. s.cart # EmptyCart
  BY DEF Fits
<1>3. QED
  BY <1>1, <1>2, StayRight, StartCheckoutRight DEF States

LEMMA ApplyCouponHandled ==
  ASSUME NEW s \in Sessions, Fits(s), s.state = "APPLY_COUPON", NEW m \in Messages,
         NEW o \in HandleApplyCoupon(s, m)
  PROVE  OutcomeRight(s, o)
<1>0. s.cart # EmptyCart
  BY DEF Fits
<1>1. CASE o \in {Stay(s, "CART"), Stay(s, "APPLY_COUPON")}
  BY <1>0, <1>1, StayRight DEF States
<1>2. CASE o = Stay([s EXCEPT !.coupon = TRUE], "CART")
  <2> DEFINE u == [s EXCEPT !.coupon = TRUE]
             t == [u EXCEPT !.state = "CART"]
  <2>1. u \in Sessions /\ u.language = s.language /\ u.cart = s.cart
    BY DEF Sessions
  <2>2. t \in Sessions /\ t.state = "CART" /\ t.language = s.language /\ t.cart = s.cart
    BY <2>1, ToFacts DEF States
  <2>3. Fits(t)
    BY <1>0, <2>2 DEF Fits
  <2>4. o = Now(t)
    BY <1>2 DEF Stay
  <2>5. QED
    BY <2>2, <2>3, <2>4, NowRight
<1>3. QED
  BY <1>1, <1>2 DEF HandleApplyCoupon

LEMMA OtherStatesHandled ==
  ASSUME NEW s \in Sessions, Fits(s), NEW m \in Messages, NEW o,
         \/ s.state = "COLLECT_NAME" /\ o \in HandleCollectName(s, m)
         \/ s.state = "ORDER_LIST" /\ o \in HandleOrderList(s, m)
         \/ s.state = "ORDER_DETAIL" /\ o \in HandleOrderDetail(s, m)
  PROVE  OutcomeRight(s, o)
<1>1. CASE s.state = "COLLECT_NAME" /\ o \in HandleCollectName(s, m)
  <2>1. o \in Checkout(s) \/ o = Stay(s, "COLLECT_NAME")
    BY <1>1 DEF HandleCollectName
  <2>2. s.cart # EmptyCart
    BY <1>1 DEF Fits
  <2>3. QED
    BY <1>1, <2>1, <2>2, CheckoutRight, StayRight DEF States
<1>2. CASE s.state = "ORDER_LIST" /\ o \in HandleOrderList(s, m)
  <2>1. o \in {Stay(s, "ORDER_LIST"), Stay(s, "ORDER_DETAIL")}
    BY <1>2 DEF HandleOrderList
  <2>2. QED
    BY <1>2, <2>1, StayRight DEF States
<1>3. CASE s.state = "ORDER_DETAIL" /\ o \in HandleOrderDetail(s, m)
  <2>1. o \in {Now(At("IDLE")), Stay(s, "ORDER_DETAIL")}
    BY <1>3 DEF HandleOrderDetail
  <2>2. QED
    BY <1>3, <2>1, StayRight, IdleRight DEF States
<1>4. QED
  BY <1>1, <1>2, <1>3

LEMMA IncomingHandled ==
  ASSUME NEW s \in Sessions, Fits(s), NEW m \in Messages, NEW o \in HandleIncoming(s, m),
         added \in Carts, \A p \in Products : s.cart[p] <= added[p]
  PROVE  OutcomeRight(s, o)
<1>1. s.state \in States
  BY DEF Sessions
<1>2. \/ o \in HandleIdle(s, m)
      \/ s.state = "SHOP_LIST" /\ o \in HandleShopList(s, m)
      \/ s.state = "PRODUCT_DETAIL" /\ o \in HandleProductDetail(s, m)
      \/ s.state = "POST_ADD" /\ o \in HandlePostAdd(s, m)
      \/ s.state = "CART" /\ o \in HandleCart(s, m)
      \/ s.state = "APPLY_COUPON" /\ o \in HandleApplyCoupon(s, m)
      \/ s.state = "COLLECT_NAME" /\ o \in HandleCollectName(s, m)
      \/ s.state = "ORDER_LIST" /\ o \in HandleOrderList(s, m)
      \/ s.state = "ORDER_DETAIL" /\ o \in HandleOrderDetail(s, m)
  <2>1. CASE m.tap \in Restarts \/ s.state = "IDLE"
    BY <2>1 DEF HandleIncoming
  <2>2. CASE m.tap \notin Restarts /\ s.state # "IDLE"
    BY <1>1, <2>2 DEF HandleIncoming, States
  <2>3. QED
    BY <2>1, <2>2
<1>3. QED
  BY <1>2, IdleHandled, ShopListHandled, ProductDetailHandled, PostAddHandled, CartHandled,
     ApplyCouponHandled, OtherStatesHandled

-----------------------------------------------------------------------------
(* The steps.                                                              *)

LEMMA IdleHandlerFacts ==
  /\ IdleHandler \in Handlers /\ IdleHandler.pc = "idle" /\ IdleHandler.later = Nothing
  /\ IdleHandler.basket = EmptyCart
BY EmptyCartType, NoSessionFacts DEF IdleHandler, Handlers

LEMMA SetWorker ==
  ASSUME TypeOK, NEW w \in Workers, NEW STATE h, h \in Handlers,
         worker' = [worker EXCEPT ![w] = h]
  PROVE  /\ worker' \in [Workers -> Handlers] /\ worker'[w] = h
         /\ \A v \in Workers \ {w} : worker'[v] = worker[v]
BY DEF TypeOK

(* A handler left alone stays right.                                       *)
LEMMA OthersRight ==
  ASSUME NEW v \in Workers, HandlerRight(v), worker'[v] = worker[v]
  PROVE  HandlerRight(v)'
BY DEF HandlerRight

(* No unit is promised twice, also in numbers.                             *)
LEMMA CountsFacts ==
  ASSUME IInv, NEW p \in Products
  PROVE  /\ ordered[p] \in Nat /\ added[p] \in Nat /\ session.cart[p] \in Nat
         /\ ordered[p] + session.cart[p] <= added[p] /\ added[p] <= MaxAdds
         /\ EmptyCart[p] = 0
         /\ \A w \in Workers : worker[w].basket[p] \in Nat
BY StorefrontAssumption DEF IInv, TypeOK, SoldOnce, Carts, Sessions, Handlers, EmptyCart

LEMMA ReceiveCounts ==
  ASSUME IInv, NEW o, OutcomeRight(session, o),
         added' = [p \in Products |-> IF o.now.cart[p] > session.cart[p] THEN added[p] + 1
                                                                         ELSE added[p]]
  PROVE  /\ added' \in Carts /\ o.basket \in Carts
         /\ \A p \in Products : /\ added'[p] >= added[p]
                                /\ ordered[p] + o.now.cart[p] <= added'[p]
                                /\ ordered[p] + o.now.cart[p] + o.basket[p] <= added'[p]
<1>0. session.cart \in Carts /\ o.now.cart \in Carts /\ EmptyCart \in Carts
  BY EmptyCartType DEF IInv, TypeOK, OutcomeRight, Sessions
<1>1. o.basket \in Carts
  BY <1>0 DEF OutcomeRight, CartRight
<1>2. ASSUME NEW p \in Products
      PROVE  /\ added'[p] \in 0 .. MaxAdds /\ added'[p] >= added[p]
             /\ ordered[p] + o.now.cart[p] <= added'[p]
             /\ ordered[p] + o.now.cart[p] + o.basket[p] <= added'[p]
  <2>1. CASE o.basket = EmptyCart /\ o.now.cart \in {session.cart, EmptyCart}
    BY <2>1, CountsFacts, StorefrontAssumption
  <2>2. ASSUME NEW q \in Products, o.basket = EmptyCart, added[q] < MaxAdds,
               o.now.cart = [session.cart EXCEPT ![q] = @ + 1]
        PROVE  /\ added'[p] \in 0 .. MaxAdds /\ added'[p] >= added[p]
               /\ ordered[p] + o.now.cart[p] <= added'[p]
               /\ ordered[p] + o.now.cart[p] + o.basket[p] <= added'[p]
    <3>1. o.now.cart[p] = IF p = q THEN session.cart[p] + 1 ELSE session.cart[p]
      BY <1>0, <2>2 DEF Carts
    <3>2. QED
      BY <2>2, <3>1, CountsFacts, StorefrontAssumption
  <2>3. CASE o.basket = session.cart /\ o.now.cart = EmptyCart
    BY <2>3, CountsFacts, StorefrontAssumption
  <2>4. QED
    BY <2>1, <2>2, <2>3 DEF OutcomeRight, CartRight
<1>3. QED
  BY <1>1, <1>2 DEF Carts

LEMMA ReceiveIInv ==
  ASSUME IInv, NEW w \in Workers, NEW m \in Messages, Receive(w, m)
  PROVE  IInv'
<1>1. PICK o \in HandleIncoming(session, m) :
        /\ session' = o.now
        /\ worker' = [worker EXCEPT ![w] =
             [pc |-> IF o.basket = EmptyCart THEN "send" ELSE "sell",
              later |-> o.later, basket |-> o.basket, twin |-> FALSE,
              read |-> IF o.later = Nothing THEN NoSession ELSE session]]
        /\ added' = [p \in Products |-> IF o.now.cart[p] > session.cart[p] THEN added[p] + 1
                                                                           ELSE added[p]]
  BY DEF Receive
<1>2. OutcomeRight(session, o)
  <2>1. \A p \in Products : session.cart[p] <= added[p]
    BY CountsFacts
  <2>2. QED
    BY <2>1, IncomingHandled DEF IInv, TypeOK
<1> DEFINE h == [pc |-> IF o.basket = EmptyCart THEN "send" ELSE "sell",
                 later |-> o.later, basket |-> o.basket, twin |-> FALSE,
                 read |-> IF o.later = Nothing THEN NoSession ELSE session]
<1>3. h \in Handlers
  <2>1. o.basket \in Carts
    BY <1>1, <1>2, ReceiveCounts
  <2>2. o.later \in Sessions \cup {Nothing}
    BY <1>2, ListsFacts DEF OutcomeRight
  <2>3. h.read \in Sessions
    BY NoSessionFacts DEF IInv, TypeOK
  <2>4. QED
    BY <2>1, <2>2, <2>3 DEF Handlers
<1>4. /\ worker' \in [Workers -> Handlers] /\ worker'[w] = h
      /\ \A v \in Workers \ {w} : worker'[v] = worker[v]
  BY <1>1, <1>3, SetWorker DEF IInv
<1>5. TypeOK'
  BY <1>1, <1>2, <1>4, ReceiveCounts DEF Receive, IInv, TypeOK, OutcomeRight
<1>6. SoldOnce'
  <2>1. \A v \in Workers \ {w} : worker'[v].basket = EmptyCart
    BY <1>4 DEF Receive, ProcessFree, IInv, HandlerRight
  <2>2. worker'[w].basket = o.basket
    BY <1>4
  <2>3. ordered' = ordered
    BY DEF Receive
  <2>4. ASSUME NEW p \in Products
        PROVE  /\ ordered'[p] + session'.cart[p] <= added'[p]
               /\ \A v \in Workers :
                    ordered'[p] + session'.cart[p] + worker'[v].basket[p] <= added'[p]
    <3>1. /\ ordered[p] + o.now.cart[p] <= added'[p]
          /\ ordered[p] + o.now.cart[p] + o.basket[p] <= added'[p]
      BY <1>1, <1>2, ReceiveCounts
    <3>2. EmptyCart[p] = 0 /\ ordered[p] \in Nat /\ o.now.cart[p] \in Nat
      BY <1>2, CountsFacts DEF OutcomeRight, Sessions, Carts
    <3>3. QED
      BY <1>1, <2>1, <2>2, <2>3, <3>1, <3>2
  <2>5. QED
    BY <2>4 DEF SoldOnce
<1>7. HandlerRight(w)'
  BY <1>2, <1>4 DEF HandlerRight, OutcomeRight
<1>8. \A v \in Workers \ {w} : HandlerRight(v)'
  BY <1>4, OthersRight DEF IInv
<1>9. OneSells'
  BY <1>4 DEF OneSells, Receive, ProcessFree
<1>10. expiries = 0 => \A v \in Workers : worker[v].pc = "idle"
  BY DEF Receive, Acquire, IInv, LockKeepsApart
<1>11. LockKeepsApart'
  BY <1>4, <1>10 DEF LockKeepsApart, Receive
<1>12. LateWriteLosesNothing'
  <2>1. expiries = 0 => \A v \in Workers \ {w} : worker'[v].later = Nothing
    BY <1>4, <1>10 DEF IInv, HandlerRight
  <2>2. worker'[w].later # Nothing => session' = worker'[w].read
    BY <1>1, <1>2, <1>4 DEF OutcomeRight
  <2>3. QED
    BY <2>1, <2>2 DEF LateWriteLosesNothing, Receive
<1>13. Fits(session)'
  BY <1>1, <1>2 DEF OutcomeRight, Fits
<1>14. QED
  BY <1>5, <1>6, <1>7, <1>8, <1>9, <1>11, <1>12, <1>13 DEF IInv

LEMMA ReceiveNativeIInv ==
  ASSUME IInv, NEW w \in Workers, ReceiveNative(w)
  PROVE  IInv'
<1>1. PICK created \in BOOLEAN :
        worker' = [worker EXCEPT ![w] = [IdleHandler EXCEPT !.pc = "send", !.twin = created]]
  BY DEF ReceiveNative
<1> DEFINE h == [IdleHandler EXCEPT !.pc = "send", !.twin = created]
<1>2. h \in Handlers /\ h.pc = "send" /\ h.later = Nothing /\ h.basket = EmptyCart
  BY IdleHandlerFacts DEF Handlers
<1>3. /\ worker' \in [Workers -> Handlers] /\ worker'[w] = h
      /\ \A v \in Workers \ {w} : worker'[v] = worker[v]
  BY <1>1, <1>2, SetWorker DEF IInv
<1>4. UNCHANGED <<redis, session, known, added, ordered, expiries, crashes>> /\ lock' = TRUE
  BY DEF ReceiveNative
<1>5. TypeOK'
  BY <1>3, <1>4 DEF IInv, TypeOK
<1>6. SoldOnce'
  <2>1. ASSUME NEW p \in Products, NEW v \in Workers
        PROVE  ordered[p] + session.cart[p] + worker'[v].basket[p] <= added[p]
    <3>1. CASE v = w
      <4>1. worker'[v].basket = EmptyCart
        BY <1>2, <1>3, <3>1
      <4>2. QED
        BY <4>1, CountsFacts
    <3>2. CASE v # w
      BY <1>3, <3>2 DEF IInv, SoldOnce
    <3>3. QED
      BY <3>1, <3>2
  <2>2. QED
    BY <1>4, <2>1, CountsFacts DEF SoldOnce
<1>7. \A v \in Workers : HandlerRight(v)'
  BY <1>2, <1>3, OthersRight DEF IInv, HandlerRight
<1>8. OneSells'
  BY <1>2, <1>3 DEF IInv, OneSells
<1>9. expiries = 0 => \A v \in Workers : worker[v].pc = "idle"
  BY DEF ReceiveNative, Acquire, IInv, LockKeepsApart
<1>10. LockKeepsApart'
  BY <1>3, <1>4, <1>9 DEF LockKeepsApart
<1>11. LateWriteLosesNothing'
  BY <1>2, <1>3, <1>4 DEF IInv, LateWriteLosesNothing
<1>12. Fits(session)'
  BY <1>4 DEF IInv, Fits
<1>13. QED
  BY <1>5, <1>6, <1>7, <1>8, <1>10, <1>11, <1>12 DEF IInv

(* The only basket there is becomes an order, in part or whole.            *)
LEMMA CreateOrderIInv ==
  ASSUME IInv, NEW w \in Workers, CreateOrder(w)
  PROVE  IInv'
<1>1. PICK available \in SUBSET Products :
        ordered' = [p \in Products |->
          IF p \in available THEN ordered[p] + worker[w].basket[p] ELSE ordered[p]]
  BY DEF CreateOrder
<1>2. /\ UNCHANGED <<redis, session, lock, known, added, expiries, crashes>>
      /\ worker[w].pc = "sell" /\ worker[w] \in Handlers /\ HandlerRight(w)
  BY DEF CreateOrder, IInv, TypeOK
<1> DEFINE h == [worker[w] EXCEPT !.pc = "send", !.basket = EmptyCart]
<1>3. /\ h \in Handlers /\ h.pc = "send" /\ h.basket = EmptyCart
      /\ h.later = worker[w].later /\ h.read = worker[w].read
  BY <1>2, EmptyCartType DEF Handlers
<1>4. worker' = [worker EXCEPT ![w] = h]
  BY DEF CreateOrder, IInv, TypeOK
<1>5. /\ worker' \in [Workers -> Handlers] /\ worker'[w] = h
      /\ \A v \in Workers \ {w} : worker'[v] = worker[v]
  BY <1>3, <1>4, SetWorker DEF IInv
<1>6. ASSUME NEW p \in Products
      PROVE  /\ ordered'[p] \in 0 .. MaxAdds
             /\ ordered'[p] + session.cart[p] <= added[p]
  <2>1. ordered[p] + session.cart[p] + worker[w].basket[p] <= added[p]
    BY DEF IInv, SoldOnce
  <2>2. QED
    BY <1>1, <2>1, CountsFacts, StorefrontAssumption
<1>7. TypeOK'
  <2>1. ordered' \in Carts
    BY <1>1, <1>6 DEF Carts
  <2>2. QED
    BY <1>2, <1>5, <2>1 DEF IInv, TypeOK
<1>8. SoldOnce'
  <2>1. \A v \in Workers : worker'[v].basket = EmptyCart
    BY <1>2, <1>3, <1>5 DEF IInv, OneSells, HandlerRight
  <2>2. QED
    BY <1>2, <1>6, <2>1, CountsFacts DEF SoldOnce
<1>9. HandlerRight(w)'
  BY <1>2, <1>3, <1>5 DEF HandlerRight
<1>10. \A v \in Workers \ {w} : HandlerRight(v)'
  BY <1>5, OthersRight DEF IInv
<1>11. OneSells' /\ LockKeepsApart'
  BY <1>2, <1>3, <1>5 DEF IInv, OneSells, LockKeepsApart
<1>12. LateWriteLosesNothing'
  BY <1>2, <1>3, <1>5 DEF IInv, LateWriteLosesNothing
<1>13. Fits(session)'
  BY <1>2 DEF IInv, Fits
<1>14. QED
  BY <1>7, <1>8, <1>9, <1>10, <1>11, <1>12, <1>13 DEF IInv

(* A handler that ends, and writes a list's session or nothing.            *)
LEMMA EndIInv ==
  ASSUME IInv, NEW w \in Workers, worker' = [worker EXCEPT ![w] = IdleHandler], lock' = FALSE,
         UNCHANGED <<redis, known, added, ordered, expiries, crashes>>,
         worker[w].pc # "idle", session' = session \/ session' \in Lists
  PROVE  IInv'
<1>1. /\ worker' \in [Workers -> Handlers] /\ worker'[w] = IdleHandler
      /\ \A v \in Workers \ {w} : worker'[v] = worker[v]
  BY IdleHandlerFacts, SetWorker DEF IInv
<1>2. /\ session' \in Sessions /\ Fits(session)'
      /\ session' = session \/ session'.cart = EmptyCart
  BY ListsFacts DEF IInv, TypeOK, Fits
<1>3. TypeOK'
  BY <1>1, <1>2 DEF IInv, TypeOK
<1>4. SoldOnce'
  <2>1. ASSUME NEW p \in Products
        PROVE  /\ ordered'[p] + session'.cart[p] <= added'[p]
               /\ \A v \in Workers :
                    ordered'[p] + session'.cart[p] + worker'[v].basket[p] <= added'[p]
    <3>1. session'.cart[p] \in Nat /\ session'.cart[p] <= session.cart[p]
      BY <1>2, CountsFacts
    <3>2. \A v \in Workers : worker'[v].basket[p] \in Nat
                             /\ worker'[v].basket[p] <= worker[v].basket[p]
      BY <1>1, IdleHandlerFacts, CountsFacts
    <3>3. \A v \in Workers : ordered[p] + session.cart[p] + worker[v].basket[p] <= added[p]
      BY DEF IInv, SoldOnce
    <3>4. QED
      BY <3>1, <3>2, <3>3, CountsFacts
  <2>2. QED
    BY <2>1 DEF SoldOnce
<1>5. \A v \in Workers : HandlerRight(v)'
  BY <1>1, IdleHandlerFacts, OthersRight DEF IInv, HandlerRight
<1>6. OneSells'
  BY <1>1, IdleHandlerFacts DEF IInv, OneSells
<1>7. expiries = 0 => \A v \in Workers : worker'[v].pc = "idle"
  BY <1>1, IdleHandlerFacts DEF IInv, LockKeepsApart
<1>8. expiries = 0 => \A v \in Workers : worker'[v].later = Nothing
  BY <1>1, <1>7, IdleHandlerFacts DEF IInv, HandlerRight
<1>9. QED
  BY <1>2, <1>3, <1>4, <1>5, <1>6, <1>7, <1>8
     DEF IInv, LockKeepsApart, LateWriteLosesNothing

LEMMA SendReturnsIInv ==
  ASSUME IInv, NEW w \in Workers, SendReturns(w)
  PROVE  IInv'
<1>1. session' = session \/ session' \in Lists
  BY DEF SendReturns, IInv, HandlerRight
<1>2. QED
  BY <1>1, EndIInv DEF SendReturns

LEMMA CheckoutRaisesIInv ==
  ASSUME IInv, NEW w \in Workers, CheckoutRaises(w)
  PROVE  IInv'
BY EndIInv DEF CheckoutRaises

LEMMA LockExpiresIInv == ASSUME IInv, LockExpires PROVE IInv'
<1>1. /\ UNCHANGED <<redis, session, worker, known, added, ordered, crashes>>
      /\ lock' = FALSE /\ expiries' \in 0 .. MaxExpiries
      /\ expiries' = 0 => expiries = 0 /\ \A w \in Workers : worker[w].pc = "idle"
  BY StorefrontAssumption DEF LockExpires, IInv, TypeOK, UnderWay
<1>2. TypeOK'
  BY <1>1 DEF IInv, TypeOK
<1>3. \A v \in Workers : HandlerRight(v)'
  BY <1>1, OthersRight DEF IInv
<1>4. Fits(session)' /\ SoldOnce' /\ OneSells'
  BY <1>1 DEF IInv, Fits, SoldOnce, OneSells
<1>5. LockKeepsApart' /\ LateWriteLosesNothing'
  BY <1>1 DEF IInv, LockKeepsApart, LateWriteLosesNothing
<1>6. QED
  BY <1>2, <1>3, <1>4, <1>5 DEF IInv

(* A session may be forgotten at any time.                                 *)
LEMMA ForgottenFits ==
  ASSUME IInv, session' \in {session, NoSession}
  PROVE  /\ session' \in Sessions /\ Fits(session)'
         /\ \A p \in Products : session'.cart[p] \in Nat /\ session'.cart[p] <= session.cart[p]
<1>1. session' \in Sessions /\ Fits(session)' /\ session'.cart \in {session.cart, EmptyCart}
  BY NoSessionFacts DEF IInv, TypeOK, Fits
<1>2. QED
  BY <1>1, CountsFacts

LEMMA SessionTimesOutIInv == ASSUME IInv, SessionTimesOut PROVE IInv'
<1>1. UNCHANGED <<redis, lock, worker, known, added, ordered, expiries, crashes>>
  BY DEF SessionTimesOut
<1>2. session' = NoSession
  BY DEF SessionTimesOut
<1>3. TypeOK'
  BY <1>1, <1>2, ForgottenFits DEF IInv, TypeOK
<1>4. \A v \in Workers : HandlerRight(v)'
  BY <1>1, OthersRight DEF IInv
<1>5. OneSells' /\ LockKeepsApart'
  BY <1>1 DEF IInv, OneSells, LockKeepsApart
<1>6. SoldOnce'
  <2>1. ASSUME NEW p \in Products
        PROVE  /\ ordered[p] + session'.cart[p] <= added[p]
               /\ \A v \in Workers :
                    ordered[p] + session'.cart[p] + worker[v].basket[p] <= added[p]
    <3>1. /\ ordered[p] + session.cart[p] <= added[p]
          /\ \A v \in Workers : ordered[p] + session.cart[p] + worker[v].basket[p] <= added[p]
      BY DEF IInv, SoldOnce
    <3>2. QED
      BY <1>2, <3>1, ForgottenFits, CountsFacts
  <2>2. QED
    BY <1>1, <2>1 DEF SoldOnce
<1>7. LateWriteLosesNothing'
  BY <1>1, <1>2 DEF LateWriteLosesNothing
<1>8. QED
  BY <1>2, <1>3, <1>4, <1>5, <1>6, <1>7, ForgottenFits DEF IInv

LEMMA CrashIInv == ASSUME IInv, Crash PROVE IInv'
<1>1. /\ UNCHANGED <<redis, known, added, ordered, expiries>>
      /\ worker' = [w \in Workers |-> IdleHandler]
      /\ session' \in {session, NoSession} /\ lock' \in BOOLEAN
      /\ crashes' \in 0 .. MaxCrashes
  <2>1. session' \in {session, NoSession} /\ lock' \in BOOLEAN
    BY DEF Crash, IInv, TypeOK
  <2>2. crashes' \in 0 .. MaxCrashes
    BY StorefrontAssumption DEF Crash, IInv, TypeOK
  <2>3. QED
    BY <2>1, <2>2 DEF Crash
<1>2. \A w \in Workers : worker'[w] = IdleHandler
  BY <1>1
<1>3. TypeOK'
  BY <1>1, <1>2, IdleHandlerFacts, ForgottenFits DEF IInv, TypeOK
<1>4. SoldOnce'
  <2>1. ASSUME NEW p \in Products
        PROVE  /\ ordered[p] + session'.cart[p] <= added[p]
               /\ ordered[p] + session'.cart[p] + EmptyCart[p] <= added[p]
    <3>1. ordered[p] + session.cart[p] <= added[p]
      BY DEF IInv, SoldOnce
    <3>2. QED
      BY <1>1, <3>1, ForgottenFits, CountsFacts
  <2>2. QED
    BY <1>1, <1>2, <2>1, IdleHandlerFacts DEF SoldOnce
<1>5. \A v \in Workers : HandlerRight(v)'
  BY <1>2, IdleHandlerFacts DEF HandlerRight
<1>6. OneSells' /\ LockKeepsApart' /\ LateWriteLosesNothing'
  BY <1>2, IdleHandlerFacts DEF OneSells, LockKeepsApart, LateWriteLosesNothing
<1>7. QED
  BY <1>1, <1>3, <1>4, <1>5, <1>6, ForgottenFits DEF IInv

-----------------------------------------------------------------------------
(* Every step together.                                                    *)

LEMMA InitIInv == Init => IInv
<1> SUFFICES ASSUME Init
             PROVE  IInv
  OBVIOUS
<1>1. TypeOK
  <2>1. worker \in [Workers -> Handlers]
    BY IdleHandlerFacts DEF Init
  <2>2. expiries \in 0 .. MaxExpiries /\ crashes \in 0 .. MaxCrashes
    BY StorefrontAssumption DEF Init
  <2>3. QED
    BY <2>1, <2>2, NoSessionFacts, EmptyCartType DEF Init, TypeOK
<1>2. SoldOnce
  <2>1. \A p \in Products : EmptyCart[p] = 0
    BY DEF EmptyCart
  <2>2. QED
    BY <2>1, IdleHandlerFacts, NoSessionFacts DEF Init, SoldOnce
<1>3. \A w \in Workers : HandlerRight(w)
  BY IdleHandlerFacts DEF Init, HandlerRight
<1>4. OneSells /\ LockKeepsApart /\ LateWriteLosesNothing
  BY IdleHandlerFacts DEF Init, OneSells, LockKeepsApart, LateWriteLosesNothing
<1>5. QED
  BY <1>1, <1>2, <1>3, <1>4, NoSessionFacts DEF Init, IInv

LEMMA NextIInv == IInv /\ [Next]_vars => IInv'
<1> SUFFICES ASSUME IInv, [Next]_vars
             PROVE  IInv'
  OBVIOUS
<1>1. ASSUME NEW w \in Workers, NEW m \in Messages, Receive(w, m)
      PROVE  IInv'
  BY <1>1, ReceiveIInv
<1>2. ASSUME NEW w \in Workers, ReceiveNative(w)
      PROVE  IInv'
  BY <1>2, ReceiveNativeIInv
<1>3. ASSUME NEW w \in Workers, CreateOrder(w)
      PROVE  IInv'
  BY <1>3, CreateOrderIInv
<1>4. ASSUME NEW w \in Workers, SendReturns(w)
      PROVE  IInv'
  BY <1>4, SendReturnsIInv
<1>5. ASSUME NEW w \in Workers, CheckoutRaises(w)
      PROVE  IInv'
  BY <1>5, CheckoutRaisesIInv
<1>6. CASE LockExpires
  BY <1>6, LockExpiresIInv
<1>7. CASE SessionTimesOut
  BY <1>7, SessionTimesOutIInv
<1>8. CASE Crash
  BY <1>8, CrashIInv
<1>9. CASE UNCHANGED vars
  BY <1>9 DEF vars, IInv, TypeOK, Fits, SoldOnce, HandlerRight, OneSells, LockKeepsApart,
     LateWriteLosesNothing
<1>10. QED
  BY <1>1, <1>2, <1>3, <1>4, <1>5, <1>6, <1>7, <1>8, <1>9 DEF Next

(* Every variable keeps its type: no cart or order grows beyond what the   *)
(* customer added.                                                         *)
THEOREM TypeCorrect == Spec => []TypeOK
<1>1. IInv => TypeOK
  BY DEF IInv
<1>2. QED
  BY <1>1, InitIInv, NextIInv, PTL DEF Spec

(* Whatever is tapped and whoever writes late, a session has the context   *)
(* that the handler of its state reads.                                    *)
THEOREM ContextFitsAlways == Spec => []ContextFits
<1>1. IInv => ContextFits
  BY DEF IInv, Fits, ContextFits
<1>2. QED
  BY <1>1, InitIInv, NextIInv, PTL DEF Spec

(* Double taps, redeliveries, expired locks and crashes never order a unit *)
(* of a cart twice.                                                        *)
THEOREM SoldOnceAlways == Spec => []SoldOnce
<1>1. IInv => SoldOnce
  BY DEF IInv
<1>2. QED
  BY <1>1, InitIInv, NextIInv, PTL DEF Spec

(* While locks outlast their handlers, no late write undoes anything.      *)
THEOREM LateWriteLosesNothingAlways == Spec => []LateWriteLosesNothing
<1>1. IInv => LateWriteLosesNothing
  BY DEF IInv
<1>2. QED
  BY <1>1, InitIInv, NextIInv, PTL DEF Spec
=============================================================================
