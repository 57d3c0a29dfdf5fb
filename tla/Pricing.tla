------------------------------ MODULE Pricing ------------------------------
(***************************************************************************)
(* What a customer is told and what they are charged: the cart messages    *)
(* and the checkout of core/commerce_flow.py, the discount arithmetic of   *)
(* db/repository.py, while the merchant changes prices, products and       *)
(* coupons (portal/products.py, portal/coupons.py) and days pass.          *)
(*                                                                         *)
(* Amounts are in hundredths, as NUMERIC(12, 2) keeps them, percentages    *)
(* too.  A price may be negative: the portal's product form refuses one,   *)
(* the onboarding wizard and the CSV import (onboarding_wizard.py) do not, *)
(* and neither does the products table.                                    *)
(*                                                                         *)
(* Every handler here is one step: the service is one process and awaits   *)
(* nothing between reading prices and using them.  Of the stock it only    *)
(* matters whether a product can still be sold; the rest of checkout is in *)
(* Checkout, the rest of the conversation in Storefront.                   *)
(***************************************************************************)
EXTENDS Integers, FiniteSets, Functions

CONSTANTS Products, Prices,
          Codes, NoCode,
          Percentages, Flats,   \* discount values the merchant may enter
          MaxUnits,             \* bound on the units of a product in a cart
          MaxDay,               \* bound on the days that pass
          MaxEdits              \* bound on the merchant's edits

ASSUME PricingAssumption ==
  /\ IsFiniteSet(Products)
  /\ Prices \subseteq Int
  /\ NoCode \notin Codes
  /\ Percentages \subseteq Nat /\ \A v \in Percentages : v <= 10000
  /\ Flats \subseteq Nat
  /\ MaxUnits \in Nat /\ MaxDay \in Nat \ {0} /\ MaxEdits \in Nat

VARIABLES price,      \* price[p]: products.price
          sellable,   \* products that are active and in stock
          coupons,    \* the coupons table, by code
          today,
          known,      \* whether the customers table has the customer's name
          session,    \* the customer's conversation
          told,       \* the total the last cart message gave
          current,    \* whether prices, coupons and day are still those of that
                      \* message (history)
          order,      \* the order of the last checkout, until they shop again
          edits

vars == <<price, sellable, coupons, today, known, session, told, current, order, edits>>

Days == 1 .. MaxDay
Never == 0

(* lastDay: expires_at.                                                    *)
Coupons ==
  [type : {"percentage"}, value : Percentages, active : BOOLEAN, lastDay : Days \cup {Never}]
    \cup [type : {"flat"}, value : Flats, active : BOOLEAN, lastDay : Days \cup {Never}]
NoCoupon == [type |-> "none", value |-> 0, active |-> FALSE, lastDay |-> Never]

Carts == [Products -> 0 .. MaxUnits]
EmptyCart == [p \in Products |-> 0]

Sessions == [state : {"IDLE", "SHOP_LIST", "POST_ADD", "CART", "APPLY_COUPON", "COLLECT_NAME"},
             cart : Carts, code : Codes \cup {NoCode}]
NoSession == [state |-> "IDLE", cart |-> EmptyCart, code |-> NoCode]

(* units and paid are the order_items, paid being the unit prices.         *)
NoOrder == [units |-> EmptyCart, paid |-> EmptyCart, code |-> NoCode,
            subtotal |-> 0, discount |-> 0, total |-> 0]

-----------------------------------------------------------------------------
(* The arithmetic.  A definition preceded by a longer name                 *)
(* (UsableBeforeItsLastDay, ...) is a way to get it wrong, for the runs to *)
(* reject.                                                                 *)

Least(m, n) == IF m < n THEN m ELSE n

(* Decimal's quantize, which rounds half to even.                          *)
Quantized(n, d) ==
  LET q == n \div d
      r == n % d
  IN  IF 2 * r < d \/ (2 * r = d /\ q % 2 = 0) THEN q ELSE q + 1

(* compute_discount; of a negative subtotal min() makes it all of it.      *)
ComputeDiscount(s, c) ==
  IF c.type = "percentage" THEN Quantized(Least(s * c.value, s * 10000), 10000)
  ELSE Least(c.value, s)

(* coupon_validity_error finds none.                                       *)
UsableBeforeItsLastDay(k) ==
  /\ k # NoCode /\ coupons[k] # NoCoupon
  /\ coupons[k].active
  /\ coupons[k].lastDay = Never \/ today < coupons[k].lastDay
Usable(k) ==
  /\ k # NoCode
  /\ coupons[k] # NoCoupon
  /\ coupons[k].active
  /\ coupons[k].lastDay # Never => coupons[k].lastDay >= today

Amount(prices, units) == SumFunction([p \in Products |-> prices[p] * units[p]])
Subtotal(units) == Amount(price, units)
Discount(units, k) ==
  IF Usable(k) THEN ComputeDiscount(Subtotal(units), coupons[k]) ELSE 0

-----------------------------------------------------------------------------
Init ==
  /\ price \in [Products -> Prices]
  /\ sellable = Products
  /\ coupons \in [Codes -> Coupons \cup {NoCoupon}]
  /\ today = 1
  /\ known \in BOOLEAN
  /\ session = NoSession
  /\ told = 0
  /\ current = FALSE
  /\ order = NoOrder
  /\ edits = 0

(* _send_cart, for a session as the handler has just written it: every     *)
(* product of the cart counts, also one that is no longer sold.            *)
SendCart(s) ==
  /\ session' = s
  /\ told' = Subtotal(s.cart) - Discount(s.cart, s.code)
  /\ current' = TRUE

Goto(s) == session' = s /\ UNCHANGED <<told, current>>

(* _start_shop, from any state.                                            *)
StartShop ==
  /\ Goto([NoSession EXCEPT !.state = "SHOP_LIST"])
  /\ order' = NoOrder
  /\ UNCHANGED <<price, sellable, coupons, today, known, edits>>

(* A product of the list and, in its detail, "Add to cart".                *)
AddToCart(p) ==
  /\ session.state = "SHOP_LIST"
  /\ p \in sellable
  /\ session.cart[p] < MaxUnits
  /\ Goto([session EXCEPT !.state = "POST_ADD", !.cart[p] = @ + 1])
  /\ UNCHANGED <<price, sellable, coupons, today, known, order, edits>>

ContinueShopping ==
  /\ session.state \in {"POST_ADD", "CART"}
  /\ Goto([session EXCEPT !.state = "SHOP_LIST"])
  /\ UNCHANGED <<price, sellable, coupons, today, known, order, edits>>

(* View cart, or any other message in the cart.                            *)
ViewCart ==
  /\ session.state \in {"POST_ADD", "CART"}
  /\ SendCart([session EXCEPT !.state = "CART"])
  /\ UNCHANGED <<price, sellable, coupons, today, known, order, edits>>

AskCouponMisspelt ==
  /\ session.state = "CART"
  /\ Goto([session EXCEPT !.state = "APPLY_CUPON"])
  /\ UNCHANGED <<price, sellable, coupons, today, known, order, edits>>
AskCoupon ==
  /\ session.state = "CART"
  /\ Goto([session EXCEPT !.state = "APPLY_COUPON"])
  /\ UNCHANGED <<price, sellable, coupons, today, known, order, edits>>

(* A code that cannot be used leaves the one applied before in place.      *)
ApplyCoupon(k) ==
  /\ session.state = "APPLY_COUPON"
  /\ SendCart([session EXCEPT !.state = "CART", !.code = IF Usable(k) THEN k ELSE @])
  /\ UNCHANGED <<price, sellable, coupons, today, known, order, edits>>

(* _checkout and checkout_cart: what cannot be sold is dropped, and the    *)
(* discount is computed anew from the coupon as it is now.                 *)
Checkout ==
  LET units == [p \in Products |-> IF p \in sellable THEN session.cart[p] ELSE 0] IN
  /\ session' = NoSession
  /\ order' = IF units = EmptyCart THEN order
              ELSE [units |-> units,
                    paid |-> [p \in Products |-> IF units[p] > 0 THEN price[p] ELSE 0],
                    code |-> IF Usable(session.code) THEN session.code ELSE NoCode,
                    subtotal |-> Subtotal(units),
                    discount |-> Discount(units, session.code),
                    total |-> Subtotal(units) - Discount(units, session.code)]
  /\ UNCHANGED <<price, sellable, coupons, today, told, current, edits>>

(* _start_checkout: a new customer is asked for a name first.              *)
StartCheckoutWithoutCoupon ==
  /\ session.state = "CART"
  /\ IF known
       THEN Checkout /\ UNCHANGED known
       ELSE /\ Goto([session EXCEPT !.state = "COLLECT_NAME", !.code = NoCode])
            /\ UNCHANGED <<price, sellable, coupons, today, known, order, edits>>
StartCheckout ==
  /\ session.state = "CART"
  /\ IF known
       THEN Checkout /\ UNCHANGED known
       ELSE /\ Goto([session EXCEPT !.state = "COLLECT_NAME"])
            /\ UNCHANGED <<price, sellable, coupons, today, known, order, edits>>

CollectName ==
  /\ session.state = "COLLECT_NAME"
  /\ Checkout
  /\ known' = TRUE

(* A greeting or a session timeout.                                        *)
Leave ==
  /\ session.state # "IDLE"
  /\ Goto(NoSession)
  /\ UNCHANGED <<price, sellable, coupons, today, known, order, edits>>

-----------------------------------------------------------------------------
(* The merchant and the calendar.                                          *)

Edit ==
  /\ edits < MaxEdits
  /\ edits' = edits + 1
  /\ current' = FALSE
  /\ UNCHANGED <<today, known, session, told, order>>

SetPrice(p, n) ==
  /\ Edit
  /\ price' = [price EXCEPT ![p] = n]
  /\ UNCHANGED <<sellable, coupons>>

(* A product is switched on or off, or its stock runs out, to this or to   *)
(* other customers, or is filled again.  What the last cart message said   *)
(* of prices and coupons still stands.                                     *)
SetSellable(p) ==
  /\ edits < MaxEdits
  /\ edits' = edits + 1
  /\ sellable' = IF p \in sellable THEN sellable \ {p} ELSE sellable \cup {p}
  /\ UNCHANGED <<price, coupons, today, known, session, told, current, order>>

(* coupon_new_submit: a code that exists is refused.                       *)
CreateCouponAgain(k, c) ==
  /\ Edit
  /\ c.active
  /\ coupons' = [coupons EXCEPT ![k] = c]
  /\ UNCHANGED <<price, sellable>>
CreateCoupon(k, c) ==
  /\ coupons[k] = NoCoupon
  /\ Edit
  /\ c.active
  /\ coupons' = [coupons EXCEPT ![k] = c]
  /\ UNCHANGED <<price, sellable>>

(* coupon_toggle_active.                                                   *)
ToggleCoupon(k) ==
  /\ coupons[k] # NoCoupon
  /\ Edit
  /\ coupons' = [coupons EXCEPT ![k].active = ~@]
  /\ UNCHANGED <<price, sellable>>

NextDay ==
  /\ today < MaxDay
  /\ today' = today + 1
  /\ current' = FALSE
  /\ UNCHANGED <<price, sellable, coupons, known, session, told, order, edits>>

Next ==
  \/ StartShop \/ ContinueShopping \/ ViewCart \/ AskCoupon
  \/ StartCheckout \/ CollectName \/ Leave \/ NextDay
  \/ \E p \in Products :
       AddToCart(p) \/ SetSellable(p) \/ \E n \in Prices : SetPrice(p, n)
  \/ \E k \in Codes :
       \/ ApplyCoupon(k) \/ ToggleCoupon(k)
       \/ \E c \in Coupons : CreateCoupon(k, c)

Spec == Init /\ [][Next]_vars

-----------------------------------------------------------------------------
TypeOK ==
  /\ price \in [Products -> Prices]
  /\ sellable \subseteq Products
  /\ coupons \in [Codes -> Coupons \cup {NoCoupon}]
  /\ today \in Days
  /\ known \in BOOLEAN
  /\ session \in Sessions
  /\ told \in Int
  /\ current \in BOOLEAN
  /\ order \in [units : Carts, paid : [Products -> Int], code : Codes \cup {NoCode},
                subtotal : Int, discount : Int, total : Int]
  /\ edits \in 0 .. MaxEdits

(* d is v hundredths of a percent of s, to the nearest hundredth.          *)
IsPartOf(d, s, v) ==
  2 * (10000 * d - s * v) <= 10000 /\ 2 * (s * v - 10000 * d) <= 10000

(* An order explains itself for good (schema.sql on orders.coupon_code and *)
(* unit_price_at_order_time): whatever the merchant edits afterwards, its  *)
(* items add up to its subtotal, and the coupon it names gives its         *)
(* discount: the flat amount or all there is, or the percentage to the     *)
(* nearest hundredth.  And no coupon makes a total negative                *)
(* (compute_discount's "never a negative total"): only an order without    *)
(* one, of negative prices, can be.                                        *)
OrderAddsUp ==
  LET c == IF order.code = NoCode THEN NoCoupon ELSE coupons[order.code] IN
  /\ order.subtotal = Amount(order.paid, order.units)
  /\ order.total = order.subtotal - order.discount
  /\ order.code # NoCode \/ 0 <= order.subtotal => 0 <= order.total
  /\ order.code = NoCode => order.discount = 0
  /\ order.code # NoCode /\ c.type = "flat" =>
       order.discount = IF c.value <= order.subtotal THEN c.value ELSE order.subtotal
  /\ order.code # NoCode /\ c.type = "percentage" =>
       IF 0 <= order.subtotal THEN IsPartOf(order.discount, order.subtotal, c.value)
                              ELSE order.discount = order.subtotal

Placed == order' # order /\ order'.units # EmptyCart

(* Unless a price, a coupon or the day changed since the last cart         *)
(* message, a customer who gets the whole cart pays exactly what it said,  *)
(* and one who gets less of it, because something ran out or was switched  *)
(* off before or after that message, pays no more, as long as no price is  *)
(* negative.  compute_discount's "always matches what checkout_cart        *)
(* actually charges" is kept in the first case only: the message counts    *)
(* products checkout_cart then drops.                                      *)
ChargedAsTold ==
  [][Placed /\ current =>
       /\ order'.units = session.cart => order'.total = told
       /\ (\A p \in Products : 0 <= price[p]) => order'.total <= told]_vars

(* checkout_cart trusts neither the session nor the last cart message: the *)
(* coupon a customer applied counts exactly if it is switched on and its   *)
(* last day is not over at the moment the order is made.                   *)
CouponCountsToItsLastDay ==
  [][Placed /\ session.code # NoCode =>
       LET c == coupons[session.code]
           over == c.lastDay \in Days /\ today \in c.lastDay + 1 .. MaxDay
       IN  order'.code = session.code <=> c.active /\ ~over]_vars
=============================================================================
