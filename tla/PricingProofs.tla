---------------------------- MODULE PricingProofs ----------------------------
(***************************************************************************)
(* Theorems about Pricing, for finitely many products, any prices, also    *)
(* negative ones, any codes and discounts, and any number of days and      *)
(* edits.                                                                  *)
(***************************************************************************)
EXTENDS Pricing, FiniteSums

-----------------------------------------------------------------------------
(* The arithmetic.                                                         *)

(* Rounding a part of s hundredths stays within them.                      *)
LEMMA QuantizedBounds ==
  ASSUME NEW n \in Nat, NEW s \in Nat, n <= s * 10000
  PROVE  Quantized(n, 10000) \in 0 .. s
<1> DEFINE q == n \div 10000
           r == n % 10000
<1>1. q \in Nat /\ r \in Nat /\ n = 10000 * q + r
  OBVIOUS
<1>2. Quantized(n, 10000) = IF 2 * r < 10000 \/ (2 * r = 10000 /\ q % 2 = 0) THEN q ELSE q + 1
  BY DEF Quantized
<1> HIDE DEF q, r
<1>3. q <= s
  BY <1>1
<1>4. CASE 2 * r < 10000 \/ (2 * r = 10000 /\ q % 2 = 0)
  BY <1>1, <1>2, <1>3, <1>4
<1>5. CASE ~(2 * r < 10000 \/ (2 * r = 10000 /\ q % 2 = 0))
  <2>1. r > 0
    BY <1>1, <1>5
  <2>2. q < s
    BY <1>1, <2>1
  <2>3. QED
    BY <1>1, <1>2, <1>5, <2>2
<1>6. QED
  BY <1>4, <1>5

(* quantize is never more than half a unit off.                            *)
LEMMA Nearest ==
  ASSUME NEW n \in Nat
  PROVE  /\ Quantized(n, 10000) \in Nat
         /\ 2 * (10000 * Quantized(n, 10000) - n) <= 10000
         /\ 2 * (n - 10000 * Quantized(n, 10000)) <= 10000
<1> DEFINE q == n \div 10000
           r == n % 10000
<1>1. q \in Nat /\ r \in 0 .. 9999 /\ n = 10000 * q + r
  OBVIOUS
<1>2. Quantized(n, 10000) = IF 2 * r < 10000 \/ (2 * r = 10000 /\ q % 2 = 0) THEN q ELSE q + 1
  BY DEF Quantized
<1> HIDE DEF q, r
<1>3. CASE Quantized(n, 10000) = q /\ 2 * r <= 10000
  BY <1>1, <1>3
<1>4. CASE Quantized(n, 10000) = q + 1 /\ 2 * r >= 10000
  BY <1>1, <1>4
<1>5. QED
  BY <1>1, <1>2, <1>3, <1>4

(* Of all of it nothing is rounded.                                        *)
LEMMA WholeQuantized ==
  ASSUME NEW s \in Int
  PROVE  Quantized(s * 10000, 10000) = s
BY DEF Quantized

(* Of a greater subtotal no less is left: not even rounding makes a cart   *)
(* dearer when something is taken out.                                     *)
LEMMA PercentageNet ==
  ASSUME NEW s \in Nat, NEW t \in Nat, s <= t, NEW v \in Nat, v <= 10000
  PROVE  s - Quantized(s * v, 10000) <= t - Quantized(t * v, 10000)
<1> DEFINE m == s * v
           n == t * v
           k == t - s
           M == Quantized(m, 10000)
           N == Quantized(n, 10000)
<1>1. m \in Nat /\ n \in Nat /\ k \in Nat
  OBVIOUS
<1>2. CASE v = 10000
  <2>1. M = s /\ N = t
    BY <1>2, WholeQuantized
  <2>2. QED
    BY <2>1
<1>3. CASE k = 0
  <2>1. s = t
    BY <1>3
  <2>2. M = N
    BY <2>1
  <2>3. M \in Nat
    <3>1. \A i \in Nat : Quantized(i, 10000) \in Nat
      BY Nearest
    <3> HIDE DEF m
    <3>2. QED
      BY <1>1, <3>1
  <2> HIDE DEF M, N
  <2>4. QED
    BY <2>1, <2>2, <2>3 DEF M, N
<1>4. CASE v < 10000 /\ k > 0
  <2>1. n = m + k * v
    OBVIOUS
  <2>2. \A a, b \in Nat : a > 0 /\ b < 10000 => a * b < 10000 * a
    OBVIOUS
  <2>3. k * v < 10000 * k
    BY <1>1, <1>4, <2>2
  <2>4. /\ M \in Nat /\ N \in Nat
        /\ 2 * (m - 10000 * M) <= 10000 /\ 2 * (10000 * N - n) <= 10000
    <3>1. \A i \in Nat : /\ Quantized(i, 10000) \in Nat
                         /\ 2 * (10000 * Quantized(i, 10000) - i) <= 10000
                         /\ 2 * (i - 10000 * Quantized(i, 10000)) <= 10000
      BY Nearest
    <3> HIDE DEF m, n
    <3>2. QED
      BY <1>1, <3>1
  <2>5. k * v \in Nat
    BY <1>1
  <2> HIDE DEF m, n, k, M, N
  <2>6. 2 * (10000 * N - 10000 * M) < 20000 + 20000 * k
    BY <1>1, <2>1, <2>3, <2>4, <2>5
  <2>7. N - M <= k
    BY <1>1, <2>4, <2>6
  <2>8. QED
    BY <1>1, <2>4, <2>7 DEF k, M, N, m, n
<1>5. QED
  BY <1>1, <1>2, <1>3, <1>4

LEMMA PercentageFacts ==
  ASSUME NEW s \in Nat, NEW v \in Nat, v <= 10000
  PROVE  /\ s * v \in Nat
         /\ s * v <= s * 10000
         /\ Least(s * v, s * 10000) = s * v
<1>1. s * v \in Nat /\ s * v <= s * 10000
  OBVIOUS
<1>2. s * 10000 \in Nat
  OBVIOUS
<1>3. QED
  <2> DEFINE m == s * v
             n == s * 10000
  <2>1. m \in Nat /\ n \in Nat /\ m <= n
    BY <1>1, <1>2
  <2> HIDE DEF m, n
  <2>2. Least(m, n) = m
    BY <2>1 DEF Least
  <2>3. QED
    BY <1>1, <2>2 DEF m, n

LEMMA PercentageValues == \A v \in Percentages : v \in Nat /\ v <= 10000
BY PricingAssumption

LEMMA FlatValues == \A v \in Flats : v \in Nat
BY PricingAssumption

LEMMA CouponValues ==
  ASSUME NEW c \in Coupons
  PROVE  \/ c.type = "percentage" /\ c.value \in Nat /\ c.value <= 10000
         \/ c.type = "flat" /\ c.value \in Nat
<1>1. \/ c.type = "percentage" /\ c.value \in Percentages
      \/ c.type = "flat" /\ c.value \in Flats
  BY DEF Coupons
<1>2. QED
  BY <1>1, PercentageValues, FlatValues

(* What compute_discount takes of a subtotal that is not negative.         *)
LEMMA DiscountOfSome ==
  ASSUME NEW s \in Nat, NEW c \in Coupons
  PROVE  ComputeDiscount(s, c) \in 0 .. s
<1>1. CASE c.type = "percentage" /\ c.value \in Nat /\ c.value <= 10000
  <2> DEFINE v == c.value
  <2>1. v \in Nat /\ v <= 10000
    BY <1>1
  <2> HIDE DEF v
  <2>2. v \in Nat
    BY <2>1
  <2>3. Least(s * v, s * 10000) = s * v
    BY <2>1, <2>2, PercentageFacts
  <2>4. s * v \in Nat
    BY <2>1, <2>2, PercentageFacts
  <2>5. s * v <= s * 10000
    BY <2>1, <2>2, PercentageFacts
  <2>6. ComputeDiscount(s, c) = Quantized(s * v, 10000)
    BY <1>1, <2>3 DEF ComputeDiscount, v
  <2>7. Quantized(s * v, 10000) \in 0 .. s
    BY <2>4, <2>5, QuantizedBounds
  <2>8. QED
    BY <2>6, <2>7
<1>2. CASE c.type = "flat" /\ c.value \in Nat
  BY <1>2 DEF ComputeDiscount, Least
<1>3. QED
  BY <1>1, <1>2, CouponValues

(* Of a negative subtotal it takes all.                                    *)
LEMMA DiscountOfDebt ==
  ASSUME NEW s \in Int, s < 0, NEW c \in Coupons
  PROVE  ComputeDiscount(s, c) = s
<1>1. CASE c.type = "percentage" /\ c.value \in Nat /\ c.value <= 10000
  <2> DEFINE v == c.value
             m == s * v
             k == s * 10000
  <2>1. m \in Int /\ k \in Int /\ k <= m
    <3>1. v \in Nat /\ v <= 10000
      BY <1>1
    <3> HIDE DEF v
    <3>2. \A i \in Nat, j \in Int : j < 0 /\ i <= 10000 => j * 10000 <= j * i
      OBVIOUS
    <3>3. QED
      BY <3>1, <3>2
  <2>2. ComputeDiscount(s, c) = Quantized(Least(m, k), 10000)
    BY <1>1 DEF ComputeDiscount
  <2>3. Quantized(k, 10000) = s
    BY WholeQuantized
  <2> HIDE DEF m, k
  <2>4. Least(m, k) = k
    BY <2>1 DEF Least
  <2>5. QED
    BY <2>2, <2>3, <2>4
<1>2. CASE c.type = "flat" /\ c.value \in Nat
  BY <1>2 DEF ComputeDiscount, Least
<1>3. QED
  BY <1>1, <1>2, CouponValues

(* compute_discount never takes more than the subtotal, and never adds to  *)
(* one that is not negative: whatever coupon a merchant enters, with it no *)
(* cart comes to less than zero.                                           *)
THEOREM DiscountWithinSubtotal ==
  ASSUME NEW s \in Int, NEW c \in Coupons
  PROVE  /\ ComputeDiscount(s, c) \in Int
         /\ ComputeDiscount(s, c) <= s
         /\ 0 <= s => 0 <= ComputeDiscount(s, c)
<1>1. CASE 0 <= s
  BY <1>1, DiscountOfSome
<1>2. CASE s < 0
  BY <1>2, DiscountOfDebt
<1>3. QED
  BY <1>1, <1>2

(* A greater subtotal costs no less.                                       *)
LEMMA NetGrows ==
  ASSUME NEW s \in Nat, NEW t \in Nat, s <= t, NEW c \in Coupons
  PROVE  s - ComputeDiscount(s, c) <= t - ComputeDiscount(t, c)
<1>1. CASE c.type = "percentage" /\ c.value \in Nat /\ c.value <= 10000
  <2> DEFINE v == c.value
  <2>1. v \in Nat /\ v <= 10000
    BY <1>1
  <2> HIDE DEF v
  <2>2. Least(s * v, s * 10000) = s * v /\ Least(t * v, t * 10000) = t * v
    BY <2>1, PercentageFacts
  <2>3. /\ ComputeDiscount(s, c) = Quantized(s * v, 10000)
        /\ ComputeDiscount(t, c) = Quantized(t * v, 10000)
    BY <1>1, <2>2 DEF ComputeDiscount, v
  <2>4. s - Quantized(s * v, 10000) <= t - Quantized(t * v, 10000)
    BY <2>1, PercentageNet
  <2>5. QED
    BY <2>3, <2>4
<1>2. CASE c.type = "flat" /\ c.value \in Nat
  <2>1. \A n \in Nat : ComputeDiscount(n, c) = IF c.value < n THEN c.value ELSE n
    BY <1>2 DEF ComputeDiscount, Least
  <2>2. QED
    BY <1>2, <2>1
<1>3. QED
  BY <1>1, <1>2, CouponValues

(* What OrderAddsUp says of a discount, right after compute_discount.      *)
LEMMA FlatExplained ==
  ASSUME NEW s \in Int, NEW c \in Coupons, c.type = "flat"
  PROVE  ComputeDiscount(s, c) = IF c.value <= s THEN c.value ELSE s
BY CouponValues DEF ComputeDiscount, Least

LEMMA QuantizedIsPart ==
  ASSUME NEW s \in Nat, NEW v \in Nat
  PROVE  IsPartOf(Quantized(s * v, 10000), s, v)
<1> DEFINE n == s * v
           Q == Quantized(n, 10000)
<1>1. n \in Nat
  OBVIOUS
<1>2. Q \in Nat /\ 2 * (10000 * Q - n) <= 10000 /\ 2 * (n - 10000 * Q) <= 10000
  <2>1. \A i \in Nat : /\ Quantized(i, 10000) \in Nat
                       /\ 2 * (10000 * Quantized(i, 10000) - i) <= 10000
                       /\ 2 * (i - 10000 * Quantized(i, 10000)) <= 10000
    BY Nearest
  <2> HIDE DEF n
  <2>2. QED
    BY <1>1, <2>1
<1>3. 2 * (10000 * Q - s * v) <= 10000 /\ 2 * (s * v - 10000 * Q) <= 10000
  BY <1>2
<1> HIDE DEF n, Q
<1>4. IsPartOf(Q, s, v)
  BY <1>3 DEF IsPartOf
<1>5. QED
  BY <1>4 DEF Q, n

LEMMA PartExplained ==
  ASSUME NEW s \in Nat, NEW c \in Coupons, c.type = "percentage"
  PROVE  IsPartOf(ComputeDiscount(s, c), s, c.value)
<1> DEFINE v == c.value
           m == s * v
           k == s * 10000
           d == Quantized(m, 10000)
<1>1. v \in Nat /\ v <= 10000
  BY CouponValues
<1>2. Least(m, k) = m
  <2> HIDE DEF v
  <2>1. QED
    BY <1>1, PercentageFacts
<1>3. ComputeDiscount(s, c) = Quantized(Least(m, k), 10000)
  BY DEF ComputeDiscount
<1>4. IsPartOf(d, s, v)
  <2> HIDE DEF v
  <2>1. QED
    BY <1>1, QuantizedIsPart
<1> HIDE DEF m, k
<1>5. ComputeDiscount(s, c) = d
  BY <1>2, <1>3
<1> HIDE DEF d
<1>6. QED
  BY <1>4, <1>5

LEMMA PercentageExplained ==
  ASSUME NEW s \in Int, NEW c \in Coupons, c.type = "percentage"
  PROVE  IF 0 <= s THEN IsPartOf(ComputeDiscount(s, c), s, c.value)
                   ELSE ComputeDiscount(s, c) = s
<1>1. CASE 0 <= s
  <2>1. s \in Nat
    BY <1>1
  <2>2. QED
    BY <1>1, <2>1, PartExplained
<1>2. CASE ~(0 <= s)
  BY <1>2, DiscountOfDebt
<1>3. QED
  BY <1>1, <1>2

-----------------------------------------------------------------------------
(* What a cart adds up to.                                                 *)

LEMMA AmountIs ==
  ASSUME NEW prices, NEW units
  PROVE  Amount(prices, units)
           = SumFunctionOnSet([p \in Products |-> prices[p] * units[p]], Products)
BY DEF Amount, SumFunction

LEMMA ProductsFinite == IsFiniteSet(Products)
BY PricingAssumption

LEMMA AmountType ==
  ASSUME NEW prices, NEW units, NEW T \in {Nat, Int},
         \A p \in Products : prices[p] \in T /\ units[p] \in Nat
  PROVE  Amount(prices, units) \in T
<1> DEFINE f == [p \in Products |-> prices[p] * units[p]]
<1>1. \A p \in Products : f[p] \in T
  <2>1. CASE T = Nat
    BY <2>1
  <2>2. CASE T = Int
    BY <2>2
  <2>3. QED
    BY <2>1, <2>2
<1> HIDE DEF f
<1>2. SumFunctionOnSet(f, Products) \in T
  BY <1>1, ProductsFinite, SumType
<1>3. QED
  BY <1>2, AmountIs DEF f

(* Units dropped make it no greater.                                       *)
LEMMA AmountGrows ==
  ASSUME NEW prices, NEW units, NEW more,
         \A p \in Products : /\ prices[p] \in Nat /\ units[p] \in Nat /\ more[p] \in Nat
                             /\ units[p] <= more[p]
  PROVE  Amount(prices, units) <= Amount(prices, more)
<1> DEFINE f == [p \in Products |-> prices[p] * units[p]]
           g == [p \in Products |-> prices[p] * more[p]]
<1>1. ASSUME NEW p \in Products
      PROVE  f[p] \in Int /\ g[p] \in Int /\ f[p] <= g[p]
  <2>1. \A i, j, k \in Nat : j <= k => i * j \in Int /\ i * k \in Int /\ i * j <= i * k
    OBVIOUS
  <2>2. prices[p] \in Nat /\ units[p] \in Nat /\ more[p] \in Nat /\ units[p] <= more[p]
    OBVIOUS
  <2>3. QED
    BY <2>1, <2>2
<1> HIDE DEF f, g
<1>2. SumFunctionOnSet(f, Products) <= SumFunctionOnSet(g, Products)
  BY <1>1, ProductsFinite, SumMonotonic
<1>3. QED
  BY <1>2, AmountIs DEF f, g

LEMMA AmountSame ==
  ASSUME NEW prices, NEW paid, NEW units,
         \A p \in Products : /\ prices[p] * units[p] \in Int
                             /\ paid[p] * units[p] = prices[p] * units[p]
  PROVE  Amount(paid, units) = Amount(prices, units)
<1> DEFINE f == [p \in Products |-> paid[p] * units[p]]
           g == [p \in Products |-> prices[p] * units[p]]
<1>1. \A p \in Products : f[p] \in Int /\ f[p] = g[p]
  OBVIOUS
<1> HIDE DEF f, g
<1>2. SumFunctionOnSet(f, Products) = SumFunctionOnSet(g, Products)
  BY <1>1, ProductsFinite, SumSame
<1>3. QED
  BY <1>2, AmountIs DEF f, g

LEMMA AmountEmpty == Amount(EmptyCart, EmptyCart) = 0
<1> DEFINE f == [p \in Products |-> EmptyCart[p] * EmptyCart[p]]
<1>1. \A p \in Products : f[p] = 0
  BY DEF EmptyCart
<1> HIDE DEF f
<1>2. SumFunctionOnSet(f, Products) = 0
  BY <1>1, ProductsFinite, SumZero
<1>3. QED
  BY <1>2, AmountIs DEF f

-----------------------------------------------------------------------------
(* Coupons and sessions.                                                   *)

IInv == /\ coupons \in [Codes -> Coupons \cup {NoCoupon}]
        /\ today \in Days
        /\ session \in Sessions

(* Where a conversation goes without touching its cart.                    *)
LEMMA SessionFacts ==
  ASSUME NEW s \in Sessions,
         NEW state \in {"IDLE", "SHOP_LIST", "POST_ADD", "CART", "APPLY_COUPON", "COLLECT_NAME"},
         NEW k \in Codes \cup {NoCode}
  PROVE  /\ [s EXCEPT !.state = state] \in Sessions
         /\ [s EXCEPT !.state = state, !.code = k] \in Sessions
BY DEF Sessions

LEMMA NoSessionType == NoSession \in Sessions
BY PricingAssumption DEF NoSession, Sessions, Carts, EmptyCart

LEMMA AddToCartSession ==
  ASSUME IInv, NEW p \in Products, AddToCart(p)
  PROVE  session' \in Sessions
<1> DEFINE cart == [session.cart EXCEPT ![p] = @ + 1]
<1>1. session' = [state |-> "POST_ADD", cart |-> cart, code |-> session.code]
  BY DEF AddToCart, Goto, IInv, Sessions
<1>2. cart \in Carts
  <2>1. session.cart \in [Products -> 0 .. MaxUnits] /\ session.cart[p] < MaxUnits
    BY DEF AddToCart, IInv, Sessions, Carts
  <2>2. MaxUnits \in Nat /\ session.cart[p] \in 0 .. MaxUnits
    BY <2>1, PricingAssumption
  <2>3. session.cart[p] + 1 \in 0 .. MaxUnits
    BY <2>1, <2>2
  <2>4. QED
    BY <2>1, <2>3 DEF Carts
<1>3. QED
  BY <1>1, <1>2 DEF IInv, Sessions

LEMMA CustomerIInv ==
  ASSUME IInv,
         \/ StartShop \/ ContinueShopping \/ ViewCart \/ AskCoupon
         \/ StartCheckout \/ CollectName \/ Leave
         \/ \E p \in Products : AddToCart(p)
         \/ \E k \in Codes : ApplyCoupon(k)
  PROVE  IInv'
<1>1. UNCHANGED <<coupons, today>>
  BY DEF StartShop, ContinueShopping, ViewCart, AskCoupon, StartCheckout, CollectName, Leave,
     AddToCart, ApplyCoupon, Checkout
<1>2. CASE StartShop \/ Leave
  BY <1>1, <1>2, NoSessionType, SessionFacts DEF StartShop, Leave, Goto, IInv
<1>3. CASE ContinueShopping \/ ViewCart \/ AskCoupon
  BY <1>1, <1>3, SessionFacts DEF ContinueShopping, ViewCart, AskCoupon, SendCart, Goto, IInv
<1>4. CASE StartCheckout
  <2>1. session' = NoSession \/ session' = [session EXCEPT !.state = "COLLECT_NAME"]
    BY <1>4 DEF StartCheckout, Checkout, Goto
  <2>2. QED
    BY <1>1, <2>1, NoSessionType, SessionFacts DEF IInv
<1>5. CASE CollectName
  BY <1>1, <1>5, NoSessionType DEF CollectName, Checkout, IInv
<1>6. ASSUME NEW p \in Products, AddToCart(p)
      PROVE  IInv'
  BY <1>1, <1>6, AddToCartSession DEF IInv
<1>7. ASSUME NEW k \in Codes, ApplyCoupon(k)
      PROVE  IInv'
  <2>1. session.code \in Codes \cup {NoCode}
    BY DEF IInv, Sessions
  <2>2. PICK j \in Codes \cup {NoCode} : session' = [session EXCEPT !.state = "CART", !.code = j]
    <3>1. CASE Usable(k)
      BY <1>7, <3>1 DEF ApplyCoupon, SendCart
    <3>2. CASE ~Usable(k)
      BY <1>7, <2>1, <3>2 DEF ApplyCoupon, SendCart
    <3>3. QED
      BY <3>1, <3>2
  <2>3. QED
    BY <1>1, <2>2, SessionFacts DEF IInv
<1>8. QED
  BY <1>2, <1>3, <1>4, <1>5, <1>6, <1>7

LEMMA MerchantIInv ==
  ASSUME IInv,
         \/ NextDay
         \/ \E p \in Products : SetSellable(p) \/ \E n \in Prices : SetPrice(p, n)
         \/ \E k \in Codes : ToggleCoupon(k) \/ \E c \in Coupons : CreateCoupon(k, c)
  PROVE  IInv'
<1>1. session' = session
  BY DEF NextDay, SetSellable, SetPrice, ToggleCoupon, CreateCoupon, Edit
<1>2. CASE NextDay
  BY <1>1, <1>2, PricingAssumption DEF NextDay, IInv, Days
<1>3. ASSUME NEW p \in Products, SetSellable(p) \/ \E n \in Prices : SetPrice(p, n)
      PROVE  IInv'
  BY <1>1, <1>3 DEF SetSellable, SetPrice, Edit, IInv
<1>4. ASSUME NEW k \in Codes, ToggleCoupon(k)
      PROVE  IInv'
  <2>1. coupons[k] \in Coupons
    BY <1>4 DEF ToggleCoupon, IInv
  <2>2. [coupons[k] EXCEPT !.active = ~@] \in Coupons
    BY <2>1 DEF Coupons
  <2>3. coupons' = [coupons EXCEPT ![k] = [coupons[k] EXCEPT !.active = ~@]]
    BY <1>4 DEF ToggleCoupon, IInv
  <2>4. QED
    BY <1>1, <1>4, <2>2, <2>3 DEF ToggleCoupon, Edit, IInv
<1>5. ASSUME NEW k \in Codes, NEW c \in Coupons, CreateCoupon(k, c)
      PROVE  IInv'
  BY <1>1, <1>5 DEF CreateCoupon, Edit, IInv
<1>6. QED
  BY <1>2, <1>3, <1>4, <1>5

LEMMA InitIInv == Init => IInv
BY NoSessionType, PricingAssumption DEF Init, IInv, Days

LEMMA NextIInv == IInv /\ [Next]_vars => IInv'
<1> SUFFICES ASSUME IInv, [Next]_vars
             PROVE  IInv'
  OBVIOUS
<1>1. CASE UNCHANGED vars
  BY <1>1 DEF vars, IInv
<1>2. CASE Next
  BY <1>2, CustomerIInv, MerchantIInv DEF Next
<1>3. QED
  BY <1>1, <1>2

(* The order names the coupon exactly if checkout_cart could use it.       *)
LEMMA CheckoutNames ==
  ASSUME IInv, Checkout, order' # order, session.code # NoCode
  PROVE  order'.code = session.code <=> Usable(session.code)
BY DEF Checkout

LEMMA UsableFacts ==
  ASSUME IInv, session.code # NoCode
  PROVE  LET c == coupons[session.code]
             over == c.lastDay \in Days /\ today \in c.lastDay + 1 .. MaxDay
         IN  Usable(session.code) <=> c.active /\ ~over
<1> DEFINE c == coupons[session.code]
           over == c.lastDay \in Days /\ today \in c.lastDay + 1 .. MaxDay
<1>1. c \in Coupons \cup {NoCoupon}
  BY DEF IInv, Sessions
<1>2. c.lastDay \in Days \cup {Never} /\ (c = NoCoupon => ~c.active)
  BY <1>1 DEF Coupons, NoCoupon
<1>3. MaxDay \in Nat /\ today \in 1 .. MaxDay
  BY PricingAssumption DEF IInv, Days
<1>4. Usable(session.code) <=>
        c # NoCoupon /\ c.active /\ (c.lastDay # Never => c.lastDay >= today)
  BY DEF Usable
<1> HIDE DEF c
<1>5. (c.lastDay # Never => c.lastDay >= today) <=> ~over
  <2>1. CASE c.lastDay = Never
    BY <1>3, <2>1 DEF Days, Never
  <2>2. CASE c.lastDay \in 1 .. MaxDay
    BY <1>3, <2>2 DEF Days, Never
  <2>3. QED
    BY <1>2, <2>1, <2>2 DEF Days
<1>6. Usable(session.code) <=> c.active /\ ~over
  BY <1>2, <1>4, <1>5
<1>7. QED
  BY <1>6 DEF c

(* Only a checkout places an order, out of a cart the customer was shown.  *)
LEMMA PlacedByCheckout ==
  ASSUME Next, Placed
  PROVE  Checkout /\ session.state \in {"CART", "COLLECT_NAME"}
<1>1. CASE StartShop
  BY <1>1 DEF StartShop, Placed, NoOrder
<1>2. CASE ContinueShopping \/ ViewCart \/ AskCoupon \/ Leave \/ NextDay
  BY <1>2 DEF ContinueShopping, ViewCart, AskCoupon, Leave, NextDay, Placed
<1>3. CASE StartCheckout
  BY <1>3 DEF StartCheckout, Placed
<1>4. CASE CollectName
  BY <1>4 DEF CollectName
<1>5. ASSUME NEW p \in Products,
             AddToCart(p) \/ SetSellable(p) \/ \E n \in Prices : SetPrice(p, n)
      PROVE  FALSE
  BY <1>5 DEF AddToCart, SetSellable, SetPrice, Edit, Placed
<1>6. ASSUME NEW k \in Codes,
             ApplyCoupon(k) \/ ToggleCoupon(k) \/ \E c \in Coupons : CreateCoupon(k, c)
      PROVE  FALSE
  BY <1>6 DEF ApplyCoupon, ToggleCoupon, CreateCoupon, Edit, Placed
<1>7. QED
  BY <1>1, <1>2, <1>3, <1>4, <1>5, <1>6 DEF Next

(* checkout_cart judges the coupon anew: it counts exactly if it is        *)
(* switched on and its last day is not over when the order is made.        *)
THEOREM CouponCountsAlways == Spec => CouponCountsToItsLastDay
<1>1. ASSUME IInv, [Next]_vars, Placed, session.code # NoCode
      PROVE  LET c == coupons[session.code]
                 over == c.lastDay \in Days /\ today \in c.lastDay + 1 .. MaxDay
             IN  order'.code = session.code <=> c.active /\ ~over
  <2>1. Next
    BY <1>1 DEF vars, Placed
  <2>2. Checkout
    BY <1>1, <2>1, PlacedByCheckout
  <2>3. order'.code = session.code <=> Usable(session.code)
    BY <1>1, <2>2, CheckoutNames DEF Placed
  <2>4. QED
    BY <1>1, <2>3, UsableFacts
<1>2. IInv /\ [Next]_vars =>
        [Placed /\ session.code # NoCode =>
           LET c == coupons[session.code]
               over == c.lastDay \in Days /\ today \in c.lastDay + 1 .. MaxDay
           IN  order'.code = session.code <=> c.active /\ ~over]_vars
  BY <1>1
<1>3. QED
  BY <1>2, InitIInv, NextIInv, PTL DEF Spec, CouponCountsToItsLastDay

-----------------------------------------------------------------------------
(* What a cart costs, what the customer was told, what an order says.      *)

(* The coupon an order names was never taken out of the table.             *)
NamedExists == order.code # NoCode => coupons[order.code] # NoCoupon

(* The states of the conversation that follow a cart message and come      *)
(* before anything can be put into the cart.                               *)
Deciding == {"CART", "APPLY_COUPON", "COLLECT_NAME"}
Net(units, k) == Subtotal(units) - Discount(units, k)

ToldRight ==
  current /\ session.state \in Deciding => told = Net(session.cart, session.code)

ChargeInv == TypeOK /\ NamedExists /\ OrderAddsUp /\ ToldRight

LEMMA TypeParts == TypeOK => IInv
BY DEF TypeOK, IInv

LEMMA CartTypes ==
  ASSUME TypeOK
  PROVE  /\ \A p \in Products : price[p] \in Int
         /\ \A units \in Carts : \A p \in Products : units[p] \in Nat
         /\ session.cart \in Carts /\ session.code \in Codes \cup {NoCode}
         /\ EmptyCart \in Carts
<1>1. Prices \subseteq Int /\ MaxUnits \in Nat
  BY PricingAssumption
<1>2. \A p \in Products : price[p] \in Int
  BY <1>1 DEF TypeOK
<1>3. 0 .. MaxUnits \subseteq Nat /\ 0 \in 0 .. MaxUnits
  BY <1>1
<1>4. \A units \in Carts : \A p \in Products : units[p] \in Nat
  BY <1>3 DEF Carts
<1>5. session.cart \in Carts /\ session.code \in Codes \cup {NoCode}
  BY DEF TypeOK, Sessions
<1>6. EmptyCart \in Carts
  BY <1>3 DEF Carts, EmptyCart
<1>7. QED
  BY <1>2, <1>4, <1>5, <1>6

LEMMA DiscountType ==
  ASSUME TypeOK, NEW units \in Carts, NEW k \in Codes \cup {NoCode}
  PROVE  /\ Subtotal(units) \in Int
         /\ Discount(units, k) \in Int
         /\ Usable(k) \/ 0 <= Subtotal(units) => Discount(units, k) <= Subtotal(units)
         /\ Usable(k) => coupons[k] \in Coupons
<1>1. Subtotal(units) \in Int
  BY CartTypes, AmountType DEF Subtotal
<1>2. Usable(k) => coupons[k] \in Coupons
  BY DEF Usable, TypeOK
<1>3. CASE Usable(k)
  BY <1>1, <1>2, <1>3, DiscountWithinSubtotal DEF Discount
<1>4. CASE ~Usable(k)
  BY <1>1, <1>4 DEF Discount
<1>5. QED
  BY <1>1, <1>2, <1>3, <1>4

LEMMA NetType ==
  ASSUME TypeOK, NEW units \in Carts, NEW k \in Codes \cup {NoCode}
  PROVE  Net(units, k) \in Int
<1> DEFINE s == Subtotal(units)
           d == Discount(units, k)
<1>1. s \in Int /\ d \in Int
  BY DiscountType
<1> HIDE DEF s, d
<1>2. s - d \in Int
  BY <1>1
<1>3. QED
  BY <1>2 DEF Net, s, d

(* Where no price is negative a cart with fewer units costs no more, under *)
(* any coupon.                                                             *)
LEMMA NetOfLess ==
  ASSUME TypeOK, NEW units \in Carts, NEW more \in Carts, NEW k \in Codes \cup {NoCode},
         \A p \in Products : units[p] <= more[p],
         \A p \in Products : 0 <= price[p]
  PROVE  Net(units, k) <= Net(more, k)
<1>0. \A p \in Products : price[p] \in Nat /\ units[p] \in Nat /\ more[p] \in Nat
  BY CartTypes
<1>1. Subtotal(units) \in Nat /\ Subtotal(more) \in Nat /\ Subtotal(units) <= Subtotal(more)
  BY <1>0, AmountType, AmountGrows DEF Subtotal
<1>2. CASE Usable(k)
  BY <1>1, <1>2, DiscountType, NetGrows DEF Net, Discount
<1>3. CASE ~Usable(k)
  BY <1>1, <1>3 DEF Net, Discount
<1>4. QED
  BY <1>2, <1>3

LEMMA NoOrderFacts ==
  /\ NoOrder \in [units : Carts, paid : [Products -> Int], code : Codes \cup {NoCode},
                  subtotal : Int, discount : Int, total : Int]
  /\ NoOrder.code = NoCode /\ NoOrder.subtotal = 0 /\ NoOrder.discount = 0
  /\ NoOrder.total = 0 /\ NoOrder.subtotal = Amount(NoOrder.paid, NoOrder.units)
<1>1. EmptyCart \in Carts /\ EmptyCart \in [Products -> Int]
  BY PricingAssumption DEF EmptyCart, Carts
<1>2. QED
  BY <1>1, AmountEmpty DEF NoOrder

LEMMA InitChargeInv == Init => ChargeInv
<1> SUFFICES ASSUME Init
             PROVE  ChargeInv
  OBVIOUS
<1>1. IInv
  BY InitIInv
<1>2. order = NoOrder
  BY DEF Init
<1>3. TypeOK
  <2>1. MaxEdits \in Nat
    BY PricingAssumption
  <2>2. edits \in 0 .. MaxEdits
    BY <2>1 DEF Init
  <2>3. QED
    BY <1>1, <1>2, <2>2, NoOrderFacts DEF Init, IInv, TypeOK
<1>4. OrderAddsUp /\ NamedExists
  BY <1>2, NoOrderFacts DEF OrderAddsUp, NamedExists
<1>5. ToldRight
  BY DEF Init, ToldRight
<1>6. QED
  BY <1>3, <1>4, <1>5 DEF ChargeInv

(* A step of the conversation short of a checkout: it stays at its cart,   *)
(* or sends it anew, or leaves it.                                         *)
Talks ==
  /\ UNCHANGED <<price, sellable, coupons, today, edits>> /\ known' \in BOOLEAN
  /\ order' \in {order, NoOrder}
  /\ \/ /\ UNCHANGED <<told, current>>
        /\ session'.state \in Deciding =>
             /\ session.state \in Deciding
             /\ session'.cart = session.cart /\ session'.code = session.code
     \/ /\ session' \in Sessions
        /\ told' = Net(session'.cart, session'.code) /\ current' = TRUE

LEMMA TalkSteps ==
  ASSUME TypeOK,
         \/ StartShop \/ ContinueShopping \/ Leave \/ \E p \in Products : AddToCart(p)
         \/ AskCoupon \/ (StartCheckout /\ ~known)
         \/ ViewCart \/ \E k \in Codes : ApplyCoupon(k)
  PROVE  Talks
<1>0. known \in BOOLEAN /\ session \in Sessions
  BY DEF TypeOK
<1>1. CASE StartShop \/ ContinueShopping \/ Leave \/ \E p \in Products : AddToCart(p)
  <2>1. session'.state \in {"SHOP_LIST", "POST_ADD", "IDLE"}
    <3>1. CASE StartShop \/ ContinueShopping \/ Leave
      BY <1>0, <3>1 DEF StartShop, ContinueShopping, Leave, Goto, NoSession, Sessions
    <3>2. ASSUME NEW p \in Products, AddToCart(p)
          PROVE  session'.state = "POST_ADD"
      <4>1. session' = [session EXCEPT !.state = "POST_ADD", !.cart[p] = @ + 1]
        BY <3>2 DEF AddToCart, Goto
      <4>2. QED
        BY <1>0, <4>1 DEF Sessions
    <3>3. QED
      BY <1>1, <3>1, <3>2
  <2>2. session'.state \notin Deciding
    BY <2>1 DEF Deciding
  <2>3. QED
    BY <1>0, <1>1, <2>2 DEF StartShop, ContinueShopping, Leave, AddToCart, Goto, Talks
<1>2. CASE AskCoupon \/ (StartCheckout /\ ~known)
  <2>1. /\ session.state \in Deciding
        /\ session'.cart = session.cart /\ session'.code = session.code
    BY <1>0, <1>2 DEF AskCoupon, StartCheckout, Goto, Deciding, Sessions
  <2>2. QED
    BY <1>0, <1>2, <2>1 DEF AskCoupon, StartCheckout, Goto, Talks
<1>3. CASE ViewCart \/ \E k \in Codes : ApplyCoupon(k)
  <2>1. session' \in Sessions
    BY <1>3, CustomerIInv, TypeParts DEF IInv
  <2>2. QED
    BY <1>0, <1>3, <2>1 DEF ViewCart, ApplyCoupon, SendCart, Net, Talks
<1>4. QED
  BY <1>1, <1>2, <1>3

LEMMA TalkInv ==
  ASSUME ChargeInv, Talks, IInv'
  PROVE  ChargeInv'
<1>0. TypeOK /\ UNCHANGED <<price, sellable, coupons, today, edits>>
  BY DEF ChargeInv, Talks
<1>1. \A units, k : Net(units, k)' = Net(units, k)
  BY <1>0 DEF Net, Subtotal, Discount, Usable
<1>2. told' \in Int /\ current' \in BOOLEAN /\ ToldRight'
  <2>1. CASE /\ UNCHANGED <<told, current>>
             /\ session'.state \in Deciding =>
                  /\ session.state \in Deciding
                  /\ session'.cart = session.cart /\ session'.code = session.code
    BY <1>0, <1>1, <2>1 DEF ChargeInv, ToldRight, TypeOK
  <2>2. CASE /\ session' \in Sessions
             /\ told' = Net(session'.cart, session'.code) /\ current' = TRUE
    <3>1. session'.cart \in Carts /\ session'.code \in Codes \cup {NoCode}
      BY <2>2 DEF Sessions
    <3>2. QED
      BY <1>0, <1>1, <2>2, <3>1, NetType DEF ToldRight
  <2>3. QED
    BY <2>1, <2>2 DEF Talks
<1>3. TypeOK'
  BY <1>0, <1>2, NoOrderFacts DEF Talks, TypeOK, IInv
<1>4. CASE order' = order
  BY <1>0, <1>2, <1>3, <1>4 DEF ChargeInv, OrderAddsUp, NamedExists
<1>5. CASE order' = NoOrder
  <2>1. OrderAddsUp' /\ NamedExists'
    BY <1>5, NoOrderFacts DEF OrderAddsUp, NamedExists
  <2>2. QED
    BY <1>2, <1>3, <2>1 DEF ChargeInv
<1>6. QED
  BY <1>4, <1>5 DEF Talks

(* What the merchant edits: neither the order nor the terms of a coupon    *)
(* that exists, and the message only stands if prices and coupons do.      *)
Edits ==
  /\ UNCHANGED <<session, told, order, known>>
  /\ current' = FALSE \/ UNCHANGED <<price, coupons, today, current>>
  /\ price' \in [Products -> Prices] /\ sellable' \subseteq Products
  /\ edits' \in 0 .. MaxEdits
  /\ \A k \in Codes : coupons[k] # NoCoupon =>
       /\ coupons'[k] # NoCoupon
       /\ coupons'[k].type = coupons[k].type /\ coupons'[k].value = coupons[k].value

LEMMA EditSteps ==
  ASSUME TypeOK,
         \/ NextDay
         \/ \E p \in Products : SetSellable(p) \/ \E n \in Prices : SetPrice(p, n)
         \/ \E k \in Codes : ToggleCoupon(k) \/ \E c \in Coupons : CreateCoupon(k, c)
  PROVE  Edits
<1>1. CASE NextDay
  BY <1>1 DEF NextDay, Edits, TypeOK
<1>2. ASSUME Edit
      PROVE  /\ UNCHANGED <<session, told, order, known>> /\ current' = FALSE
             /\ edits' \in 0 .. MaxEdits
  <2>1. edits \in 0 .. MaxEdits /\ edits < MaxEdits /\ MaxEdits \in Nat
    BY <1>2, PricingAssumption DEF Edit, TypeOK
  <2>2. edits + 1 \in 0 .. MaxEdits
    BY <2>1
  <2>3. QED
    BY <1>2, <2>2 DEF Edit
<1>3. ASSUME NEW p \in Products, SetSellable(p)
      PROVE  Edits
  <2>1. edits \in 0 .. MaxEdits /\ edits < MaxEdits /\ MaxEdits \in Nat
    BY <1>3, PricingAssumption DEF SetSellable, TypeOK
  <2>2. edits + 1 \in 0 .. MaxEdits
    BY <2>1
  <2>3. QED
    BY <1>3, <2>2 DEF SetSellable, Edits, TypeOK
<1>4. ASSUME NEW p \in Products, NEW n \in Prices, SetPrice(p, n)
      PROVE  Edits
  BY <1>2, <1>4 DEF SetPrice, Edits, TypeOK
<1>5. ASSUME NEW k \in Codes, ToggleCoupon(k)
      PROVE  Edits
  <2>1. coupons[k] \in Coupons
    BY <1>5 DEF ToggleCoupon, TypeOK
  <2>2. coupons' = [coupons EXCEPT ![k] = [coupons[k] EXCEPT !.active = ~@]]
    BY <1>5 DEF ToggleCoupon, TypeOK
  <2>3. LET c == [coupons[k] EXCEPT !.active = ~@]
        IN  c # NoCoupon /\ c.type = coupons[k].type /\ c.value = coupons[k].value
    BY <2>1 DEF Coupons, NoCoupon
  <2>4. \A j \in Codes : coupons[j] # NoCoupon =>
          /\ coupons'[j] # NoCoupon
          /\ coupons'[j].type = coupons[j].type /\ coupons'[j].value = coupons[j].value
    BY <2>2, <2>3 DEF TypeOK
  <2>5. QED
    BY <1>2, <1>5, <2>4 DEF ToggleCoupon, Edits, TypeOK
<1>6. ASSUME NEW k \in Codes, NEW c \in Coupons, CreateCoupon(k, c)
      PROVE  Edits
  <2>1. \A j \in Codes : coupons[j] # NoCoupon => coupons'[j] = coupons[j]
    BY <1>6 DEF CreateCoupon, TypeOK
  <2>2. QED
    BY <1>2, <1>6, <2>1 DEF CreateCoupon, Edits, TypeOK
<1>7. QED
  BY <1>1, <1>3, <1>4, <1>5, <1>6

LEMMA EditInv ==
  ASSUME ChargeInv, Edits, IInv'
  PROVE  ChargeInv'
<1>1. TypeOK'
  <2>1. current' \in BOOLEAN
    BY DEF ChargeInv, Edits, TypeOK
  <2>2. QED
    BY <2>1 DEF ChargeInv, Edits, TypeOK, IInv
<1>2. order' = order /\ order.code \in Codes \cup {NoCode}
  BY DEF ChargeInv, Edits, TypeOK
<1>3. order.code # NoCode =>
        /\ coupons[order.code] # NoCoupon /\ coupons'[order.code] # NoCoupon
        /\ coupons'[order.code].type = coupons[order.code].type
        /\ coupons'[order.code].value = coupons[order.code].value
  BY <1>2 DEF ChargeInv, NamedExists, Edits
<1>4. NamedExists'
  BY <1>2, <1>3 DEF NamedExists
<1>5. OrderAddsUp'
  BY <1>2, <1>3 DEF ChargeInv, OrderAddsUp
<1>6. ToldRight'
  BY DEF ChargeInv, Edits, ToldRight, Net, Subtotal, Discount, Usable
<1>7. QED
  BY <1>1, <1>4, <1>5, <1>6 DEF ChargeInv

(* What checkout_cart keeps of the cart.                                   *)
Kept == [p \in Products |-> IF p \in sellable THEN session.cart[p] ELSE 0]

LEMMA KeptFacts ==
  ASSUME TypeOK
  PROVE  Kept \in Carts /\ \A p \in Products : Kept[p] <= session.cart[p]
<1>1. session.cart \in [Products -> 0 .. MaxUnits] /\ MaxUnits \in Nat
  BY PricingAssumption DEF TypeOK, Sessions, Carts
<1>2. QED
  BY <1>1 DEF Kept, Carts

(* Its order, field by field.                                              *)
LEMMA CheckoutOrder ==
  ASSUME Checkout
  PROVE  \/ order' = order
         \/ /\ order'.units = Kept
            /\ order'.paid = [p \in Products |-> IF Kept[p] > 0 THEN price[p] ELSE 0]
            /\ order'.code = IF Usable(session.code) THEN session.code ELSE NoCode
            /\ order'.subtotal = Subtotal(Kept)
            /\ order'.discount = Discount(Kept, session.code)
            /\ order'.total = Subtotal(Kept) - Discount(Kept, session.code)
            /\ order' = [units |-> order'.units, paid |-> order'.paid, code |-> order'.code,
                         subtotal |-> order'.subtotal, discount |-> order'.discount,
                         total |-> order'.total]
BY DEF Checkout, Kept

LEMMA CheckoutInv ==
  ASSUME ChargeInv, Checkout, IInv', known' \in BOOLEAN
  PROVE  ChargeInv'
<1>0. /\ TypeOK /\ UNCHANGED <<price, sellable, coupons, today, told, current, edits>>
      /\ session' = NoSession
  BY DEF ChargeInv, Checkout
<1>1. ToldRight'
  BY <1>0 DEF ToldRight, Deciding, NoSession
<1>2. CASE order' = order
  <2>1. TypeOK'
    BY <1>0, <1>2 DEF TypeOK, IInv
  <2>2. OrderAddsUp' /\ NamedExists'
    BY <1>0, <1>2 DEF ChargeInv, OrderAddsUp, NamedExists
  <2>3. QED
    BY <1>1, <2>1, <2>2 DEF ChargeInv
<1>3. CASE order' # order
  <2> DEFINE s == Subtotal(Kept)
             d == Discount(Kept, session.code)
             paid == [p \in Products |-> IF Kept[p] > 0 THEN price[p] ELSE 0]
  <2>1. /\ order'.units = Kept /\ order'.paid = paid
        /\ order'.code = IF Usable(session.code) THEN session.code ELSE NoCode
        /\ order'.subtotal = s /\ order'.discount = d /\ order'.total = s - d
        /\ order' = [units |-> order'.units, paid |-> order'.paid, code |-> order'.code,
                     subtotal |-> order'.subtotal, discount |-> order'.discount,
                     total |-> order'.total]
    BY <1>3, CheckoutOrder
  <2>2. /\ Kept \in Carts /\ session.code \in Codes \cup {NoCode}
        /\ \A p \in Products : price[p] \in Int /\ Kept[p] \in Nat
    BY <1>0, KeptFacts, CartTypes
  <2>3. /\ s \in Int /\ d \in Int
        /\ Usable(session.code) \/ 0 <= s => d <= s
        /\ Usable(session.code) => coupons[session.code] \in Coupons
    BY <1>0, <2>2, DiscountType
  <2>4. s = Amount(paid, Kept)
    <3>1. ASSUME NEW p \in Products
          PROVE  price[p] * Kept[p] \in Int /\ paid[p] * Kept[p] = price[p] * Kept[p]
      <4>1. price[p] \in Int /\ Kept[p] \in Nat /\ (Kept[p] = 0 \/ paid[p] = price[p])
        BY <2>2
      <4>2. \A i, j, k \in Int : i * k \in Int /\ (k = 0 => j * k = i * k)
        OBVIOUS
      <4>3. paid[p] \in Int
        BY <4>1
      <4>4. QED
        BY <4>1, <4>2, <4>3
    <3> HIDE DEF paid
    <3>2. QED
      BY <3>1, AmountSame DEF Subtotal
  <2>5. paid \in [Products -> Int]
    BY <2>2
  <2>6. d = IF Usable(session.code) THEN ComputeDiscount(s, coupons[session.code]) ELSE 0
    BY DEF Discount
  <2> HIDE DEF s, d, paid
  <2>7. s - d \in Int /\ (Usable(session.code) \/ 0 <= s => 0 <= s - d)
    BY <2>3
  <2>8. TypeOK'
    <3>1. order' \in [units : Carts, paid : [Products -> Int], code : Codes \cup {NoCode},
                      subtotal : Int, discount : Int, total : Int]
      BY <2>1, <2>2, <2>3, <2>5, <2>7
    <3>2. QED
      BY <1>0, <3>1 DEF TypeOK, IInv
  <2>9. Usable(session.code) => session.code # NoCode /\ coupons[session.code] # NoCoupon
    BY DEF Usable
  <2>10. NamedExists'
    BY <1>0, <2>1, <2>9 DEF NamedExists
  <2>11. OrderAddsUp'
    <3>1. order'.subtotal = Amount(order'.paid, order'.units)
      BY <2>1, <2>4
    <3>2. /\ order'.total = order'.subtotal - order'.discount
          /\ order'.code # NoCode \/ 0 <= order'.subtotal => 0 <= order'.total
      BY <2>1, <2>7
    <3>3. CASE ~Usable(session.code)
      BY <2>1, <2>6, <3>1, <3>2, <3>3 DEF OrderAddsUp
    <3>4. CASE Usable(session.code)
      <4> DEFINE c == coupons[session.code]
      <4>1. c \in Coupons /\ order'.code = session.code /\ session.code # NoCode
        BY <2>1, <2>3, <2>9, <3>4
      <4>2. order'.discount = ComputeDiscount(s, c)
        BY <2>1, <2>6, <3>4
      <4>3. c.type = "flat" => order'.discount = IF c.value <= s THEN c.value ELSE s
        BY <2>3, <4>1, <4>2, FlatExplained
      <4>4. c.type = "percentage" =>
              IF 0 <= s THEN IsPartOf(order'.discount, s, c.value)
                        ELSE order'.discount = s
        BY <2>3, <4>1, <4>2, PercentageExplained
      <4>5. coupons'[order'.code] = c
        BY <1>0, <4>1
      <4> HIDE DEF c
      <4>6. QED
        BY <2>1, <3>1, <3>2, <4>1, <4>3, <4>4, <4>5 DEF OrderAddsUp
    <3>5. QED
      BY <3>3, <3>4
  <2>12. QED
    BY <1>1, <2>8, <2>10, <2>11 DEF ChargeInv
<1>4. QED
  BY <1>2, <1>3

LEMMA NextChargeInv == ChargeInv /\ [Next]_vars => ChargeInv'
<1> SUFFICES ASSUME ChargeInv, [Next]_vars
             PROVE  ChargeInv'
  OBVIOUS
<1>0. TypeOK /\ IInv'
  BY TypeParts, NextIInv DEF ChargeInv
<1>1. CASE UNCHANGED vars
  BY <1>1 DEF vars, ChargeInv, TypeOK, NamedExists, OrderAddsUp, ToldRight, Net, Subtotal,
     Discount, Usable
<1>2. ASSUME Talks
      PROVE  ChargeInv'
  BY <1>0, <1>2, TalkInv
<1>3. ASSUME Edits
      PROVE  ChargeInv'
  BY <1>0, <1>3, EditInv
<1>4. CASE (StartCheckout /\ known) \/ CollectName
  <2>1. Checkout /\ known' \in BOOLEAN
    BY <1>0, <1>4 DEF StartCheckout, CollectName, TypeOK
  <2>2. QED
    BY <1>0, <2>1, CheckoutInv
<1>5. CASE Next
  <2>1. CASE \/ StartShop \/ ContinueShopping \/ Leave \/ \E p \in Products : AddToCart(p)
             \/ AskCoupon \/ (StartCheckout /\ ~known)
             \/ ViewCart \/ \E k \in Codes : ApplyCoupon(k)
    BY <1>0, <1>2, <2>1, TalkSteps
  <2>2. CASE \/ NextDay
             \/ \E p \in Products : SetSellable(p) \/ \E n \in Prices : SetPrice(p, n)
             \/ \E k \in Codes : ToggleCoupon(k) \/ \E c \in Coupons : CreateCoupon(k, c)
    BY <1>0, <1>3, <2>2, EditSteps
  <2>3. QED
    BY <1>4, <1>5, <2>1, <2>2 DEF Next
<1>6. QED
  BY <1>1, <1>5

(* Every variable keeps its type.                                          *)
THEOREM TypeCorrect == Spec => []TypeOK
<1>1. ChargeInv => TypeOK
  BY DEF ChargeInv
<1>2. QED
  BY <1>1, InitChargeInv, NextChargeInv, PTL DEF Spec

(* An order explains itself for good: its items add up to its subtotal and *)
(* the coupon it names still gives its discount, whatever was edited       *)
(* since, and no coupon takes a total below zero.                          *)
THEOREM OrderAddsUpAlways == Spec => []OrderAddsUp
<1>1. ChargeInv => OrderAddsUp
  BY DEF ChargeInv
<1>2. QED
  BY <1>1, InitChargeInv, NextChargeInv, PTL DEF Spec

(* Unless a price, a coupon or the day changed since the last cart         *)
(* message, the whole cart costs exactly what it said, and what is left of *)
(* it costs no more where no price is negative, whatever the coupon and    *)
(* however it rounds.                                                      *)
THEOREM ChargedAsToldAlways == Spec => ChargedAsTold
<1>1. ASSUME ChargeInv, [Next]_vars, Placed, current
      PROVE  /\ order'.units = session.cart => order'.total = told
             /\ (\A p \in Products : 0 <= price[p]) => order'.total <= told
  <2>1. Next /\ TypeOK
    BY <1>1 DEF vars, Placed, ChargeInv
  <2>2. Checkout /\ session.state \in Deciding
    BY <1>1, <2>1, PlacedByCheckout DEF Deciding
  <2>3. told = Net(session.cart, session.code)
    BY <1>1, <2>2 DEF ChargeInv, ToldRight
  <2>4. order'.units = Kept /\ order'.total = Net(Kept, session.code)
    BY <1>1, <2>2, CheckoutOrder DEF Placed, Net
  <2>5. (\A p \in Products : 0 <= price[p]) =>
          Net(Kept, session.code) <= Net(session.cart, session.code)
    BY <2>1, KeptFacts, CartTypes, NetOfLess
  <2>6. QED
    BY <2>3, <2>4, <2>5
<1>2. ChargeInv /\ [Next]_vars =>
        [Placed /\ current =>
           /\ order'.units = session.cart => order'.total = told
           /\ (\A p \in Products : 0 <= price[p]) => order'.total <= told]_vars
  BY <1>1
<1>3. QED
  BY <1>2, InitChargeInv, NextChargeInv, PTL DEF Spec, ChargedAsTold
=============================================================================
