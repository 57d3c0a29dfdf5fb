----------------------------- MODULE MCCheckout -----------------------------
EXTENDS Checkout, TLC

CONSTANTS p1, p2, c1, c2, c3

\* Three customers after two products: two take them in opposite orders, so
\* that they can wait for one another.
CrossedCart == (c1 :> <<p1, p2>>) @@ (c2 :> <<p2, p1>>) @@ (c3 :> <<p2>>)
TwoCrossedCart == (c1 :> <<p1, p2>>) @@ (c2 :> <<p2, p1>>)

\* c1 wants two units of p1, everybody else one of everything.
MCQuantity == [c \in Checkouts |-> [p \in Products |-> IF c = c1 /\ p = p1 THEN 2 ELSE 1]]
=============================================================================
