----------------------------- MODULE StockLedger -----------------------------
(***************************************************************************)
(* What checkout_cart promises (db/repository.py, its docstring), seen     *)
(* from outside: a sale takes the units of its items off the stock and     *)
(* creates the order listing them in one indivisible step, never beyond    *)
(* what is there, or does nothing at all.                                  *)
(***************************************************************************)
EXTENDS Integers

CONSTANTS Products,
          Checkouts,     \* checkout requests, each with its cart
          Cart,          \* Cart[c]: the products in the cart of c, as a sequence
          Quantity,      \* Quantity[c][p]: how many units of p the cart of c asks for
          MaxStock       \* the merchant's largest stock figure

VARIABLES stock,     \* stock[p]: products.stock_quantity
          active,    \* active[p]: products.is_active
          orders     \* orders[c]: the products of the order c created, {} for none

vars == <<stock, active, orders>>

Init ==
  /\ stock \in [Products -> 0 .. MaxStock]
  /\ active = [p \in Products |-> TRUE]
  /\ orders = [c \in Checkouts |-> {}]

Sell(c, items) ==
  /\ orders[c] = {}
  /\ items # {}
  /\ \A p \in items : /\ \E i \in DOMAIN Cart[c] : Cart[c][i] = p
                      /\ active[p]
                      /\ Quantity[c][p] <= stock[p]
  /\ stock' = [p \in Products |->
                 IF p \in items THEN stock[p] - Quantity[c][p] ELSE stock[p]]
  /\ orders' = [orders EXCEPT ![c] = items]
  /\ UNCHANGED active

(* The merchant's stock figure and on/off switch.                          *)
Restock(p, n) == stock' = [stock EXCEPT ![p] = n] /\ UNCHANGED <<active, orders>>
Switch(p) == active' = [active EXCEPT ![p] = ~@] /\ UNCHANGED <<stock, orders>>

Next ==
  \/ \E c \in Checkouts, items \in SUBSET Products : Sell(c, items)
  \/ \E p \in Products : Switch(p) \/ \E n \in 0 .. MaxStock : Restock(p, n)

Spec == Init /\ [][Next]_vars
=============================================================================
