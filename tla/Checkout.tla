------------------------------ MODULE Checkout ------------------------------
(***************************************************************************)
(* checkout_cart (db/repository.py) statement by statement, on the         *)
(* transactions that db/connection.py gives it and the row locks of        *)
(* PostgreSQL at READ COMMITTED.  Every checkout runs in a process of its  *)
(* own: a process has one connection and never suspends inside             *)
(* checkout_cart.                                                          *)
(*                                                                         *)
(* _PGConnection.execute answers an OperationalError by connecting anew    *)
(* and running the statement again, also inside a transaction: the new     *)
(* connection is in autocommit mode, what the transaction did so far is    *)
(* rolled back by the server, and the `with` block at the end commits the  *)
(* old connection.  A lost connection raises that error, and so does being *)
(* the victim of a deadlock.                                               *)
(*                                                                         *)
(* Prices and totals are left out (see README); an order is the set of     *)
(* products in its order_items, the quantities being those of the cart.    *)
(***************************************************************************)
EXTENDS Integers, Sequences, FiniteSets, Functions

CONSTANTS Products, Checkouts,
          Cart,        \* Cart[c]: the products in c's cart, in the order of its dict
          Quantity,    \* Quantity[c][p]: the units of p that c asks for
          MaxStock,    \* the merchant's largest stock figure
          MaxEvents    \* bound on checkouts begun, edits and lost connections, together

ASSUME CheckoutAssumption ==
  /\ Cart \in [Checkouts -> Seq(Products) \ {<<>>}]
  /\ \A c \in Checkouts : \A i, j \in DOMAIN Cart[c] : Cart[c][i] = Cart[c][j] => i = j
  /\ Quantity \in [Checkouts -> [Products -> Nat \ {0}]]
  /\ MaxStock \in Nat /\ MaxEvents \in Nat

VARIABLES stock, active,   \* the products table, committed
          orders,          \* orders[c]: the order row of c and its items, committed
          run,             \* run[c]: the execution of checkout_cart for c
          held,            \* held[c]: rows decremented, and so locked, by c's transaction
          staged,          \* staged[c]: the order as c's transaction wrote it
          supplied,        \* supplied[p]: units ever put on sale (history)
          events

vars == <<stock, active, orders, run, held, staged, supplied, events>>

NoOrder == [placed |-> FALSE, items |-> {}]
OrderRows == [placed : BOOLEAN, items : SUBSET Products]

(* next: the cart entry to take.  lines: line_items.  conn: whether        *)
(* statements still go to the connection of the transaction or to its      *)
(* replacement.  old: the connection the `with` block will commit.         *)
Executions == [pc    : {"idle", "take", "insert", "items", "commit", "done", "error"},
               next  : Nat \ {0},
               lines : SUBSET Products,
               conn  : {"transaction", "autocommit"},
               old   : {"open", "aborted", "closed"}]

NotStarted == [pc |-> "idle", next |-> 1, lines |-> {},
               conn |-> "transaction", old |-> "open"]

Locked(p, c) == \E d \in Checkouts \ {c} : p \in held[d]
InTransaction(c) == run[c].conn = "transaction"
Running(c) == run[c].pc \notin {"idle", "done", "error"}

Init ==
  /\ stock \in [Products -> 0 .. MaxStock]
  /\ active = [p \in Products |-> TRUE]
  /\ orders = [c \in Checkouts |-> NoOrder]
  /\ run = [c \in Checkouts |-> NotStarted]
  /\ held = [c \in Checkouts |-> {}]
  /\ staged = [c \in Checkouts |-> NoOrder]
  /\ supplied = stock
  /\ events = 0

-----------------------------------------------------------------------------
(* The statements of checkout_cart.                                        *)

Begin(c) ==
  /\ run[c].pc = "idle"
  /\ events < MaxEvents
  /\ events' = events + 1
  /\ run' = [run EXCEPT ![c].pc = "take"]
  /\ UNCHANGED <<stock, active, orders, held, staged, supplied>>

(* A definition followed by a longer name (MatchesUncounted, ...) is a way *)
(* to get it wrong, for the runs to reject.                                *)

(* The UPDATE's WHERE clause on the committed row: an entry that does not  *)
(* match is skipped at once, one that does waits for the row's lock and is *)
(* then judged again on the row as it is.                                  *)
MatchesUncounted(c, p) == active[p] /\ stock[p] > 0
MatchesInactive(c, p) == Quantity[c][p] <= stock[p]
Matches(c, p) == active[p] /\ Quantity[c][p] <= stock[p]

Wanted(c) == Cart[c][run[c].next]

(* One turn of the loop over the cart; after the last one, no line_items   *)
(* means there is nothing to do.  The coupon is read before the INSERT and *)
(* decides only the price.                                                 *)
AfterEntry(c, lines) ==
  CASE run[c].next < Len(Cart[c]) -> "take"
    [] run[c].next >= Len(Cart[c]) /\ lines # {} -> "insert"
    [] OTHER -> "commit"

Take(c) ==
  LET p == Wanted(c)
      taken == IF Matches(c, p) THEN {p} ELSE {} IN
  /\ run[c].pc = "take"
  /\ Matches(c, p) => ~Locked(p, c)
  /\ run' = [run EXCEPT ![c].lines = @ \cup taken, ![c].next = @ + 1,
                        ![c].pc = AfterEntry(c, run[c].lines \cup taken)]
  /\ IF InTransaction(c)
       THEN /\ held' = [held EXCEPT ![c] = @ \cup taken]
            /\ UNCHANGED stock
       ELSE /\ stock' = [q \in Products |->
                  IF q \in taken THEN stock[q] - Quantity[c][q] ELSE stock[q]]
            /\ UNCHANGED held
  /\ UNCHANGED <<active, orders, staged, supplied, events>>

WriteOutside(c, row) ==
  orders' = [orders EXCEPT ![c] = row] /\ staged' = [staged EXCEPT ![c] = row]
Write(c, row) ==
  IF InTransaction(c)
    THEN staged' = [staged EXCEPT ![c] = row] /\ UNCHANGED orders
    ELSE orders' = [orders EXCEPT ![c] = row] /\ UNCHANGED staged

Written(c) == IF InTransaction(c) THEN staged[c] ELSE orders[c]

InsertOrder(c) ==
  /\ run[c].pc = "insert"
  /\ Write(c, [placed |-> TRUE, items |-> {}])
  /\ run' = [run EXCEPT ![c].pc = "items"]
  /\ UNCHANGED <<stock, active, held, supplied, events>>

(* An item whose order was rolled back violates its foreign key: the       *)
(* IntegrityError leaves the `with` block.                                 *)
InsertItem(c) ==
  /\ run[c].pc = "items"
  /\ IF Written(c).placed
       THEN \E p \in run[c].lines \ Written(c).items :
              LET row == [Written(c) EXCEPT !.items = @ \cup {p}] IN
                /\ Write(c, row)
                /\ run' = [run EXCEPT ![c].pc =
                             IF row.items = run[c].lines THEN "commit" ELSE "items"]
       ELSE /\ run' = [run EXCEPT ![c].pc = "error"]
            /\ UNCHANGED <<orders, staged>>
  /\ UNCHANGED <<stock, active, held, supplied, events>>

(* The end of the `with` block.  Committing a transaction the server       *)
(* aborted rolls it back without an error; on a closed connection it       *)
(* raises.  After a reconnect everything is committed already.             *)
Commit(c) ==
  /\ run[c].pc = "commit"
  /\ IF InTransaction(c)
       THEN /\ stock' = [p \in Products |->
                 IF p \in held[c] THEN stock[p] - Quantity[c][p] ELSE stock[p]]
            /\ orders' = [orders EXCEPT ![c] = staged[c]]
       ELSE UNCHANGED <<stock, orders>>
  /\ held' = [held EXCEPT ![c] = {}]
  /\ staged' = [staged EXCEPT ![c] = NoOrder]
  /\ run' = [run EXCEPT ![c].pc = IF run[c].old = "closed" THEN "error" ELSE "done"]
  /\ UNCHANGED <<active, supplied, events>>

(* Any other exception, or the process dies: __exit__ or the server rolls  *)
(* the transaction back; statements already autocommitted stay.            *)
FailKeepingLocks(c) ==
  /\ Running(c)
  /\ run' = [run EXCEPT ![c].pc = "error"]
  /\ UNCHANGED <<stock, active, orders, held, staged, supplied, events>>
FailCommitting(c) ==
  /\ Running(c)
  /\ stock' = [p \in Products |->
       IF p \in held[c] THEN stock[p] - Quantity[c][p] ELSE stock[p]]
  /\ orders' = IF InTransaction(c) THEN [orders EXCEPT ![c] = staged[c]] ELSE orders
  /\ run' = [run EXCEPT ![c].pc = "error"]
  /\ held' = [held EXCEPT ![c] = {}]
  /\ staged' = [staged EXCEPT ![c] = NoOrder]
  /\ UNCHANGED <<active, supplied, events>>
Fail(c) ==
  /\ Running(c)
  /\ run' = [run EXCEPT ![c].pc = "error"]
  /\ held' = [held EXCEPT ![c] = {}]
  /\ staged' = [staged EXCEPT ![c] = NoOrder]
  /\ UNCHANGED <<stock, active, orders, supplied, events>>

(* An OperationalError in execute(): the statement will be run again on a  *)
(* new connection in autocommit mode, and the transaction is gone.         *)
Reconnect(c, old) ==
  /\ run' = [run EXCEPT ![c].conn = "autocommit", ![c].old = old]
  /\ held' = [held EXCEPT ![c] = {}]
  /\ staged' = [staged EXCEPT ![c] = NoOrder]

LoseConnection(c) ==
  /\ run[c].pc \in {"take", "insert", "items"}
  /\ InTransaction(c)
  /\ events < MaxEvents
  /\ events' = events + 1
  /\ Reconnect(c, "closed")
  /\ UNCHANGED <<stock, active, orders, supplied>>

(* PostgreSQL breaks a cycle of checkouts each waiting for a row another   *)
(* one holds by raising DeadlockDetected in one of them.                   *)
Waits(c, d) ==
  /\ run[c].pc = "take"
  /\ Matches(c, Wanted(c))
  /\ Wanted(c) \in held[d]

InDeadlock(c) ==
  \E D \in SUBSET Checkouts :
    c \in D /\ \A d \in D : \E e \in D \ {d} : Waits(d, e)

DeadlockVictim(c) ==
  /\ InTransaction(c)
  /\ InDeadlock(c)
  /\ Reconnect(c, "aborted")
  /\ UNCHANGED <<stock, active, orders, supplied, events>>

-----------------------------------------------------------------------------
(* The merchant's edits (portal/products.py, portal/coupons.py): single    *)
(* autocommitted statements, which wait for the row's lock.                *)

Edit(p) ==
  /\ events < MaxEvents
  /\ events' = events + 1
  /\ \A c \in Checkouts : p \notin held[c]

SetStock(p, n) ==
  /\ Edit(p)
  /\ stock' = [stock EXCEPT ![p] = n]
  /\ supplied' = [supplied EXCEPT ![p] = @ + n - stock[p]]
  /\ UNCHANGED <<active, orders, run, held, staged>>

SetActive(p) ==
  /\ Edit(p)
  /\ active' = [active EXCEPT ![p] = ~@]
  /\ UNCHANGED <<stock, orders, run, held, staged, supplied>>

-----------------------------------------------------------------------------
Step(c) ==
  \/ Take(c) \/ InsertOrder(c) \/ InsertItem(c) \/ Commit(c)
  \/ DeadlockVictim(c)

Next ==
  \/ \E c \in Checkouts : Begin(c) \/ Step(c) \/ Fail(c) \/ LoseConnection(c)
  \/ \E p \in Products : SetActive(p) \/ \E n \in 0 .. MaxStock : SetStock(p, n)

Spec == Init /\ [][Next]_vars

(* A started checkout runs on; the server grants a free lock and resolves  *)
(* a deadlock.  Locks are granted in turn, so a waiting checkout is not    *)
(* overtaken forever (each checkout runs once here).                       *)
FairSpec == Spec /\ \A c \in Checkouts : WF_vars(Step(c))
-----------------------------------------------------------------------------
TypeOK ==
  /\ stock \in [Products -> Nat]
  /\ active \in [Products -> BOOLEAN]
  /\ orders \in [Checkouts -> OrderRows]
  /\ run \in [Checkouts -> Executions]
  /\ held \in [Checkouts -> SUBSET Products]
  /\ staged \in [Checkouts -> OrderRows]
  /\ supplied \in [Products -> Int]
  /\ events \in 0 .. MaxEvents

Buyers(p) == {c \in Checkouts : p \in orders[c].items}
Sold(p) == SumFunctionOnSet([c \in Checkouts |-> Quantity[c][p]], Buyers(p))

Asked(c, p) == \E i \in DOMAIN Cart[c] : Cart[c][i] = p
Accounted(p) == stock[p] + Sold(p) = supplied[p]

(* checkout_cart: "a crash or error partway through never leaves stock     *)
(* decremented without a matching order, or vice versa".  The units of a   *)
(* product are accounted for as long as every checkout that asked for it   *)
(* kept its transaction, whatever became of the others.                    *)
StockConserved ==
  \A p \in Products :
    (\A c \in Checkouts : Asked(c, p) => InTransaction(c)) => Accounted(p)

(* An order the shop can see is complete: it lists every item it was       *)
(* granted, and at least one.  Only a checkout that had to connect anew    *)
(* can be seen half way.                                                   *)
OrdersAreWhole ==
  \A c \in Checkouts : orders[c].placed /\ InTransaction(c) =>
    orders[c].items # {} /\ orders[c].items = run[c].lines

(* The docstring's claim for checkouts that raised no error at all: once   *)
(* every customer was told the outcome, stock and orders agree.            *)
CompletedSalesConserved ==
  (\A c \in Checkouts : run[c].pc \in {"idle", "done"}) => \A p \in Products : Accounted(p)

(* Checkouts that wait for one another's rows all come to an end, and so   *)
(* do those that have to connect anew.                                     *)
CheckoutEnds == \A c \in Checkouts : Running(c) ~> ~Running(c)

(* Up to the first connection that fails, checkouts are sales of the       *)
(* ledger.                                                                 *)
Ledger == INSTANCE StockLedger WITH orders <- [c \in Checkouts |-> orders[c].items]
AllInTransaction == \A c \in Checkouts : InTransaction(c)
LedgerSpec == Ledger!Init /\ [][AllInTransaction' => Ledger!Next]_(Ledger!vars)
=============================================================================
