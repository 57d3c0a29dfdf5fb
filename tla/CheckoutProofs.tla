--------------------------- MODULE CheckoutProofs ---------------------------
(***************************************************************************)
(* Theorems about Checkout: for any products, checkouts, carts and         *)
(* quantities, and any number of edits and lost connections.               *)
(***************************************************************************)
EXTENDS Checkout, FiniteSums

-----------------------------------------------------------------------------
(* The inductive invariant.                                                *)

(* A row is locked by one transaction at a time, and what that transaction *)
(* took is still there when it commits.                                    *)
Exclusive == \A c, d \in Checkouts : c # d => held[c] \cap held[d] = {}
HeldBacked ==
  \A c \in Checkouts : \A p \in held[c] : active[p] /\ Quantity[c][p] <= stock[p]

(* An order that lists all that was taken, if anything was.                *)
Whole(lines) == [placed |-> lines # {}, items |-> lines]

(* Where an execution is in the text of checkout_cart.                     *)
PlaceRight(c) ==
  /\ run[c].pc = "idle" => run[c].lines = {} /\ run[c].next = 1
  /\ run[c].pc = "take" => run[c].next <= Len(Cart[c])
  /\ run[c].pc \in {"insert", "items"} => run[c].lines # {}
  /\ \A p \in run[c].lines : Asked(c, p)

(* Only a transaction under way holds locks: on what it took so far.       *)
LocksRight(c) ==
  /\ ~Running(c) \/ ~InTransaction(c) => held[c] = {}
  /\ Running(c) /\ InTransaction(c) => held[c] = run[c].lines

(* Until it commits its order is known to nobody else.                     *)
OrderRight(c) ==
  InTransaction(c) =>
    /\ run[c].old = "open"
    /\ run[c].pc \in {"idle", "take", "insert"} => staged[c] = NoOrder
    /\ run[c].pc = "items" => staged[c].placed /\ staged[c].items \subseteq run[c].lines
    /\ run[c].pc = "commit" => staged[c] = Whole(run[c].lines)
    /\ run[c].pc = "done" => orders[c] = Whole(run[c].lines)
    /\ run[c].pc # "done" => orders[c] = NoOrder

CheckoutRight(c) == PlaceRight(c) /\ LocksRight(c) /\ OrderRight(c)

IInv == /\ TypeOK /\ Exclusive /\ HeldBacked
        /\ \A c \in Checkouts : CheckoutRight(c)

-----------------------------------------------------------------------------
(* One step of one checkout.                                               *)

LEMMA CartFacts ==
  ASSUME NEW c \in Checkouts
  PROVE  /\ Cart[c] \in Seq(Products) /\ Len(Cart[c]) \in Nat \ {0}
         /\ DOMAIN Cart[c] = 1 .. Len(Cart[c])
         /\ \A i \in 1 .. Len(Cart[c]) : Cart[c][i] \in Products
         /\ \A p \in Products : Quantity[c][p] \in Nat \ {0}
<1>1. Cart[c] \in Seq(Products) /\ Cart[c] # <<>>
  BY CheckoutAssumption
<1>2. QED
  BY <1>1, CheckoutAssumption

LEMMA NoOrderType == NoOrder \in OrderRows
BY DEF NoOrder, OrderRows

(* What a step leaves alone stays right.                                   *)
LEMMA OtherRight ==
  ASSUME NEW d \in Checkouts, CheckoutRight(d),
         run'[d] = run[d], held'[d] = held[d], staged'[d] = staged[d], orders'[d] = orders[d]
  PROVE  CheckoutRight(d)'
BY DEF CheckoutRight, PlaceRight, LocksRight, OrderRight, Asked, Running, InTransaction

(* Giving up locks, with the table as it was, disturbs nobody's.           *)
LEMMA FewerLocks ==
  ASSUME Exclusive, HeldBacked, UNCHANGED <<stock, active>>,
         \A d \in Checkouts : held'[d] \subseteq held[d]
  PROVE  Exclusive' /\ HeldBacked'
BY DEF Exclusive, HeldBacked

LEMMA WholeFacts ==
  ASSUME NEW lines
  PROVE  Whole(lines).items = lines /\ (Whole(lines).placed <=> lines # {})
BY Zenon DEF Whole

(* A step that only moves c's execution on.                                *)
GoesTo(c, pc) ==
  /\ run' \in [Checkouts -> Executions]
  /\ run'[c].pc = pc
  /\ run'[c].next = run[c].next /\ run'[c].lines = run[c].lines
  /\ run'[c].conn = run[c].conn /\ run'[c].old = run[c].old
  /\ \A d \in Checkouts \ {c} : run'[d] = run[d]

LEMMA GoesToFacts ==
  ASSUME TypeOK, NEW c \in Checkouts,
         NEW pc \in {"idle", "take", "insert", "items", "commit", "done", "error"},
         run' = [run EXCEPT ![c].pc = pc]
  PROVE  GoesTo(c, pc)
<1>1. run[c] \in Executions
  BY DEF TypeOK
<1>2. run'[c] = [run[c] EXCEPT !.pc = pc] /\ \A d \in Checkouts \ {c} : run'[d] = run[d]
  BY DEF TypeOK
<1>3. run'[c] \in Executions
  BY <1>1, <1>2 DEF Executions
<1>4. run' \in [Checkouts -> Executions]
  BY <1>3, <1>2 DEF TypeOK
<1>5. QED
  BY <1>1, <1>2, <1>4 DEF GoesTo, Executions

LEMMA BeginIInv ==
  ASSUME IInv, NEW c \in Checkouts, Begin(c)
  PROVE  IInv'
<1>1. GoesTo(c, "take")
  BY GoesToFacts DEF Begin, IInv
<1>2. TypeOK'
  BY <1>1, CheckoutAssumption DEF Begin, GoesTo, IInv, TypeOK
<1>3. Exclusive' /\ HeldBacked'
  BY FewerLocks DEF Begin, IInv
<1>4. CheckoutRight(c)'
  <2>0. CheckoutRight(c) /\ run[c].pc = "idle"
    BY DEF Begin, IInv
  <2>1. PlaceRight(c)'
    BY <1>1, <2>0, CartFacts DEF GoesTo, CheckoutRight, PlaceRight
  <2>2. LocksRight(c)' /\ OrderRight(c)'
    BY <1>1, <2>0 DEF Begin, GoesTo, CheckoutRight, PlaceRight, LocksRight, OrderRight,
       Running, InTransaction
  <2>3. QED
    BY <2>1, <2>2 DEF CheckoutRight
<1>5. \A d \in Checkouts \ {c} : CheckoutRight(d)'
  BY <1>1, OtherRight DEF Begin, GoesTo, IInv
<1>6. QED
  BY <1>2, <1>3, <1>4, <1>5 DEF IInv

LEMMA TakeIInv ==
  ASSUME IInv, NEW c \in Checkouts, Take(c)
  PROVE  IInv'
<1> DEFINE p == Wanted(c)
           taken == IF Matches(c, p) THEN {p} ELSE {}
<1>0. /\ p \in Products /\ Asked(c, p) /\ taken \subseteq {p}
      /\ run[c] \in Executions /\ run[c].next <= Len(Cart[c])
  BY CartFacts DEF Take, Wanted, Asked, IInv, TypeOK, Executions, CheckoutRight, PlaceRight
<1> DEFINE after == AfterEntry(c, run[c].lines \cup taken)
<1>1. /\ run'[c] = [run[c] EXCEPT !.lines = @ \cup taken, !.next = @ + 1, !.pc = after]
      /\ \A d \in Checkouts \ {c} : run'[d] = run[d]
  BY DEF Take, IInv, TypeOK
<1>1a. /\ run'[c].pc = after
       /\ run'[c].lines = run[c].lines \cup taken /\ run'[c].next = run[c].next + 1
       /\ run'[c].conn = run[c].conn /\ run'[c].old = run[c].old
       /\ run'[c] = [pc |-> after, lines |-> run[c].lines \cup taken, next |-> run[c].next + 1,
                     conn |-> run[c].conn, old |-> run[c].old]
  BY <1>0, <1>1 DEF Executions
<1> HIDE DEF after
<1>2. after \in {"take", "insert", "commit"}
  BY DEF after, AfterEntry
<1>2a. /\ after = "take" => run[c].next < Len(Cart[c])
       /\ after = "insert" => run[c].lines \cup taken # {}
       /\ after = "commit" => run[c].lines \cup taken = {}
  BY <1>0, CartFacts DEF after, AfterEntry, Executions
<1>3. run' \in [Checkouts -> Executions]
  <2>1. run'[c] \in Executions
    BY <1>0, <1>1a, <1>2 DEF Executions
  <2>2. QED
    BY <1>1, <2>1 DEF Take, IInv, TypeOK
<1>4. PlaceRight(c)'
  BY <1>0, <1>1a, <1>2, <1>2a, CartFacts
     DEF PlaceRight, Executions, Asked, IInv, CheckoutRight
<1>5. CASE InTransaction(c)
  <2>1. /\ held' = [held EXCEPT ![c] = held[c] \cup taken]
        /\ held'[c] = held[c] \cup taken /\ \A d \in Checkouts \ {c} : held'[d] = held[d]
        /\ UNCHANGED <<stock, active, orders, staged, supplied, events>>
    BY <1>5 DEF Take, IInv, TypeOK
  <2>2. TypeOK'
    <3>1. held[c] \cup taken \subseteq Products
      BY <1>0 DEF IInv, TypeOK
    <3>2. QED
      BY <1>3, <2>1, <3>1 DEF IInv, TypeOK
  <2>3. Exclusive'
    <3>1. \A d \in Checkouts \ {c} : taken \cap held[d] = {}
      BY <1>0 DEF Take, Locked
    <3>2. QED
      BY <2>1, <3>1 DEF Exclusive, IInv
  <2>4. HeldBacked'
    BY <2>1 DEF HeldBacked, IInv, Matches
  <2>5. CheckoutRight(c)'
    <3>1. LocksRight(c)'
      BY <1>1a, <1>2, <1>5, <2>1
         DEF IInv, CheckoutRight, LocksRight, Running, InTransaction, Take
    <3>2. OrderRight(c)'
      BY <1>1a, <1>2, <1>2a, <1>5, <2>1
         DEF IInv, CheckoutRight, OrderRight, InTransaction, Take, Whole, NoOrder
    <3>3. QED
      BY <1>4, <3>1, <3>2 DEF CheckoutRight
  <2>6. \A d \in Checkouts \ {c} : CheckoutRight(d)'
    BY <1>1, <2>1, OtherRight DEF IInv
  <2>7. QED
    BY <2>2, <2>3, <2>4, <2>5, <2>6 DEF IInv
<1>6. CASE ~InTransaction(c)
  <2>1. /\ stock' = [q \in Products |-> IF q \in taken THEN stock[q] - Quantity[c][q]
                                                       ELSE stock[q]]
        /\ UNCHANGED <<held, active, orders, staged, supplied, events>>
    BY <1>6 DEF Take
  <2>2. stock' \in [Products -> Nat]
    BY <2>1, CartFacts DEF Matches, IInv, TypeOK
  <2>3. TypeOK'
    BY <1>3, <2>1, <2>2 DEF IInv, TypeOK
  <2>4. Exclusive' /\ HeldBacked'
    <3>1. held[c] = {}
      BY <1>6 DEF IInv, CheckoutRight, LocksRight
    <3>2. \A d \in Checkouts \ {c} : taken \cap held[d] = {}
      BY <1>0 DEF Take, Locked
    <3>3. \A d \in Checkouts : \A q \in held[d] : stock'[q] = stock[q]
      BY <2>1, <3>1, <3>2 DEF IInv, TypeOK
    <3>4. QED
      BY <2>1, <3>3 DEF IInv, Exclusive, HeldBacked
  <2>5. CheckoutRight(c)'
    BY <1>1a, <1>4, <1>6, <2>1
       DEF IInv, CheckoutRight, LocksRight, OrderRight, Running, InTransaction
  <2>6. \A d \in Checkouts \ {c} : CheckoutRight(d)'
    BY <1>1, <2>1, OtherRight DEF IInv
  <2>7. QED
    BY <2>3, <2>4, <2>5, <2>6 DEF IInv
<1>7. QED
  BY <1>5, <1>6

(* An INSERT goes to the transaction's copy of the order, or to the table. *)
LEMMA WriteFacts ==
  ASSUME IInv, NEW c \in Checkouts, NEW row \in OrderRows, Write(c, row)
  PROVE  /\ orders' \in [Checkouts -> OrderRows] /\ staged' \in [Checkouts -> OrderRows]
         /\ InTransaction(c) => staged'[c] = row /\ orders'[c] = orders[c]
         /\ \A d \in Checkouts \ {c} : staged'[d] = staged[d] /\ orders'[d] = orders[d]
BY DEF Write, IInv, TypeOK

LEMMA InsertOrderIInv ==
  ASSUME IInv, NEW c \in Checkouts, InsertOrder(c)
  PROVE  IInv'
<1> DEFINE row == [placed |-> TRUE, items |-> {}]
<1>0. row \in OrderRows /\ Write(c, row)
  BY DEF InsertOrder, OrderRows
<1>1. GoesTo(c, "items")
  BY GoesToFacts DEF InsertOrder, IInv
<1>2. TypeOK'
  BY <1>0, <1>1, WriteFacts DEF InsertOrder, GoesTo, IInv, TypeOK
<1>3. Exclusive' /\ HeldBacked'
  BY FewerLocks DEF InsertOrder, IInv
<1>4. CheckoutRight(c)'
  BY <1>0, <1>1, WriteFacts DEF InsertOrder, GoesTo, IInv, CheckoutRight, PlaceRight,
     LocksRight, OrderRight, Asked, Running, InTransaction
<1>5. \A d \in Checkouts \ {c} : CheckoutRight(d)'
  BY <1>0, <1>1, WriteFacts, OtherRight DEF InsertOrder, GoesTo, IInv
<1>6. QED
  BY <1>2, <1>3, <1>4, <1>5 DEF IInv

LEMMA InsertItemIInv ==
  ASSUME IInv, NEW c \in Checkouts, InsertItem(c)
  PROVE  IInv'
<1>1. CASE Written(c).placed
  <2>1. PICK p \in run[c].lines \ Written(c).items :
          LET row == [Written(c) EXCEPT !.items = @ \cup {p}] IN
            /\ Write(c, row)
            /\ run' = [run EXCEPT ![c].pc = IF row.items = run[c].lines THEN "commit"
                                                                       ELSE "items"]
    BY <1>1 DEF InsertItem
  <2> DEFINE row == [Written(c) EXCEPT !.items = @ \cup {p}]
  <2>2. Written(c) \in OrderRows /\ p \in Products /\ run[c] \in Executions
    BY <2>1 DEF Written, IInv, TypeOK, Executions
  <2>3. /\ row \in OrderRows /\ Write(c, row) /\ row.placed = TRUE
        /\ row.items = Written(c).items \cup {p}
    BY <1>1, <2>1, <2>2 DEF OrderRows
  <2>4. GoesTo(c, IF row.items = run[c].lines THEN "commit" ELSE "items")
    BY <2>1, GoesToFacts DEF IInv
  <2>5. TypeOK'
    BY <2>3, <2>4, WriteFacts DEF InsertItem, GoesTo, IInv, TypeOK
  <2>6. Exclusive' /\ HeldBacked'
    BY FewerLocks DEF InsertItem, IInv
  <2>7. PlaceRight(c)' /\ LocksRight(c)'
    BY <2>4 DEF InsertItem, GoesTo, IInv, CheckoutRight, PlaceRight, LocksRight, Asked,
       Running, InTransaction
  <2>8. OrderRight(c)'
    <3> SUFFICES ASSUME InTransaction(c)'
                 PROVE  OrderRight(c)'
      BY DEF OrderRight
    <3>1. InTransaction(c) /\ run'[c].old = run[c].old /\ run'[c].lines = run[c].lines
      BY <2>4 DEF InTransaction, GoesTo
    <3>2. staged'[c] = row /\ orders'[c] = orders[c] /\ Written(c) = staged[c]
      BY <2>3, <3>1, WriteFacts DEF Written
    <3>3. row.items \subseteq run[c].lines
      BY <2>1, <2>3, <3>1, <3>2 DEF InsertItem, IInv, CheckoutRight, OrderRight
    <3>4. row.items = run[c].lines => row = Whole(run[c].lines)
      BY <2>1, <2>3 DEF Whole, OrderRows
    <3>5. run'[c].pc = IF row.items = run[c].lines THEN "commit" ELSE "items"
      BY <2>4 DEF GoesTo
    <3>6. QED
      BY <2>3, <3>1, <3>2, <3>3, <3>4, <3>5
         DEF InsertItem, IInv, CheckoutRight, OrderRight
  <2>9. \A d \in Checkouts \ {c} : CheckoutRight(d)'
    BY <2>3, <2>4, WriteFacts, OtherRight DEF InsertItem, GoesTo, IInv
  <2>10. QED
    BY <2>5, <2>6, <2>7, <2>8, <2>9 DEF IInv, CheckoutRight
<1>2. CASE ~Written(c).placed
  <2>1. /\ GoesTo(c, "error")
        /\ UNCHANGED <<stock, active, orders, held, staged, supplied, events>>
    BY <1>2, GoesToFacts DEF InsertItem, IInv
  <2>2. ~InTransaction(c)
    BY <1>2 DEF InsertItem, Written, IInv, CheckoutRight, OrderRight
  <2>3. TypeOK'
    BY <2>1 DEF GoesTo, IInv, TypeOK
  <2>4. Exclusive' /\ HeldBacked'
    BY <2>1, FewerLocks DEF IInv
  <2>5. CheckoutRight(c)'
    BY <2>1, <2>2 DEF GoesTo, IInv, CheckoutRight, PlaceRight,
       LocksRight, OrderRight, Asked, Running, InTransaction
  <2>6. \A d \in Checkouts \ {c} : CheckoutRight(d)'
    BY <2>1, OtherRight DEF GoesTo, IInv
  <2>7. QED
    BY <2>3, <2>4, <2>5, <2>6 DEF IInv
<1>3. QED
  BY <1>1, <1>2

(* A commit takes from the stock what the transaction held; nobody else's  *)
(* locks are on those rows.                                                *)
LEMMA CommitIInv ==
  ASSUME IInv, NEW c \in Checkouts, Commit(c)
  PROVE  IInv'
<1>0. CheckoutRight(c) /\ run[c].pc = "commit" /\ NoOrder \in OrderRows
  BY NoOrderType DEF Commit, IInv
<1>1. GoesTo(c, IF run[c].old = "closed" THEN "error" ELSE "done")
  BY GoesToFacts DEF Commit, IInv
<1>2. /\ held' = [held EXCEPT ![c] = {}] /\ staged' = [staged EXCEPT ![c] = NoOrder]
      /\ held'[c] = {} /\ staged'[c] = NoOrder
      /\ \A d \in Checkouts \ {c} : held'[d] = held[d] /\ staged'[d] = staged[d]
      /\ UNCHANGED <<active, supplied, events>>
  BY DEF Commit, IInv, TypeOK
<1>3. /\ stock' \in [Products -> Nat]
      /\ \A d \in Checkouts \ {c} : \A p \in held[d] : stock'[p] = stock[p]
  <2>1. CASE InTransaction(c)
    <3>1. stock' = [p \in Products |->
             IF p \in held[c] THEN stock[p] - Quantity[c][p] ELSE stock[p]]
      BY <2>1 DEF Commit
    <3>2. \A p \in held[c] : Quantity[c][p] <= stock[p]
      BY DEF IInv, HeldBacked
    <3>3. stock' \in [Products -> Nat]
      BY <3>1, <3>2, CartFacts DEF IInv, TypeOK
    <3>4. \A d \in Checkouts \ {c} : \A p \in held[d] : p \in Products /\ p \notin held[c]
      BY DEF IInv, TypeOK, Exclusive
    <3>5. QED
      BY <3>1, <3>3, <3>4
  <2>2. CASE ~InTransaction(c)
    BY <2>2 DEF Commit, IInv, TypeOK
  <2>3. QED
    BY <2>1, <2>2
<1>4. /\ orders' \in [Checkouts -> OrderRows]
      /\ InTransaction(c) => orders'[c] = staged[c]
      /\ \A d \in Checkouts \ {c} : orders'[d] = orders[d]
  BY DEF Commit, IInv, TypeOK
<1>5. TypeOK'
  BY <1>0, <1>1, <1>2, <1>3, <1>4 DEF GoesTo, IInv, TypeOK
<1>6. Exclusive' /\ HeldBacked'
  BY <1>2, <1>3 DEF IInv, Exclusive, HeldBacked
<1>7. CheckoutRight(c)'
  BY <1>0, <1>1, <1>2, <1>4
     DEF GoesTo, CheckoutRight, PlaceRight, LocksRight, OrderRight, Running, InTransaction, Asked
<1>8. \A d \in Checkouts \ {c} : CheckoutRight(d)'
  BY <1>1, <1>2, <1>4, OtherRight DEF GoesTo, IInv
<1>9. QED
  BY <1>5, <1>6, <1>7, <1>8 DEF IInv

LEMMA FailIInv ==
  ASSUME IInv, NEW c \in Checkouts, Fail(c)
  PROVE  IInv'
<1>0. CheckoutRight(c) /\ Running(c) /\ NoOrder \in OrderRows
  BY NoOrderType DEF Fail, IInv
<1>1. GoesTo(c, "error")
  BY GoesToFacts DEF Fail, IInv
<1>2. /\ held' = [held EXCEPT ![c] = {}] /\ staged' = [staged EXCEPT ![c] = NoOrder]
      /\ held'[c] = {}
      /\ \A d \in Checkouts \ {c} : held'[d] = held[d] /\ staged'[d] = staged[d]
      /\ UNCHANGED <<stock, active, orders, supplied, events>>
  BY DEF Fail, IInv, TypeOK
<1>3. TypeOK'
  BY <1>0, <1>1, <1>2 DEF GoesTo, IInv, TypeOK
<1>4. Exclusive' /\ HeldBacked'
  BY <1>2, FewerLocks DEF IInv
<1>5. CheckoutRight(c)'
  BY <1>0, <1>1, <1>2
     DEF GoesTo, CheckoutRight, PlaceRight, LocksRight, OrderRight, Running, InTransaction, Asked
<1>6. \A d \in Checkouts \ {c} : CheckoutRight(d)'
  BY <1>1, <1>2, OtherRight DEF GoesTo, IInv
<1>7. QED
  BY <1>3, <1>4, <1>5, <1>6 DEF IInv

(* A lost connection and a deadlock alike give up all locks.               *)
LEMMA ReconnectIInv ==
  ASSUME IInv, NEW c \in Checkouts, NEW old \in {"aborted", "closed"}, Reconnect(c, old),
         UNCHANGED <<stock, active, orders, supplied>>, events' \in 0 .. MaxEvents
  PROVE  IInv'
<1>0. CheckoutRight(c) /\ run[c] \in Executions /\ NoOrder \in OrderRows
  BY NoOrderType DEF IInv, TypeOK
<1>1. /\ run'[c] = [run[c] EXCEPT !.conn = "autocommit", !.old = old]
      /\ \A d \in Checkouts \ {c} : run'[d] = run[d]
  BY DEF Reconnect, IInv, TypeOK
<1>2. /\ run'[c].pc = run[c].pc /\ run'[c].next = run[c].next /\ run'[c].lines = run[c].lines
      /\ run'[c].conn = "autocommit" /\ run'[c] \in Executions
  BY <1>0, <1>1 DEF Executions
<1>3. run' \in [Checkouts -> Executions]
  BY <1>1, <1>2 DEF Reconnect, IInv, TypeOK
<1>4. /\ held' = [held EXCEPT ![c] = {}] /\ staged' = [staged EXCEPT ![c] = NoOrder]
      /\ held'[c] = {}
      /\ \A d \in Checkouts \ {c} : held'[d] = held[d] /\ staged'[d] = staged[d]
  BY DEF Reconnect, IInv, TypeOK
<1>5. TypeOK'
  BY <1>0, <1>3, <1>4 DEF IInv, TypeOK
<1>6. Exclusive' /\ HeldBacked'
  BY <1>4, FewerLocks DEF IInv
<1>7. CheckoutRight(c)'
  BY <1>0, <1>2, <1>4
     DEF CheckoutRight, PlaceRight, LocksRight, OrderRight, Running, InTransaction, Asked
<1>8. \A d \in Checkouts \ {c} : CheckoutRight(d)'
  BY <1>1, <1>4, OtherRight DEF IInv
<1>9. QED
  BY <1>5, <1>6, <1>7, <1>8 DEF IInv

(* The merchant waits for the row's lock.                                  *)
LEMMA EditIInv ==
  ASSUME IInv, NEW p \in Products, SetActive(p) \/ \E n \in 0 .. MaxStock : SetStock(p, n)
  PROVE  IInv'
<1>1. /\ events' \in 0 .. MaxEvents /\ \A c \in Checkouts : p \notin held[c]
      /\ UNCHANGED <<orders, run, held, staged>>
  BY CheckoutAssumption DEF SetActive, SetStock, Edit, IInv, TypeOK
<1>2. /\ stock' \in [Products -> Nat] /\ active' \in [Products -> BOOLEAN]
      /\ supplied' \in [Products -> Int]
      /\ \A q \in Products \ {p} : stock'[q] = stock[q] /\ active'[q] = active[q]
  <2>1. CASE SetActive(p)
    BY <2>1 DEF SetActive, IInv, TypeOK
  <2>2. ASSUME NEW n \in 0 .. MaxStock, SetStock(p, n)
        PROVE  /\ stock' \in [Products -> Nat] /\ active' \in [Products -> BOOLEAN]
               /\ supplied' \in [Products -> Int]
               /\ \A q \in Products \ {p} : stock'[q] = stock[q] /\ active'[q] = active[q]
    BY <2>2, CheckoutAssumption DEF SetStock, IInv, TypeOK
  <2>3. QED
    BY <2>1, <2>2
<1>3. TypeOK'
  BY <1>1, <1>2 DEF IInv, TypeOK
<1>4. Exclusive' /\ HeldBacked'
  <2>1. \A c \in Checkouts : \A q \in held[c] : q \in Products \ {p}
    BY <1>1 DEF IInv, TypeOK
  <2>2. QED
    BY <1>1, <1>2, <2>1 DEF IInv, Exclusive, HeldBacked
<1>5. \A c \in Checkouts : CheckoutRight(c)'
  BY <1>1, OtherRight DEF IInv
<1>6. QED
  BY <1>3, <1>4, <1>5 DEF IInv

-----------------------------------------------------------------------------
(* Every step together.                                                    *)

LEMMA InitIInv == Init => IInv
<1> SUFFICES ASSUME Init
             PROVE  IInv
  OBVIOUS
<1>1. TypeOK
  BY NoOrderType, CheckoutAssumption DEF Init, TypeOK, NotStarted, Executions
<1>2. QED
  BY <1>1 DEF Init, IInv, Exclusive, HeldBacked, CheckoutRight, PlaceRight, LocksRight,
     OrderRight, NotStarted, Running, InTransaction

LEMMA StutterIInv == IInv /\ UNCHANGED vars => IInv'
BY DEF IInv, vars, TypeOK, Exclusive, HeldBacked, CheckoutRight, PlaceRight, LocksRight,
   OrderRight, Running, InTransaction, Asked

LEMMA NextIInv == IInv /\ [Next]_vars => IInv'
<1> SUFFICES ASSUME IInv, [Next]_vars
             PROVE  IInv'
  OBVIOUS
<1>1. ASSUME NEW c \in Checkouts, Begin(c)
      PROVE  IInv'
  BY <1>1, BeginIInv
<1>2. ASSUME NEW c \in Checkouts, Take(c)
      PROVE  IInv'
  BY <1>2, TakeIInv
<1>3. ASSUME NEW c \in Checkouts, InsertOrder(c)
      PROVE  IInv'
  BY <1>3, InsertOrderIInv
<1>4. ASSUME NEW c \in Checkouts, InsertItem(c)
      PROVE  IInv'
  BY <1>4, InsertItemIInv
<1>5. ASSUME NEW c \in Checkouts, Commit(c)
      PROVE  IInv'
  BY <1>5, CommitIInv
<1>6. ASSUME NEW c \in Checkouts, Fail(c)
      PROVE  IInv'
  BY <1>6, FailIInv
<1>7. ASSUME NEW c \in Checkouts, LoseConnection(c)
      PROVE  IInv'
  <2>1. /\ Reconnect(c, "closed") /\ UNCHANGED <<stock, active, orders, supplied>>
        /\ events < MaxEvents /\ events' = events + 1
    BY <1>7 DEF LoseConnection
  <2>2. events \in 0 .. MaxEvents /\ MaxEvents \in Nat
    BY CheckoutAssumption DEF IInv, TypeOK
  <2>3. events' \in 0 .. MaxEvents
    BY <2>1, <2>2
  <2>4. "closed" \in {"aborted", "closed"}
    OBVIOUS
  <2>5. QED
    BY <2>1, <2>3, <2>4, ReconnectIInv
<1>8. ASSUME NEW c \in Checkouts, DeadlockVictim(c)
      PROVE  IInv'
  <2>1. /\ Reconnect(c, "aborted") /\ UNCHANGED <<stock, active, orders, supplied>>
        /\ events' = events
    BY <1>8 DEF DeadlockVictim
  <2>2. events' \in 0 .. MaxEvents
    BY <2>1 DEF IInv, TypeOK
  <2>3. QED
    BY <2>1, <2>2, ReconnectIInv
<1>9. ASSUME NEW p \in Products, SetActive(p) \/ \E n \in 0 .. MaxStock : SetStock(p, n)
      PROVE  IInv'
  BY <1>9, EditIInv
<1>10. CASE UNCHANGED vars
  BY <1>10, StutterIInv
<1>11. QED
  BY <1>1, <1>2, <1>3, <1>4, <1>5, <1>6, <1>7, <1>8, <1>9, <1>10 DEF Next, Step

(* No checkout takes units that are not there, and every variable keeps    *)
(* its type.                                                               *)
THEOREM TypeCorrect == Spec => []TypeOK
<1>1. IInv => TypeOK
  BY DEF IInv
<1>2. QED
  BY <1>1, InitIInv, NextIInv, PTL DEF Spec

(* checkout_cart never shows an order without items, or with only some of  *)
(* those it took, unless its connection was replaced under way.            *)
THEOREM OrdersAreWholeAlways == Spec => []OrdersAreWhole
<1>1. IInv => OrdersAreWhole
  <2> SUFFICES ASSUME IInv, NEW c \in Checkouts, orders[c].placed, InTransaction(c)
               PROVE  orders[c].items # {} /\ orders[c].items = run[c].lines
    BY DEF OrdersAreWhole
  <2>1. orders[c] = Whole(run[c].lines)
    BY DEF IInv, CheckoutRight, OrderRight, NoOrder
  <2>2. orders[c].items = run[c].lines /\ (orders[c].placed <=> run[c].lines # {})
    BY <2>1, WholeFacts
  <2>3. QED
    BY <2>2
<1>2. QED
  BY <1>1, InitIInv, NextIInv, PTL DEF Spec

-----------------------------------------------------------------------------
(* The refinement.                                                         *)

Items == [c \in Checkouts |-> orders[c].items]

LEMMA InitLedger == Init => Ledger!Init
BY DEF Init, Ledger!Init, NoOrder

(* What a transaction commits is a sale, or nothing at all.                *)
LEMMA CommitSells ==
  ASSUME IInv, NEW c \in Checkouts, Commit(c), InTransaction(c)
  PROVE  Ledger!Next \/ UNCHANGED Ledger!vars
<1>a. PICK lines \in SUBSET Products : lines = run[c].lines
  BY DEF IInv, TypeOK, Executions
<1>0. /\ run[c].pc = "commit" /\ held[c] = lines /\ staged[c] = Whole(lines)
      /\ orders[c] = NoOrder
      /\ \A p \in lines : Asked(c, p) /\ active[p] /\ Quantity[c][p] <= stock[p]
  BY <1>a DEF Commit, IInv, CheckoutRight, PlaceRight, LocksRight, OrderRight,
     Running, HeldBacked
<1>1. /\ stock' = [p \in Products |-> IF p \in lines THEN stock[p] - Quantity[c][p] ELSE stock[p]]
      /\ orders' = [orders EXCEPT ![c] = Whole(lines)]
      /\ UNCHANGED active
  BY <1>0 DEF Commit
<1>2. Items' = [Items EXCEPT ![c] = lines] /\ Items[c] = {}
  <2>1. orders'[c].items = lines /\ \A d \in Checkouts \ {c} : orders'[d] = orders[d]
    BY <1>1 DEF Whole, IInv, TypeOK
  <2>2. orders[c].items = {}
    BY <1>0 DEF NoOrder
  <2>3. QED
    BY <2>1, <2>2 DEF Items
<1>3. CASE lines # {}
  <2>1. Ledger!Sell(c, lines)
    BY <1>0, <1>1, <1>2, <1>3 DEF Ledger!Sell, Asked, Items
  <2>2. QED
    BY <2>1 DEF Ledger!Next
<1>4. CASE lines = {}
  <2>1. Items' = Items
    BY <1>2, <1>4 DEF Items
  <2>2. stock' = stock
    BY <1>1, <1>4 DEF IInv, TypeOK
  <2>3. QED
    BY <1>1, <2>1, <2>2 DEF Ledger!vars, Items
<1>5. QED
  BY <1>3, <1>4

LEMMA LedgerStep ==
  ASSUME IInv, [Next]_vars, AllInTransaction'
  PROVE  Ledger!Next \/ UNCHANGED Ledger!vars
<1>1. ASSUME NEW c \in Checkouts, Begin(c) \/ Fail(c)
      PROVE  UNCHANGED Ledger!vars
  BY <1>1 DEF Begin, Fail, Ledger!vars
<1>2. ASSUME NEW c \in Checkouts, Take(c)
      PROVE  UNCHANGED Ledger!vars
  <2>1. run'[c].conn = run[c].conn
    BY <1>2 DEF Take, IInv, TypeOK, Executions
  <2>2. InTransaction(c)
    BY <2>1 DEF AllInTransaction, InTransaction
  <2>3. QED
    BY <1>2, <2>2 DEF Take, Ledger!vars
<1>3. ASSUME NEW c \in Checkouts, InsertOrder(c) \/ InsertItem(c)
      PROVE  UNCHANGED Ledger!vars
  <2>0. (\E pc : run' = [run EXCEPT ![c].pc = pc]) /\ UNCHANGED <<stock, active>>
    BY <1>3 DEF InsertOrder, InsertItem
  <2>1. run'[c].conn = run[c].conn /\ UNCHANGED <<stock, active>>
    BY <2>0 DEF IInv, TypeOK, Executions
  <2>2. InTransaction(c)
    BY <2>1 DEF AllInTransaction, InTransaction
  <2>3. UNCHANGED orders
    BY <1>3, <2>2 DEF InsertOrder, InsertItem, Write
  <2>4. QED
    BY <2>1, <2>3 DEF Ledger!vars
<1>4. ASSUME NEW c \in Checkouts, Commit(c)
      PROVE  Ledger!Next \/ UNCHANGED Ledger!vars
  <2>1. run'[c].conn = run[c].conn
    BY <1>4 DEF Commit, IInv, TypeOK, Executions
  <2>2. InTransaction(c)
    BY <2>1 DEF AllInTransaction, InTransaction
  <2>3. QED
    BY <1>4, <2>2, CommitSells
<1>5. ASSUME NEW c \in Checkouts, LoseConnection(c) \/ DeadlockVictim(c)
      PROVE  FALSE
  <2>1. run'[c].conn = "autocommit"
    BY <1>5 DEF LoseConnection, DeadlockVictim, Reconnect, IInv, TypeOK, Executions
  <2>2. QED
    BY <2>1 DEF AllInTransaction, InTransaction
<1>6. ASSUME NEW p \in Products, SetActive(p)
      PROVE  Ledger!Next
  BY <1>6 DEF SetActive, Ledger!Next, Ledger!Switch
<1>7. ASSUME NEW p \in Products, NEW n \in 0 .. MaxStock, SetStock(p, n)
      PROVE  Ledger!Next
  BY <1>7 DEF SetStock, Ledger!Next, Ledger!Restock
<1>8. CASE UNCHANGED vars
  BY <1>8 DEF vars, Ledger!vars
<1>9. QED
  BY <1>1, <1>2, <1>3, <1>4, <1>5, <1>6, <1>7, <1>8 DEF Next, Step

(* As long as every checkout keeps its connection, the statements of       *)
(* checkout_cart, interleaved and failing anywhere, are the indivisible    *)
(* sales its docstring promises: no oversale, no half order.               *)
THEOREM ImplementsLedger == Spec => LedgerSpec
<1>1. IInv /\ [Next]_vars => [AllInTransaction' => Ledger!Next]_(Ledger!vars)
  BY LedgerStep
<1>2. QED
  BY <1>1, InitIInv, NextIInv, InitLedger, PTL DEF Spec, LedgerSpec

-----------------------------------------------------------------------------
(* The units of a product: none appear, none vanish.                       *)

(* An order, also one seen half written, lists what its cart asked for.    *)
OrdersAsked == \A c \in Checkouts : \A p \in orders[c].items : Asked(c, p)

(* Sums are over finitely many orders, however many checkouts there are.   *)
BuyersFinite == \A p \in Products : IsFiniteSet(Buyers(p))

(* Every checkout that asked for p kept its transaction.                   *)
Undisturbed(p) == \A c \in Checkouts : Asked(c, p) => InTransaction(c)

StockInv == IInv /\ OrdersAsked /\ BuyersFinite /\ StockConserved

LEMMA InitStockInv == Init => StockInv
<1> SUFFICES ASSUME Init
             PROVE  StockInv
  OBVIOUS
<1>1. IInv
  BY InitIInv
<1>2. OrdersAsked
  BY DEF Init, OrdersAsked, NoOrder
<1>3. \A p \in Products : Buyers(p) = {}
  BY DEF Init, Buyers, NoOrder
<1>4. BuyersFinite
  BY <1>3, FS_EmptySet DEF BuyersFinite
<1>5. ASSUME NEW p \in Products
      PROVE  Accounted(p)
  <2>1. Sold(p) = 0
    BY <1>3, SumEmpty DEF Sold
  <2>2. stock[p] \in Nat /\ supplied[p] = stock[p]
    BY <1>1 DEF Init, IInv, TypeOK
  <2>3. QED
    BY <2>1, <2>2 DEF Accounted
<1>6. QED
  BY <1>1, <1>2, <1>4, <1>5 DEF StockInv, StockConserved

(* A connection once lost is not found again.                              *)
LEMMA ConnectionsOnlyLost ==
  ASSUME IInv, [Next]_vars, NEW c \in Checkouts, InTransaction(c)'
  PROVE  InTransaction(c)
<1> USE DEF InTransaction
<1>0. run \in [Checkouts -> Executions]
  BY DEF IInv, TypeOK
<1>1. ASSUME NEW d \in Checkouts, Begin(d) \/ Commit(d) \/ Fail(d)
      PROVE  run'[c].conn = run[c].conn
  <2>1. PICK pc : run' = [run EXCEPT ![d].pc = pc]
    BY <1>1 DEF Begin, Commit, Fail
  <2>2. QED
    BY <1>0, <2>1 DEF Executions
<1>2. ASSUME NEW d \in Checkouts, InsertOrder(d) \/ InsertItem(d)
      PROVE  run'[c].conn = run[c].conn
  <2>1. \E pc : run' = [run EXCEPT ![d].pc = pc]
    BY <1>2 DEF InsertOrder, InsertItem
  <2>2. QED
    BY <1>0, <2>1 DEF Executions
<1>3. ASSUME NEW d \in Checkouts, Take(d)
      PROVE  run'[c].conn = run[c].conn
  BY <1>0, <1>3 DEF Take, Executions
<1>4. ASSUME NEW d \in Checkouts, LoseConnection(d) \/ DeadlockVictim(d)
      PROVE  run'[c].conn = "autocommit" \/ run'[c].conn = run[c].conn
  BY <1>0, <1>4 DEF LoseConnection, DeadlockVictim, Reconnect, Executions
<1>5. ASSUME NEW p \in Products, SetActive(p) \/ \E n \in 0 .. MaxStock : SetStock(p, n)
      PROVE  run' = run
  BY <1>5 DEF SetActive, SetStock
<1>6. CASE UNCHANGED vars
  BY <1>6 DEF vars
<1>7. QED
  BY <1>1, <1>2, <1>3, <1>4, <1>5, <1>6 DEF Next, Step

(* What a step does to one checkout's order: write an item of the cart, or *)
(* all that was taken, or nothing.                                         *)
Rewrites(c) ==
  /\ orders' \in [Checkouts -> OrderRows]
  /\ \A d \in Checkouts \ {c} : orders'[d] = orders[d]
  /\ \A p \in orders'[c].items : Asked(c, p)

LEMMA RewritesFacts ==
  ASSUME OrdersAsked, BuyersFinite, NEW c \in Checkouts, Rewrites(c)
  PROVE  OrdersAsked' /\ BuyersFinite'
<1>1. OrdersAsked'
  BY DEF OrdersAsked, Rewrites, Asked
<1>2. ASSUME NEW p \in Products
      PROVE  IsFiniteSet(Buyers(p)')
  <2>1. Buyers(p)' \subseteq Buyers(p) \cup {c}
    BY DEF Buyers, Rewrites
  <2>2. IsFiniteSet(Buyers(p) \cup {c})
    BY FS_AddElement DEF BuyersFinite
  <2>3. QED
    BY <2>1, <2>2, FS_Subset
<1>3. QED
  BY <1>1, <1>2 DEF BuyersFinite

(* Neither the stock of p nor the orders of it change.                     *)
Keeps(p) ==
  stock'[p] = stock[p] /\ supplied'[p] = supplied[p] /\ Buyers(p)' = Buyers(p)

LEMMA KeepsAccounted ==
  ASSUME NEW p \in Products, Keeps(p), Accounted(p)
  PROVE  Accounted(p)'
<1>1. Sold(p)' = Sold(p)
  BY DEF Keeps, Sold
<1>2. QED
  BY <1>1 DEF Keeps, Accounted

(* A checkout outside its transaction writes to no order that counts.      *)
LEMMA OutsideKeeps ==
  ASSUME OrdersAsked, NEW c \in Checkouts, Rewrites(c), NEW p \in Products, ~Asked(c, p),
         stock'[p] = stock[p], supplied' = supplied
  PROVE  Keeps(p)
<1>1. p \notin orders[c].items /\ p \notin orders'[c].items
  BY DEF OrdersAsked, Rewrites
<1>2. Buyers(p)' = Buyers(p)
  BY <1>1 DEF Buyers, Rewrites
<1>3. QED
  BY <1>2 DEF Keeps

(* A commit sells what its transaction took.                               *)
LEMMA CommitAccounted ==
  ASSUME StockInv, NEW c \in Checkouts, Commit(c), InTransaction(c),
         NEW p \in Products, Accounted(p)
  PROVE  Accounted(p)'
<1> DEFINE lines == run[c].lines
<1>a. CheckoutRight(c) /\ HeldBacked /\ TypeOK
  BY DEF StockInv, IInv
<1>0. held[c] = lines /\ staged[c] = Whole(lines) /\ orders[c] = NoOrder
  BY <1>a DEF Commit, CheckoutRight, LocksRight, OrderRight, Running
<1>1. /\ stock' = [q \in Products |-> IF q \in lines THEN stock[q] - Quantity[c][q] ELSE stock[q]]
      /\ orders' = [orders EXCEPT ![c] = Whole(lines)]
      /\ UNCHANGED supplied
  BY <1>0 DEF Commit
<1>2. orders'[c].items = lines /\ \A d \in Checkouts \ {c} : orders'[d] = orders[d]
  BY <1>a, <1>1 DEF Whole, TypeOK
<1>3. orders[c].items = {}
  BY <1>0 DEF NoOrder
<1>4. CASE p \notin lines
  <2>1. Buyers(p)' = Buyers(p)
    BY <1>2, <1>3, <1>4 DEF Buyers
  <2>2. Keeps(p)
    BY <1>1, <1>4, <2>1 DEF Keeps
  <2>3. QED
    BY <2>2, KeepsAccounted
<1>5. CASE p \in lines
  <2> DEFINE f == [d \in Checkouts |-> Quantity[d][p]]
             B == Buyers(p)
  <2>1. Buyers(p)' = B \cup {c} /\ c \notin B /\ B \subseteq Checkouts
    BY <1>2, <1>3, <1>5 DEF Buyers
  <2>2. \A d \in Checkouts : f[d] \in Int
    BY CartFacts
  <2>3. IsFiniteSet(B) /\ IsFiniteSet(B \cup {c})
    BY FS_AddElement DEF StockInv, BuyersFinite
  <2>4. f[c] = Quantity[c][p]
    OBVIOUS
  <2>5. Sold(p) = SumFunctionOnSet(f, B) /\ Sold(p)' = SumFunctionOnSet(f, B \cup {c})
    BY <2>1 DEF Sold
  <2> HIDE DEF f, B
  <2>6. SumFunctionOnSet(f, B \cup {c}) = f[c] + SumFunctionOnSet(f, (B \cup {c}) \ {c})
    <3>1. \A d \in B \cup {c} : f[d] \in Int
      BY <2>1, <2>2
    <3>2. QED
      BY <2>3, <3>1, SumRemove
  <2>7. (B \cup {c}) \ {c} = B
    BY <2>1
  <2>8. SumFunctionOnSet(f, B) \in Int
    BY <2>1, <2>2, <2>3, SumType
  <2>9. Sold(p)' = Quantity[c][p] + Sold(p) /\ Sold(p) \in Int
    BY <2>4, <2>5, <2>6, <2>7, <2>8
  <2>10. Quantity[c][p] \in Int /\ stock[p] \in Int /\ supplied[p] \in Int
    BY <1>a, CartFacts DEF TypeOK
  <2>11. stock'[p] = stock[p] - Quantity[c][p] /\ supplied'[p] = supplied[p]
    BY <1>1, <1>5
  <2>12. QED
    BY <2>9, <2>10, <2>11 DEF Accounted
<1>6. QED
  BY <1>4, <1>5

LEMMA SameOrders ==
  ASSUME StockInv, UNCHANGED orders
  PROVE  OrdersAsked' /\ BuyersFinite'
<1>1. \A p \in Products : Buyers(p)' = Buyers(p)
  BY DEF Buyers
<1>2. QED
  BY <1>1 DEF StockInv, OrdersAsked, BuyersFinite, Asked

(* The statements that write the order.                                    *)
LEMMA WritesAsked ==
  ASSUME StockInv, NEW c \in Checkouts, InsertOrder(c) \/ InsertItem(c) \/ Commit(c)
  PROVE  Rewrites(c)
<1>0. /\ TypeOK /\ CheckoutRight(c) /\ IInv'
      /\ \A p \in orders[c].items : Asked(c, p)
      /\ \A p \in staged[c].items : InTransaction(c) => Asked(c, p)
  <2>1. TypeOK /\ CheckoutRight(c) /\ OrdersAsked
    BY DEF StockInv, IInv
  <2>2. IInv'
    BY InsertOrderIInv, InsertItemIInv, CommitIInv DEF StockInv
  <2>3. InTransaction(c) => staged[c].items \subseteq run[c].lines
    <3>1. run[c].pc \in {"insert", "items", "commit"}
      BY DEF InsertOrder, InsertItem, Commit
    <3>2. QED
      BY <2>1, <3>1, WholeFacts DEF CheckoutRight, OrderRight, NoOrder
  <2>4. \A p \in run[c].lines : Asked(c, p)
    BY <2>1 DEF CheckoutRight, PlaceRight
  <2>5. QED
    BY <2>1, <2>2, <2>3, <2>4 DEF OrdersAsked
<1>1. orders' \in [Checkouts -> OrderRows]
  BY <1>0 DEF IInv, TypeOK
<1>2. CASE UNCHANGED orders
  BY <1>0, <1>1, <1>2 DEF Rewrites
<1>3. ASSUME NEW row, orders' = [orders EXCEPT ![c] = row],
             \A p \in row.items : Asked(c, p)
      PROVE  Rewrites(c)
  BY <1>0, <1>1, <1>3 DEF Rewrites, TypeOK
<1>4. CASE InsertOrder(c)
  <2>1. \A p \in [placed |-> TRUE, items |-> {}].items : Asked(c, p)
    OBVIOUS
  <2>2. QED
    BY <1>2, <1>3, <1>4, <2>1 DEF InsertOrder, Write
<1>5. CASE InsertItem(c) /\ ~UNCHANGED orders
  <2>1. PICK p \in run[c].lines : Write(c, [Written(c) EXCEPT !.items = @ \cup {p}])
    BY <1>5 DEF InsertItem
  <2>2. orders' = [orders EXCEPT ![c] = [orders[c] EXCEPT !.items = @ \cup {p}]]
    BY <1>5, <2>1 DEF Write, Written
  <2>3. orders[c] \in OrderRows /\ Asked(c, p)
    BY <1>0 DEF TypeOK, CheckoutRight, PlaceRight
  <2>4. [orders[c] EXCEPT !.items = @ \cup {p}].items = orders[c].items \cup {p}
    BY <2>3 DEF OrderRows
  <2>5. QED
    BY <1>0, <1>3, <2>2, <2>3, <2>4
<1>6. CASE Commit(c)
  <2>1. CASE InTransaction(c)
    BY <1>0, <1>3, <1>6, <2>1 DEF Commit
  <2>2. CASE ~InTransaction(c)
    BY <1>2, <1>6, <2>2 DEF Commit
  <2>3. QED
    BY <2>1, <2>2
<1>7. QED
  BY <1>2, <1>4, <1>5, <1>6

LEMMA NextOrders ==
  ASSUME StockInv, [Next]_vars
  PROVE  OrdersAsked' /\ BuyersFinite'
<1>1. ASSUME NEW c \in Checkouts,
             Begin(c) \/ Take(c) \/ DeadlockVictim(c) \/ Fail(c) \/ LoseConnection(c)
      PROVE  UNCHANGED orders
  BY <1>1 DEF Begin, Take, DeadlockVictim, Fail, LoseConnection
<1>2. ASSUME NEW p \in Products, SetActive(p) \/ \E n \in 0 .. MaxStock : SetStock(p, n)
      PROVE  UNCHANGED orders
  BY <1>2 DEF SetActive, SetStock
<1>3. ASSUME NEW c \in Checkouts, InsertOrder(c) \/ InsertItem(c) \/ Commit(c)
      PROVE  OrdersAsked' /\ BuyersFinite'
  <2>1. Rewrites(c)
    BY <1>3, WritesAsked
  <2>2. QED
    BY <2>1, RewritesFacts DEF StockInv
<1>4. CASE UNCHANGED vars
  BY <1>4, SameOrders DEF vars
<1>5. QED
  BY <1>1, <1>2, <1>3, <1>4, SameOrders DEF Next, Step

(* What a checkout that keeps its transaction, or that did not ask for p,  *)
(* does to the units of p.                                                 *)
LEMMA StepAccounted ==
  ASSUME StockInv, NEW c \in Checkouts, Step(c),
         NEW p \in Products, Undisturbed(p), Accounted(p)
  PROVE  Accounted(p)'
<1>0. TypeOK /\ CheckoutRight(c) /\ OrdersAsked
  BY DEF StockInv, IInv
<1>1. CASE DeadlockVictim(c)
  <2>1. UNCHANGED <<stock, orders, supplied>>
    BY <1>1 DEF DeadlockVictim
  <2>2. Keeps(p)
    BY <2>1 DEF Keeps, Buyers
  <2>3. QED
    BY <2>2, KeepsAccounted
<1>2. CASE Take(c)
  <2>1. UNCHANGED <<orders, supplied>>
    BY <1>2 DEF Take
  <2>2. stock'[p] = stock[p]
    <3>1. CASE InTransaction(c)
      BY <1>2, <3>1 DEF Take
    <3>2. CASE ~InTransaction(c)
      <4>1. Asked(c, Wanted(c))
        BY <1>0, <1>2, CartFacts DEF Take, Wanted, Asked, TypeOK, Executions, CheckoutRight, PlaceRight
      <4>2. p # Wanted(c)
        BY <3>2, <4>1 DEF Undisturbed
      <4>3. QED
        BY <1>2, <3>2, <4>2 DEF Take
    <3>3. QED
      BY <3>1, <3>2
  <2>3. Keeps(p)
    BY <2>1, <2>2 DEF Keeps, Buyers
  <2>4. QED
    BY <2>3, KeepsAccounted
<1>3. CASE InsertOrder(c) \/ InsertItem(c) \/ Commit(c)
  <2>1. Rewrites(c)
    BY <1>3, WritesAsked
  <2>2. CASE InTransaction(c) /\ Commit(c)
    BY <2>2, CommitAccounted
  <2>3. CASE ~(InTransaction(c) /\ Commit(c))
    <3>1. UNCHANGED <<stock, supplied>>
      BY <1>3, <2>3 DEF InsertOrder, InsertItem, Commit
    <3>2. CASE InTransaction(c)
      <4>1. UNCHANGED orders
        BY <1>3, <2>3, <3>2 DEF InsertOrder, InsertItem, Write
      <4>2. Keeps(p)
        BY <3>1, <4>1 DEF Keeps, Buyers
      <4>3. QED
        BY <4>2, KeepsAccounted
    <3>3. CASE ~InTransaction(c)
      <4>1. ~Asked(c, p)
        BY <3>3 DEF Undisturbed
      <4>2. Keeps(p)
        BY <1>0, <2>1, <3>1, <4>1, OutsideKeeps
      <4>3. QED
        BY <4>2, KeepsAccounted
    <3>4. QED
      BY <3>2, <3>3
  <2>4. QED
    BY <2>2, <2>3
<1>4. QED
  BY <1>1, <1>2, <1>3 DEF Step

LEMMA OtherAccounted ==
  ASSUME StockInv, UNCHANGED <<orders, stock, supplied>>,
         NEW p \in Products, Accounted(p)
  PROVE  Accounted(p)'
<1>1. Keeps(p)
  BY DEF Keeps, Buyers
<1>2. QED
  BY <1>1, KeepsAccounted

LEMMA SetStockAccounted ==
  ASSUME StockInv, NEW q \in Products, NEW n \in 0 .. MaxStock, SetStock(q, n),
         NEW p \in Products, Accounted(p)
  PROVE  Accounted(p)'
<1>0. UNCHANGED orders /\ TypeOK
  BY DEF SetStock, StockInv, IInv
<1>1. CASE p # q
  <2>1. Keeps(p)
    BY <1>0, <1>1 DEF Keeps, Buyers, SetStock, TypeOK
  <2>2. QED
    BY <2>1, KeepsAccounted
<1>2. CASE p = q
  <2>1. /\ stock'[p] = n /\ supplied'[p] = supplied[p] + n - stock[p]
        /\ stock[p] \in Int /\ supplied[p] \in Int /\ n \in Int
    BY <1>0, <1>2, CheckoutAssumption DEF SetStock, TypeOK
  <2>2. Sold(p)' = Sold(p)
    BY <1>0 DEF Sold, Buyers
  <2>3. Sold(p) \in Int
    <3>1. \A c \in Buyers(p) : [d \in Checkouts |-> Quantity[d][p]][c] \in Int
      BY CartFacts DEF Buyers
    <3>2. QED
      BY <3>1, SumType DEF StockInv, BuyersFinite, Sold
  <2>4. Accounted(p)'
    BY <2>1, <2>2, <2>3 DEF Accounted
  <2>5. QED
    BY <2>4
<1>3. QED
  BY <1>1, <1>2

LEMMA NextStockInv == StockInv /\ [Next]_vars => StockInv'
<1> SUFFICES ASSUME StockInv, [Next]_vars
             PROVE  StockInv'
  OBVIOUS
<1>1. IInv'
  BY NextIInv DEF StockInv
<1>2. ASSUME NEW p \in Products, Undisturbed(p), Accounted(p)
      PROVE  Accounted(p)'
  <2>1. ASSUME NEW c \in Checkouts, Begin(c) \/ Fail(c) \/ LoseConnection(c)
        PROVE  UNCHANGED <<orders, stock, supplied>>
    BY <2>1 DEF Begin, Fail, LoseConnection
  <2>2. ASSUME NEW q \in Products, SetActive(q)
        PROVE  UNCHANGED <<orders, stock, supplied>>
    BY <2>2 DEF SetActive
  <2>3. CASE UNCHANGED vars
    BY <1>2, <2>3, OtherAccounted DEF vars
  <2>4. QED
    BY <1>2, <2>1, <2>2, <2>3, StepAccounted, SetStockAccounted, OtherAccounted DEF Next
<1>3. ASSUME NEW p \in Products, Undisturbed(p)'
      PROVE  Undisturbed(p) /\ Accounted(p)
  <2>1. Undisturbed(p)
    BY <1>3, ConnectionsOnlyLost DEF StockInv, Undisturbed, Asked
  <2>2. QED
    BY <2>1 DEF StockInv, StockConserved, Undisturbed
<1>4. StockConserved'
  BY <1>2, <1>3 DEF StockConserved, Undisturbed
<1>5. OrdersAsked' /\ BuyersFinite'
  BY NextOrders
<1>6. QED
  BY <1>1, <1>4, <1>5 DEF StockInv

(* checkout_cart's "a crash or error partway through never leaves stock    *)
(* decremented without a matching order, or vice versa", for every product *)
(* whose checkouts kept their transactions, however many there are and     *)
(* whatever becomes of the others.                                         *)
THEOREM StockConservedAlways == Spec => []StockConserved
<1>1. StockInv => StockConserved
  BY DEF StockInv
<1>2. QED
  BY <1>1, InitStockInv, NextStockInv, PTL DEF Spec
=============================================================================
