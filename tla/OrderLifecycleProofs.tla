------------------------ MODULE OrderLifecycleProofs ------------------------
(***************************************************************************)
(* Theorems about OrderLifecycle, for any number of orders, workers, links *)
(* and crashes; at the end, that it implements OrderContract and confirms  *)
(* a payment at most once per shipment.                                    *)
(***************************************************************************)
EXTENDS OrderLifecycle, FiniteSetTheorems, TLAPS

-----------------------------------------------------------------------------
(* Typing.                                                                 *)

(* What the statements of OrderRows do to the type of a row.               *)
LEMMA RowTypes ==
  /\ NoRow \in Rows
  /\ InsertedRow \in Rows
  /\ \A row \in Rows :
       /\ MarkFailed(row) \in Rows
       /\ MarkFulfilled(row) \in Rows
       /\ \A l \in Links : MarkPaid(row, l) \in Rows /\ StoreLink(row, l) \in Rows
BY DEF Rows, NoRow, InsertedRow, MarkPaid, MarkFailed, MarkFulfilled, StoreLink,
       Statuses, References, NoReference, Links, NoLink

(* What the type of a handler does not say by itself: which kinds of       *)
(* handler are ever at which step, and that a link about to be stored or   *)
(* recorded as paid is never NULL.                                         *)
HandlerShape(h) ==
  /\ h.kind = "idle" <=> h.pc = "idle"
  /\ h.pc # "idle" => h.order \in Orders
  /\ h.kind = "paid" => h.pc \in {"mark", "send"} /\ h.link \in Links
  /\ h.kind = "checkout" => h.pc \in {"create", "store", "send"}
  /\ h.kind \in {"failed", "fulfil"} => h.pc \in {"mark", "send"}
  /\ h.pc = "store" => h.link \in Links

HandlerShapes == \A w \in Workers : HandlerShape(worker[w])

TypeInv == TypeOK /\ HandlerShapes

(* A worker that goes on to a well-shaped record keeps the shapes.         *)
LEMMA HandlerMove ==
  ASSUME TypeInv, NEW w \in Workers, NEW h \in Handlers, HandlerShape(h),
         worker' = [worker EXCEPT ![w] = h]
  PROVE  worker' \in [Workers -> Handlers] /\ HandlerShapes'
BY DEF TypeInv, TypeOK, HandlerShapes

(* A worker that finishes or dies is idle, which is a shape of its own.    *)
LEMMA HandlerFinish ==
  ASSUME TypeInv, NEW w \in Workers, Finish(w)
  PROVE  worker' \in [Workers -> Handlers] /\ HandlerShapes'
<1>1. IdleHandler \in Handlers /\ HandlerShape(IdleHandler)
  BY DEF IdleHandler, Handlers, HandlerShape, NoLink
<1>2. QED
  BY <1>1, HandlerMove DEF Finish

(* A worker that goes on with the same order and link keeps its shape.     *)
LEMMA HandlerGoto ==
  ASSUME TypeInv, NEW w \in Workers,
         NEW pc \in {"create", "send"},
         Goto(w, pc), worker[w].pc # "idle",
         pc = "create" => worker[w].kind = "expired"
  PROVE  worker' \in [Workers -> Handlers] /\ HandlerShapes'
<1> DEFINE h == [worker[w] EXCEPT !.pc = pc]
<1>1. worker[w] \in Handlers /\ HandlerShape(worker[w])
  BY DEF TypeInv, TypeOK, HandlerShapes
<1>2. h \in Handlers
  BY <1>1 DEF Handlers
<1>3. HandlerShape(h)
  BY <1>1 DEF Handlers, HandlerShape
<1>4. worker' = [worker EXCEPT ![w] = h]
  BY DEF Goto
<1> HIDE DEF h
<1>5. QED
  BY <1>2, <1>3, <1>4, HandlerMove

(* An answer that gets through ends an event, one that is lost ends none.  *)
LEMMA AnswerEvents ==
  ASSUME NEW w \in Workers, Answer(w)
  PROVE  events' \subseteq events
BY DEF Answer

(* No handler runs at first.                                               *)
LEMMA InitTypeInv == Init => TypeInv
BY LifecycleAssumption, RowTypes
   DEF Init, TypeInv, TypeOK, HandlerShapes, HandlerShape, IdleHandler, Handlers,
       LinkStates, NoLink

(* One step per action: types and shapes survive it.                       *)
LEMMA NextTypeInv == TypeInv /\ [Next]_vars => TypeInv'
<1> SUFFICES ASSUME TypeInv, [Next]_vars
             PROVE  TypeInv'
  OBVIOUS
<1>0. /\ TypeOK /\ HandlerShapes
      /\ \A w \in Workers : worker[w] \in Handlers /\ HandlerShape(worker[w])
      /\ \A o \in Orders : rows[o] \in Rows
  BY DEF TypeInv, TypeOK, HandlerShapes
<1>1. ASSUME NEW w \in Workers, NEW o \in Orders, PlaceOrder(w, o)
      PROVE  TypeInv'
  <2> DEFINE h == [kind |-> "checkout", pc |-> "create", order |-> o, link |-> NoLink]
  <2>1. h \in Handlers /\ HandlerShape(h)
    BY DEF Handlers, HandlerShape, NoLink
  <2>2. worker' = [worker EXCEPT ![w] = h]
    BY <1>1 DEF PlaceOrder
  <2> HIDE DEF h
  <2>3. worker' \in [Workers -> Handlers] /\ HandlerShapes'
    BY <2>1, <2>2, HandlerMove
  <2>4. rows' \in [Orders -> Rows]
    BY <1>0, <1>1, RowTypes DEF PlaceOrder, TypeOK
  <2>5. QED
    BY <1>0, <1>1, <2>3, <2>4 DEF PlaceOrder, TypeInv, TypeOK
<1>2. ASSUME NEW w \in Workers, NEW o \in Orders, ClickFulfil(w, o)
      PROVE  TypeInv'
  <2> DEFINE h == [kind |-> "fulfil", pc |-> "mark", order |-> o, link |-> NoLink]
  <2>1. h \in Handlers /\ HandlerShape(h)
    BY DEF Handlers, HandlerShape, NoLink
  <2>2. worker' = [worker EXCEPT ![w] = h]
    BY <1>2 DEF ClickFulfil
  <2> HIDE DEF h
  <2>3. worker' \in [Workers -> Handlers] /\ HandlerShapes'
    BY <2>1, <2>2, HandlerMove
  <2>4. QED
    BY <1>0, <1>2, <2>3 DEF ClickFulfil, TypeInv, TypeOK
<1>3. ASSUME NEW w \in Workers, NEW e \in Events, Deliver(w, e)
      PROVE  TypeInv'
  <2>1. HandlerOf(e) \in Handlers /\ HandlerShape(HandlerOf(e))
    <3>1. rows[e.order] \in Rows /\ e.order \in Orders /\ e.link \in Links
      BY <1>0 DEF Events
    <3>2. e.kind \in {"paid", "expired", "failed"}
      BY DEF Events
    <3>3. CASE e.kind = "paid"
      BY <3>1, <3>3 DEF HandlerOf, Handlers, HandlerShape
    <3>4. CASE e.kind = "failed"
      BY <3>1, <3>4 DEF HandlerOf, Handlers, HandlerShape, Rows
    <3>5. CASE e.kind = "expired"
      BY <3>1, <3>5 DEF HandlerOf, Handlers, HandlerShape
    <3>6. QED
      BY <3>2, <3>3, <3>4, <3>5
  <2>2. worker' \in [Workers -> Handlers] /\ HandlerShapes'
    BY <1>3, <2>1, HandlerMove DEF Deliver
  <2>3. QED
    BY <1>0, <1>3, <2>2 DEF Deliver, TypeInv, TypeOK
<1>4. ASSUME NEW w \in Workers, DoMarkPaid(w)
      PROVE  TypeInv'
  <2>a. worker[w].pc # "idle"
    BY <1>4 DEF DoMarkPaid
  <2>b. Goto(w, "send") \/ Finish(w)
    BY <1>4 DEF DoMarkPaid
  <2>1. worker' \in [Workers -> Handlers] /\ HandlerShapes'
    BY <2>a, <2>b, HandlerGoto, HandlerFinish
  <2>2. worker[w].order \in Orders /\ worker[w].link \in Links
    BY <1>0, <1>4 DEF DoMarkPaid, HandlerShape
  <2>c. MarkPaid(rows[worker[w].order], worker[w].link) \in Rows
    BY <1>0, <2>2, RowTypes
  <2>d. \/ UNCHANGED rows
        \/ rows' = [rows EXCEPT ![worker[w].order] =
                      MarkPaid(rows[worker[w].order], worker[w].link)]
    BY <1>4 DEF DoMarkPaid
  <2>3. rows' \in [Orders -> Rows]
    BY <1>0, <2>c, <2>d DEF TypeOK
  <2>4. events' \in SUBSET Events
    BY <1>0, <1>4, AnswerEvents DEF DoMarkPaid, TypeOK
  <2>5. QED
    BY <1>0, <1>4, <2>1, <2>3, <2>4 DEF DoMarkPaid, TypeInv, TypeOK
<1>5. ASSUME NEW w \in Workers, DoMarkFailed(w)
      PROVE  TypeInv'
  <2>1. worker' \in [Workers -> Handlers] /\ HandlerShapes'
    BY <1>0, <1>5, HandlerGoto, HandlerFinish DEF DoMarkFailed
  <2>2. worker[w].order \in Orders
    BY <1>0, <1>5 DEF DoMarkFailed, HandlerShape
  <2>3. rows' \in [Orders -> Rows]
    BY <1>0, <1>5, <2>2, RowTypes DEF DoMarkFailed, TypeOK
  <2>4. QED
    BY <1>0, <1>5, <2>1, <2>3 DEF DoMarkFailed, TypeInv, TypeOK
<1>6. ASSUME NEW w \in Workers, DoMarkFulfilled(w)
      PROVE  TypeInv'
  <2>1. worker' \in [Workers -> Handlers] /\ HandlerShapes'
    BY <1>0, <1>6, HandlerGoto, HandlerFinish DEF DoMarkFulfilled
  <2>2. worker[w].order \in Orders
    BY <1>0, <1>6 DEF DoMarkFulfilled, HandlerShape
  <2>3. rows' \in [Orders -> Rows]
    BY <1>0, <1>6, <2>2, RowTypes DEF DoMarkFulfilled, TypeOK
  <2>4. shipments' \in [Orders -> Nat]
    BY <1>0, <1>6, <2>2 DEF DoMarkFulfilled, TypeOK
  <2>5. UNCHANGED <<gateway, stored, events, confirmed, crashes>>
    BY <1>6 DEF DoMarkFulfilled
  <2>6. QED
    BY <1>0, <2>1, <2>3, <2>4, <2>5 DEF TypeInv, TypeOK
<1>7. ASSUME NEW w \in Workers, CreateLink(w)
      PROVE  TypeInv'
  <2> DEFINE o == worker[w].order
  <2>1. PICK l \in Links : /\ gateway' = [gateway EXCEPT ![o][l] = "open"]
                           /\ worker' = [worker EXCEPT ![w].pc = "store", ![w].link = l]
    BY <1>7 DEF CreateLink, Unmade
  <2> DEFINE h == [worker[w] EXCEPT !.pc = "store", !.link = l]
  <2>2. h \in Handlers /\ HandlerShape(h)
    BY <1>0, <1>7 DEF CreateLink, Handlers, HandlerShape
  <2>3. worker' = [worker EXCEPT ![w] = h]
    BY <2>1
  <2> HIDE DEF h
  <2>4. worker' \in [Workers -> Handlers] /\ HandlerShapes'
    BY <2>2, <2>3, HandlerMove
  <2>5. gateway' \in [Orders -> [Links -> LinkStates]]
    BY <1>0, <2>1 DEF TypeOK, LinkStates
  <2>6. QED
    BY <1>0, <1>7, <2>4, <2>5 DEF CreateLink, TypeInv, TypeOK
<1>8. ASSUME NEW w \in Workers, LinkRefused(w)
      PROVE  TypeInv'
  <2>a. worker[w].pc # "idle" /\ Goto(w, "send")
    BY <1>8 DEF LinkRefused
  <2>1. worker' \in [Workers -> Handlers] /\ HandlerShapes'
    BY <2>a, HandlerGoto
  <2>2. gateway' \in [Orders -> [Links -> LinkStates]]
    <3>1. CASE UNCHANGED gateway
      BY <1>0, <3>1 DEF TypeOK
    <3>2. ASSUME NEW l \in Links, gateway' = [gateway EXCEPT ![worker[w].order][l] = "open"]
          PROVE  gateway' \in [Orders -> [Links -> LinkStates]]
      BY <1>0, <3>2 DEF TypeOK, LinkStates
    <3>3. QED
      BY <1>8, <3>1, <3>2 DEF LinkRefused, Unmade
  <2>3. QED
    BY <1>0, <1>8, <2>1, <2>2 DEF LinkRefused, TypeInv, TypeOK
<1>9. ASSUME NEW w \in Workers, DoStoreLink(w)
      PROVE  TypeInv'
  <2>a. worker[w].pc # "idle" /\ Goto(w, "send")
    BY <1>9 DEF DoStoreLink
  <2>1. worker' \in [Workers -> Handlers] /\ HandlerShapes'
    BY <2>a, HandlerGoto
  <2>2. worker[w].order \in Orders /\ worker[w].link \in Links
    BY <1>0, <1>9 DEF DoStoreLink, HandlerShape
  <2>3. rows' \in [Orders -> Rows] /\ stored' \in [Orders -> SUBSET Links]
    BY <1>0, <1>9, <2>2, RowTypes DEF DoStoreLink, TypeOK
  <2>4. QED
    BY <1>0, <1>9, <2>1, <2>3 DEF DoStoreLink, TypeInv, TypeOK
<1>10. ASSUME NEW w \in Workers, Send(w)
      PROVE  TypeInv'
  <2>1. worker' \in [Workers -> Handlers] /\ HandlerShapes'
    BY <1>10, HandlerFinish DEF Send
  <2>2. confirmed' \in [Orders -> Nat]
    <3>1. confirmed \in [Orders -> Nat]
      BY <1>0 DEF TypeOK
    <3>2. \/ confirmed' = confirmed
          \/ confirmed' = [confirmed EXCEPT ![worker[w].order] = @ + 1]
      BY <1>10 DEF Send
    <3>3. QED
      BY <3>1, <3>2
  <2>3. events' \in SUBSET Events
    BY <1>0, <1>10, AnswerEvents DEF Send, TypeOK
  <2>4. QED
    BY <1>0, <1>10, <2>1, <2>2, <2>3 DEF Send, TypeInv, TypeOK
<1>11. ASSUME NEW w \in Workers, Crash(w)
      PROVE  TypeInv'
  <2>1. worker' \in [Workers -> Handlers] /\ HandlerShapes'
    BY <1>11, HandlerFinish DEF Crash
  <2>2. crashes' \in 0 .. MaxCrashes
    BY <1>0, <1>11, LifecycleAssumption DEF Crash, TypeOK
  <2>3. QED
    BY <1>0, <1>11, <2>1, <2>2 DEF Crash, TypeInv, TypeOK
<1>12. ASSUME NEW o \in Orders, NEW l \in Links,
              AttemptFails(o, l) \/ Pay(o, l) \/ Expire(o, l)
      PROVE  TypeInv'
  <2>1. gateway' \in [Orders -> [Links -> LinkStates]]
    BY <1>0, <1>12 DEF AttemptFails, Pay, Expire, TypeOK, LinkStates
  <2>2. events' \in SUBSET Events
    BY <1>0, <1>12 DEF AttemptFails, Pay, Expire, Emit, Events, TypeOK
  <2>3. QED
    BY <1>0, <1>12, <2>1, <2>2
       DEF AttemptFails, Pay, Expire, TypeInv, TypeOK, HandlerShapes
<1>13. CASE UNCHANGED vars
  BY <1>0, <1>13 DEF vars, TypeInv, TypeOK, HandlerShapes
<1>14. QED
  BY <1>1, <1>2, <1>3, <1>4, <1>5, <1>6, <1>7, <1>8, <1>9, <1>10, <1>11, <1>12, <1>13
     DEF Next, Step

(* Every variable keeps its type, and every handler the shape its steps    *)
(* rely on, under any interleaving of handlers, events and crashes.        *)
THEOREM TypeCorrect == Spec => []TypeOK
<1>1. TypeInv => TypeOK
  BY DEF TypeInv
<1>2. QED
  BY InitTypeInv, NextTypeInv, <1>1, PTL DEF Spec
-----------------------------------------------------------------------------
(* The inductive invariant behind the safety properties.                   *)

(* Events and the handlers they started report what Razorpay did.          *)
EventsTrue ==
  \A e \in events :
    /\ e.kind = "paid" => gateway[e.order][e.link] = "paid"
    /\ e.kind = "expired" => gateway[e.order][e.link] = "expired"
    /\ e.kind = "failed" => e.link \in stored[e.order]

HandlerTrue(h) ==
  /\ h.kind = "paid" /\ h.pc = "mark" => gateway[h.order][h.link] = "paid"
  /\ h.kind = "expired" /\ h.pc = "mark" => \E l \in Links : gateway[h.order][l] = "expired"
  /\ h.kind = "failed" /\ h.pc = "mark" => stored[h.order] # {}
  /\ h.pc = "store" => gateway[h.order][h.link] # "none"

HandlersTrue == \A w \in Workers : HandlerTrue(worker[w])

StoredWereMade == \A o \in Orders : \A l \in stored[o] : gateway[o][l] # "none"

(* A handler that is making a payment link for o.                          *)
Makes(w, o) == worker[w].pc \in {"create", "store"} /\ worker[w].order = o

(* Nothing can take the customer's money but the link in the maker's hand, *)
(* and the customer has not seen that one.                                 *)
MakerInv(w, o) ==
  /\ worker[w].pc = "create" => Payable(o) \cup Captured(o) = {}
  /\ worker[w].pc = "store" =>
       /\ Payable(o) = {worker[w].link} /\ Captured(o) = {}
       /\ worker[w].link \notin stored[o]
  /\ worker[w].kind = "checkout" =>
       /\ rows[o].status = "pending_payment"
       /\ stored[o] = {}
       /\ \A l \in Links : gateway[o][l] \in {"none", "open"}
       /\ worker[w].pc = "create" => \A l \in Links : gateway[o][l] = "none"
  /\ worker[w].kind = "expired" => rows[o].status # "pending_payment"

MakersInv(o) ==
  /\ \A v, w \in Workers : Makes(v, o) /\ Makes(w, o) => v = w
  /\ \A w \in Workers : Makes(w, o) => MakerInv(w, o)

AbsentInv(o) ==
  ~Exists(rows[o]) =>
    /\ stored[o] = {}
    /\ \A l \in Links : gateway[o][l] = "none"
    /\ \A w \in Workers : worker[w].order # o

OneLinkMade(o) ==
  \A k, l \in Links : gateway[o][k] # "none" /\ gateway[o][l] # "none" => k = l

OneLinkLive(o) == \A k, l \in Payable(o) \cup Captured(o) : k = l

ReceiptInv(o) ==
  rows[o].status = "paid" => rows[o].ref.kind = "pay" /\ rows[o].ref.link \in Captured(o)

(* An order before its first shipment.                                     *)
OrderInv(o) ==
  /\ AbsentInv(o)
  /\ rows[o].status # "fulfilled"
  /\ rows[o].status = "pending_payment" => OneLinkMade(o)
  /\ OneLinkLive(o)
  /\ ReceiptInv(o)
  /\ MakersInv(o)

UnshippedInv == \A o \in Orders : ~Shipped(o) => OrderInv(o)

IInv ==
  /\ TypeInv
  /\ EventsTrue
  /\ HandlersTrue
  /\ StoredWereMade
  /\ PaidMeansCaptured
  /\ UnshippedInv
(* Links move forward only, what was stored stays stored and what was      *)
(* shipped stays shipped.                                                  *)
Forward ==
  /\ \A o \in Orders, l \in Links :
       /\ gateway[o][l] # "none" => gateway'[o][l] # "none"
       /\ gateway[o][l] = "paid" => gateway'[o][l] = "paid"
       /\ gateway[o][l] = "expired" => gateway'[o][l] = "expired"
  /\ \A o \in Orders : stored[o] \subseteq stored'[o]
  /\ \A o \in Orders : Shipped(o) => Shipped(o)'

(* Links, events and shipments are never undone by any step.               *)
LEMMA NextForward ==
  ASSUME TypeInv, [Next]_vars
  PROVE  Forward
<1> USE DEF Forward
<1>0. /\ \A w \in Workers : worker[w] \in Handlers /\ HandlerShape(worker[w])
      /\ gateway \in [Orders -> [Links -> LinkStates]]
      /\ stored \in [Orders -> SUBSET Links]
      /\ shipments \in [Orders -> Nat]
  BY DEF TypeInv, TypeOK, HandlerShapes
<1>1. CASE UNCHANGED <<gateway, stored, shipments>>
  BY <1>0, <1>1 DEF Shipped
<1>2. ASSUME NEW p \in Orders, NEW k \in Links, NEW s \in LinkStates,
             gateway' = [gateway EXCEPT ![p][k] = s],
             \/ gateway[p][k] = "none" /\ s = "open"
             \/ gateway[p][k] = "open" /\ s \in {"paid", "expired"},
             UNCHANGED <<stored, shipments>>
      PROVE  Forward
  BY <1>0, <1>2 DEF Shipped
<1>3. ASSUME NEW w \in Workers, DoStoreLink(w)
      PROVE  Forward
  <2>1. \A o \in Orders : stored[o] \subseteq stored'[o]
    BY <1>0, <1>3 DEF DoStoreLink
  <2>2. QED
    BY <1>0, <1>3, <2>1 DEF DoStoreLink, Shipped
<1>4. ASSUME NEW w \in Workers, DoMarkFulfilled(w)
      PROVE  Forward
  <2>1. \/ UNCHANGED shipments
        \/ shipments' = [shipments EXCEPT ![worker[w].order] = @ + 1]
    BY <1>4 DEF DoMarkFulfilled
  <2>2. \A o \in Orders : Shipped(o) => Shipped(o)'
    BY <1>0, <2>1 DEF Shipped
  <2>3. QED
    BY <1>0, <1>4, <2>2 DEF DoMarkFulfilled
<1>5. ASSUME NEW w \in Workers, CreateLink(w) \/ LinkRefused(w)
      PROVE  Forward
  <2>1. worker[w].order \in Orders
    BY <1>0, <1>5 DEF CreateLink, LinkRefused, HandlerShape
  <2>2. \/ UNCHANGED gateway
        \/ \E l \in Links : /\ gateway[worker[w].order][l] = "none"
                            /\ gateway' = [gateway EXCEPT ![worker[w].order][l] = "open"]
    BY <1>5 DEF CreateLink, LinkRefused, Unmade
  <2>3. UNCHANGED <<stored, shipments>>
    BY <1>5 DEF CreateLink, LinkRefused
  <2>4. QED
    BY <1>1, <1>2, <2>1, <2>2, <2>3 DEF LinkStates
<1>6. ASSUME NEW o \in Orders, NEW l \in Links, Pay(o, l) \/ Expire(o, l)
      PROVE  Forward
  BY <1>2, <1>6 DEF Pay, Expire, LinkStates
<1>7. ASSUME NEW w \in Workers, NEW o \in Orders, PlaceOrder(w, o) \/ ClickFulfil(w, o)
      PROVE  UNCHANGED <<gateway, stored, shipments>>
  BY <1>7 DEF PlaceOrder, ClickFulfil
<1>8. ASSUME NEW w \in Workers,
             (\E e \in Events : Deliver(w, e)) \/ DoMarkPaid(w) \/ DoMarkFailed(w)
               \/ Send(w) \/ Crash(w)
      PROVE  UNCHANGED <<gateway, stored, shipments>>
  BY <1>8 DEF Deliver, DoMarkPaid, DoMarkFailed, Send, Crash
<1>9. ASSUME NEW o \in Orders, NEW l \in Links, AttemptFails(o, l)
      PROVE  UNCHANGED <<gateway, stored, shipments>>
  BY <1>9 DEF AttemptFails
<1>10. CASE UNCHANGED vars
  BY <1>1, <1>10 DEF vars
<1>11. QED
  BY <1>1, <1>3, <1>4, <1>5, <1>6, <1>7, <1>8, <1>9, <1>10 DEF Next, Step

(* A link is written to a row only by the handler that made it.            *)
LEMMA NextStoredWereMade ==
  ASSUME TypeInv, HandlersTrue, StoredWereMade, [Next]_vars
  PROVE  StoredWereMade'
<1>0. /\ Forward
      /\ stored \in [Orders -> SUBSET Links]
      /\ \A w \in Workers : HandlerShape(worker[w])
  BY NextForward DEF TypeInv, TypeOK, HandlerShapes
<1>1. ASSUME NEW w \in Workers, DoStoreLink(w)
      PROVE  StoredWereMade'
  <2>1. gateway[worker[w].order][worker[w].link] # "none"
    BY <1>1 DEF DoStoreLink, HandlersTrue, HandlerTrue
  <2>2. stored' = [stored EXCEPT ![worker[w].order] = @ \cup {worker[w].link}]
        /\ UNCHANGED gateway
    BY <1>1 DEF DoStoreLink
  <2>3. QED
    BY <1>0, <2>1, <2>2 DEF StoredWereMade
<1>2. CASE UNCHANGED stored
  BY <1>0, <1>2 DEF Forward, StoredWereMade
<1>3. QED
  BY <1>1, <1>2 DEF Next, Step, vars, PlaceOrder, ClickFulfil, Deliver, DoMarkPaid,
     DoMarkFailed, DoMarkFulfilled, CreateLink, LinkRefused, Send, Crash,
     AttemptFails, Pay, Expire

(* Razorpay emits an event only together with what it reports.             *)
LEMMA NextEventsTrue ==
  ASSUME TypeInv, EventsTrue, [Next]_vars
  PROVE  EventsTrue'
<1>0. Forward /\ events \in SUBSET Events /\ gateway \in [Orders -> [Links -> LinkStates]]
  BY NextForward DEF TypeInv, TypeOK
<1>1. CASE events' \subseteq events
  BY <1>0, <1>1 DEF Forward, EventsTrue, Events
<1>2. ASSUME NEW o \in Orders, NEW l \in Links, AttemptFails(o, l) \/ Pay(o, l) \/ Expire(o, l)
      PROVE  EventsTrue'
  <2>1. PICK kind \in {"paid", "expired", "failed"} :
          /\ Emit(kind, o, l)
          /\ kind = "paid" => gateway'[o][l] = "paid"
          /\ kind = "expired" => gateway'[o][l] = "expired"
          /\ kind = "failed" => l \in stored'[o]
    <3>1. CASE AttemptFails(o, l)
      BY <3>1 DEF AttemptFails
    <3>2. CASE Pay(o, l)
      BY <1>0, <3>2 DEF Pay
    <3>3. CASE Expire(o, l)
      BY <1>0, <3>3 DEF Expire
    <3>4. QED
      BY <1>2, <3>1, <3>2, <3>3
  <2>2. events' = events \cup {[kind |-> kind, order |-> o, link |-> l]}
    BY <2>1 DEF Emit
  <2>3. QED
    BY <1>0, <2>1, <2>2 DEF Forward, EventsTrue, Events
<1>3. ASSUME NEW w \in Workers, DoMarkPaid(w) \/ Send(w)
      PROVE  events' \subseteq events
  BY <1>3, AnswerEvents DEF DoMarkPaid, Send
<1>4. QED
  BY <1>1, <1>2, <1>3 DEF Next, Step, vars, PlaceOrder, ClickFulfil, Deliver,
     DoMarkFailed, DoMarkFulfilled, CreateLink, LinkRefused, DoStoreLink, Crash

(* What HandlerTrue says of a handler stays true while it waits.           *)
LEMMA HandlerTrueStays ==
  ASSUME TypeInv, Forward, NEW h \in Handlers, HandlerShape(h), HandlerTrue(h)
  PROVE  HandlerTrue(h)'
<1>1. CASE h.pc \in {"mark", "store"}
  <2>1. h.order \in Orders
    BY <1>1 DEF HandlerShape
  <2>2. h.kind = "paid" \/ h.pc = "store" => h.link \in Links
    BY DEF HandlerShape
  <2>3. stored[h.order] \subseteq stored'[h.order]
    BY <2>1 DEF Forward
  <2>4. QED
    BY <2>1, <2>2, <2>3 DEF Forward, HandlerTrue
<1>2. CASE h.pc \notin {"mark", "store"}
  BY <1>2 DEF HandlerTrue
<1>3. QED
  BY <1>1, <1>2

(* A handler that starts takes over what its event reports, and nothing    *)
(* undoes it.                                                              *)
LEMMA NextHandlersTrue ==
  ASSUME TypeInv, EventsTrue, HandlersTrue, [Next]_vars
  PROVE  HandlersTrue'
<1>0. /\ Forward
      /\ worker \in [Workers -> Handlers]
      /\ gateway \in [Orders -> [Links -> LinkStates]]
      /\ \A w \in Workers : /\ worker[w] \in Handlers
                            /\ HandlerShape(worker[w])
                            /\ HandlerTrue(worker[w])
  BY NextForward DEF TypeInv, TypeOK, HandlerShapes, HandlersTrue
<1>1. ASSUME NEW w \in Workers, NEW h, worker' = [worker EXCEPT ![w] = h], HandlerTrue(h)'
      PROVE  HandlersTrue'
  BY <1>0, <1>1, HandlerTrueStays DEF HandlersTrue
<1>2. ASSUME NEW w \in Workers, NEW h, worker' = [worker EXCEPT ![w] = h],
             h.pc \notin {"mark", "store"}
      PROVE  HandlersTrue'
  BY <1>1, <1>2 DEF HandlerTrue
<1>3. CASE UNCHANGED worker
  BY <1>0, <1>3, HandlerTrueStays DEF HandlersTrue
<1>4. ASSUME NEW w \in Workers, Finish(w)
      PROVE  HandlersTrue'
  BY <1>2, <1>4 DEF Finish, IdleHandler
<1>5. ASSUME NEW w \in Workers, NEW pc \in {"create", "send"}, Goto(w, pc)
      PROVE  HandlersTrue'
  <2> DEFINE h == [worker[w] EXCEPT !.pc = pc]
  <2>1. worker' = [worker EXCEPT ![w] = h] /\ h.pc = pc
    BY <1>0, <1>5 DEF Goto, Handlers
  <2> HIDE DEF h
  <2>2. QED
    BY <1>2, <2>1
<1>6. ASSUME NEW w \in Workers, NEW o \in Orders, PlaceOrder(w, o) \/ ClickFulfil(w, o)
      PROVE  HandlersTrue'
  <2>1. CASE PlaceOrder(w, o)
    BY <1>2, <2>1 DEF PlaceOrder
  <2>2. CASE ClickFulfil(w, o)
    <3> DEFINE h == [kind |-> "fulfil", pc |-> "mark", order |-> o, link |-> NoLink]
    <3>1. HandlerTrue(h)'
      BY DEF HandlerTrue
    <3>2. QED
      BY <1>1, <2>2, <3>1 DEF ClickFulfil
  <2>3. QED
    BY <1>6, <2>1, <2>2
<1>7. ASSUME NEW w \in Workers, NEW e \in Events, Deliver(w, e)
      PROVE  HandlersTrue'
  <2> PICK h : h = HandlerOf(e)
    OBVIOUS
  <2>1. /\ h.kind = e.kind /\ h.order = e.order /\ h.pc = "mark"
        /\ e.kind = "paid" => h.link = e.link
        /\ e.link \in Links
    BY DEF HandlerOf, Events
  <2>2. UNCHANGED <<gateway, stored>> /\ worker' = [worker EXCEPT ![w] = h]
    BY <1>7 DEF Deliver
  <2>3. HandlerTrue(h)'
    BY <1>7, <2>1, <2>2 DEF HandlerTrue, EventsTrue, Deliver
  <2>4. QED
    BY <1>1, <2>2, <2>3
<1>8. ASSUME NEW w \in Workers, CreateLink(w)
      PROVE  HandlersTrue'
  <2> PICK o : o = worker[w].order
    OBVIOUS
  <2>1. PICK l \in Links : /\ gateway' = [gateway EXCEPT ![o][l] = "open"]
                           /\ worker' = [worker EXCEPT ![w].pc = "store", ![w].link = l]
    BY <1>8 DEF CreateLink, Unmade
  <2>2. o \in Orders
    BY <1>0, <1>8 DEF CreateLink, HandlerShape
  <2> PICK h : h = [worker[w] EXCEPT !.pc = "store", !.link = l]
    OBVIOUS
  <2>3. worker' = [worker EXCEPT ![w] = h]
    BY <2>1
  <2>4. h.pc = "store" /\ h.order = o /\ h.link = l
    BY <1>0 DEF Handlers
  <2>5. gateway'[o][l] = "open"
    BY <1>0, <2>1, <2>2
  <2>6. HandlerTrue(h)'
    BY <2>4, <2>5 DEF HandlerTrue
  <2>7. QED
    BY <1>1, <2>3, <2>6
<1>9. ASSUME NEW w \in Workers, Step(w) \/ Crash(w)
      PROVE  HandlersTrue'
  <2>1. DoMarkPaid(w) => Goto(w, "send") \/ Finish(w)
    BY DEF DoMarkPaid
  <2>2. DoMarkFailed(w) => Goto(w, "send") \/ Goto(w, "create") \/ Finish(w)
    BY DEF DoMarkFailed
  <2>3. DoMarkFulfilled(w) => Goto(w, "send") \/ Finish(w)
    BY DEF DoMarkFulfilled
  <2>4. LinkRefused(w) \/ DoStoreLink(w) => Goto(w, "send")
    BY DEF LinkRefused, DoStoreLink
  <2>5. Send(w) \/ Crash(w) => Finish(w)
    BY DEF Send, Crash
  <2>6. QED
    BY <1>4, <1>5, <1>8, <1>9, <2>1, <2>2, <2>3, <2>4, <2>5 DEF Step
<1>10. ASSUME NEW o \in Orders, NEW l \in Links, AttemptFails(o, l) \/ Pay(o, l) \/ Expire(o, l)
       PROVE  UNCHANGED worker
  BY <1>10 DEF AttemptFails, Pay, Expire
<1>11. CASE UNCHANGED vars
  BY <1>3, <1>11 DEF vars
<1>12. QED
  BY <1>3, <1>6, <1>7, <1>9, <1>10, <1>11 DEF Next

(* How a step may change the status of an order.                           *)
LEMMA StatusSteps ==
  ASSUME TypeInv, [Next]_vars, NEW o \in Orders
  PROVE  \/ rows'[o].status = rows[o].status
         \/ ~Exists(rows[o]) /\ rows'[o] = InsertedRow
         \/ /\ CanMarkPaid(rows[o]) /\ rows'[o].status = "paid"
            /\ \E w \in Workers : worker[w].order = o /\ DoMarkPaid(w)
         \/ CanMarkFailed(rows[o]) /\ rows'[o].status = "failed"
         \/ /\ CanMarkFulfilled(rows[o]) /\ rows'[o].status = "fulfilled"
            /\ Shipped(o)'
<1> DEFINE Goal == \/ rows'[o].status = rows[o].status
                   \/ ~Exists(rows[o]) /\ rows'[o] = InsertedRow
                   \/ /\ CanMarkPaid(rows[o]) /\ rows'[o].status = "paid"
                      /\ \E w \in Workers : worker[w].order = o /\ DoMarkPaid(w)
                   \/ CanMarkFailed(rows[o]) /\ rows'[o].status = "failed"
                   \/ /\ CanMarkFulfilled(rows[o]) /\ rows'[o].status = "fulfilled"
                      /\ Shipped(o)'
<1>0. /\ rows \in [Orders -> Rows]
      /\ rows[o] \in Rows
      /\ shipments \in [Orders -> Nat]
      /\ \A w \in Workers : worker[w] \in Handlers /\ HandlerShape(worker[w])
  BY DEF TypeInv, TypeOK, HandlerShapes
<1>1. CASE UNCHANGED rows
  BY <1>1
<1>2. ASSUME NEW w \in Workers, NEW p \in Orders, PlaceOrder(w, p)
      PROVE  Goal
  BY <1>0, <1>2 DEF PlaceOrder, Exists, NoRow
<1>3. ASSUME NEW w \in Workers, DoMarkPaid(w)
      PROVE  Goal
  BY <1>0, <1>3 DEF DoMarkPaid, MarkPaid, Rows
<1>4. ASSUME NEW w \in Workers, DoMarkFailed(w)
      PROVE  Goal
  BY <1>0, <1>4 DEF DoMarkFailed, MarkFailed, Rows
<1>5. ASSUME NEW w \in Workers, DoMarkFulfilled(w)
      PROVE  Goal
  BY <1>0, <1>5 DEF DoMarkFulfilled, MarkFulfilled, Rows, Shipped
<1>6. ASSUME NEW w \in Workers, DoStoreLink(w)
      PROVE  Goal
  BY <1>0, <1>6 DEF DoStoreLink, StoreLink, Rows
<1>7. QED
  BY <1>1, <1>2, <1>3, <1>4, <1>5, <1>6 DEF Next, Step, vars, ClickFulfil, Deliver,
     CreateLink, LinkRefused, Send, Crash, AttemptFails, Pay, Expire

(* Only DoMarkPaid enters "paid", and its handler holds a captured link.   *)
LEMMA NextPaidMeansCaptured ==
  ASSUME TypeInv, HandlersTrue, PaidMeansCaptured, [Next]_vars
  PROVE  PaidMeansCaptured'
<1> SUFFICES ASSUME NEW o \in Orders, rows'[o].status \in {"paid", "fulfilled"}
             PROVE  Captured(o)' # {}
  BY DEF PaidMeansCaptured
<1>1. CASE rows[o].status \in {"paid", "fulfilled"}
  BY <1>1, NextForward DEF PaidMeansCaptured, Captured, Forward
<1>2. ASSUME NEW w \in Workers, worker[w].order = o, DoMarkPaid(w)
      PROVE  Captured(o)' # {}
  <2>1. worker[w].link \in Links /\ gateway[o][worker[w].link] = "paid"
    BY <1>2 DEF DoMarkPaid, HandlersTrue, HandlerTrue, TypeInv, HandlerShapes, HandlerShape
  <2>2. QED
    BY <2>1, NextForward DEF Captured, Forward
<1>3. QED
  BY <1>1, <1>2, StatusSteps DEF CanMarkFulfilled, InsertedRow, NoRow
-----------------------------------------------------------------------------
(* Orders before their first shipment, step by step.                       *)

(* A step that leaves o's row and links alone, and puts no handler on o to *)
(* make a link, keeps OrderInv(o).                                         *)
LEMMA OrderUntouched ==
  ASSUME NEW o \in Orders, OrderInv(o),
         rows'[o] = rows[o], gateway'[o] = gateway[o], stored'[o] = stored[o],
         \A w \in Workers : worker'[w].order = o =>
           \/ worker'[w] = worker[w]
           \/ Exists(rows[o]) /\ worker'[w].pc \notin {"create", "store"}
  PROVE  OrderInv(o)'
<1>1. AbsentInv(o)'
  BY DEF OrderInv, AbsentInv
<1>2. (rows[o].status = "pending_payment" => OneLinkMade(o))'
  BY DEF OrderInv, OneLinkMade
<1>3. OneLinkLive(o)' /\ ReceiptInv(o)'
  BY DEF OrderInv, OneLinkLive, ReceiptInv, Payable, Captured
<1>4. \A w \in Workers : Makes(w, o)' => Makes(w, o) /\ worker'[w] = worker[w]
  BY DEF Makes
<1>5. MakersInv(o)'
  BY <1>4 DEF OrderInv, MakersInv, MakerInv, Payable, Captured
<1>6. QED
  BY <1>1, <1>2, <1>3, <1>5 DEF OrderInv

(* Likewise for a step that changes them while no handler makes a link.    *)
LEMMA OrderWithoutMaker ==
  ASSUME NEW o \in Orders,
         \A w \in Workers : ~Makes(w, o)',
         Exists(rows[o])', (rows[o].status # "fulfilled")',
         (rows[o].status = "pending_payment" => OneLinkMade(o))',
         OneLinkLive(o)', ReceiptInv(o)'
  PROVE  OrderInv(o)'
BY DEF OrderInv, AbsentInv, MakersInv

(* A handler's step keeps the invariant of every order it does not work    *)
(* on.                                                                     *)
LEMMA OtherOrders ==
  ASSUME TypeInv, NEW w \in Workers, NEW o \in Orders, OrderInv(o), worker[w].order # o,
         \/ UNCHANGED rows \/ \E row : rows' = [rows EXCEPT ![worker[w].order] = row],
         \/ UNCHANGED gateway \/ \E g : gateway' = [gateway EXCEPT ![worker[w].order] = g],
         \/ UNCHANGED stored \/ \E s : stored' = [stored EXCEPT ![worker[w].order] = s],
         \E h : worker' = [worker EXCEPT ![w] = h] /\ h.order \in {worker[w].order, NoOrder}
  PROVE  OrderInv(o)'
<1>1. rows'[o] = rows[o] /\ gateway'[o] = gateway[o] /\ stored'[o] = stored[o]
  BY DEF TypeInv, TypeOK
<1>2. \A v \in Workers : worker'[v].order = o => worker'[v] = worker[v]
  BY LifecycleAssumption DEF TypeInv, TypeOK
<1>3. QED
  BY <1>1, <1>2, OrderUntouched

(* A new order has no link, and its checkout is the only maker.            *)
LEMMA PlaceOrderInv ==
  ASSUME TypeInv, NEW w \in Workers, NEW o \in Orders, OrderInv(o), PlaceOrder(w, o)
  PROVE  OrderInv(o)'
<1> DEFINE h == [kind |-> "checkout", pc |-> "create", order |-> o, link |-> NoLink]
<1>1. /\ stored[o] = {}
      /\ \A l \in Links : gateway[o][l] = "none"
      /\ \A v \in Workers : worker[v].order # o
  BY DEF PlaceOrder, OrderInv, AbsentInv, Exists, NoRow
<1>2. /\ rows'[o].status = "pending_payment"
      /\ UNCHANGED <<gateway, stored>>
      /\ worker' = [worker EXCEPT ![w] = h]
  BY DEF PlaceOrder, InsertedRow, NoRow, TypeInv, TypeOK
<1>3. worker'[w] = h /\ \A v \in Workers \ {w} : worker'[v] = worker[v]
  BY <1>2 DEF TypeInv, TypeOK
<1>4. OneLinkMade(o)' /\ OneLinkLive(o)' /\ (Payable(o) \cup Captured(o) = {})'
  BY <1>1, <1>2 DEF OneLinkMade, OneLinkLive, Payable, Captured
<1>5. MakersInv(o)'
  <2>1. \A v \in Workers : Makes(v, o)' => v = w
    BY <1>1, <1>3 DEF Makes
  <2>2. MakerInv(w, o)'
    BY <1>1, <1>2, <1>3, <1>4 DEF MakerInv
  <2>3. QED
    BY <2>1, <2>2 DEF MakersInv
<1>6. AbsentInv(o)' /\ ReceiptInv(o)'
  BY <1>2 DEF AbsentInv, ReceiptInv, Exists
<1>7. QED
  BY <1>2, <1>4, <1>5, <1>6 DEF OrderInv

(* The handler of a capture marks the order paid, or finds it paid and     *)
(* stops.                                                                  *)
LEMMA MarkPaidInv ==
  ASSUME TypeInv, HandlersTrue, NEW w \in Workers, NEW o \in Orders, OrderInv(o),
         worker[w].order = o, DoMarkPaid(w)
  PROVE  OrderInv(o)'
<1>0. /\ worker \in [Workers -> Handlers]
      /\ rows \in [Orders -> Rows]
      /\ HandlerShape(worker[w]) /\ HandlerTrue(worker[w])
  BY DEF TypeInv, TypeOK, HandlersTrue, HandlerShapes
<1>1. worker[w].link \in Captured(o)
  BY <1>0 DEF DoMarkPaid, HandlerShape, HandlerTrue, Captured
<1>2. \A v \in Workers : ~Makes(v, o)
  BY <1>1 DEF OrderInv, MakersInv, MakerInv, Makes
<1>3. Goto(w, "send") \/ Finish(w)
  BY DEF DoMarkPaid
<1>4. \A v \in Workers : worker'[v] = worker[v] \/ worker'[v].pc \in {"send", "idle"}
  BY <1>0, <1>3 DEF Goto, Finish, IdleHandler, Handlers
<1>5. \A v \in Workers : ~Makes(v, o)'
  BY <1>2, <1>4 DEF Makes
<1>6. CASE CanMarkPaid(rows[o])
  <2>1. /\ rows'[o] = MarkPaid(rows[o], worker[w].link)
        /\ UNCHANGED <<gateway, stored>>
    BY <1>0, <1>6 DEF DoMarkPaid
  <2>2. /\ rows'[o].status = "paid"
        /\ rows'[o].ref = [kind |-> "pay", link |-> worker[w].link]
    BY <1>0, <2>1 DEF MarkPaid, Rows
  <2>3. OneLinkLive(o)' /\ ReceiptInv(o)'
    BY <1>1, <2>1, <2>2 DEF OrderInv, OneLinkLive, ReceiptInv, Payable, Captured
  <2>4. QED
    BY <1>5, <2>2, <2>3, OrderWithoutMaker DEF Exists
<1>7. CASE ~CanMarkPaid(rows[o])
  <2>1. /\ UNCHANGED <<rows, gateway, stored>>
        /\ worker' = [worker EXCEPT ![w] = IdleHandler]
    BY <1>7 DEF DoMarkPaid, Finish
  <2>2. \A v \in Workers : worker'[v].order = o => worker'[v] = worker[v]
    BY <1>0, <2>1, LifecycleAssumption DEF IdleHandler
  <2>3. QED
    BY <2>1, <2>2, OrderUntouched
<1>8. QED
  BY <1>6, <1>7

(* Marking an order failed makes an expiry handler the only maker of its   *)
(* next link.                                                              *)
LEMMA MarkFailedInv ==
  ASSUME TypeInv, HandlersTrue, NEW w \in Workers, NEW o \in Orders, OrderInv(o),
         worker[w].order = o, DoMarkFailed(w)
  PROVE  OrderInv(o)'
<1>0. /\ worker \in [Workers -> Handlers]
      /\ rows \in [Orders -> Rows]
      /\ rows[o] \in Rows
      /\ gateway \in [Orders -> [Links -> LinkStates]]
      /\ worker[w] \in Handlers /\ HandlerTrue(worker[w])
      /\ \A v \in Workers : HandlerShape(worker[v])
  BY DEF TypeInv, TypeOK, HandlersTrue, HandlerShapes
<1>1. UNCHANGED <<gateway, stored>>
  BY DEF DoMarkFailed
<1>2. CASE ~CanMarkFailed(rows[o])
  <2>1. UNCHANGED rows /\ worker' = [worker EXCEPT ![w] = IdleHandler]
    BY <1>2 DEF DoMarkFailed, Finish
  <2>2. \A v \in Workers : worker'[v].order = o => worker'[v] = worker[v]
    BY <1>0, <2>1, LifecycleAssumption DEF IdleHandler
  <2>3. QED
    BY <1>1, <2>1, <2>2, OrderUntouched
<1>3. CASE CanMarkFailed(rows[o])
  <2>1. rows[o].status = "pending_payment" /\ OneLinkMade(o)
    BY <1>0, <1>3 DEF CanMarkFailed, Exists, Rows, Statuses, OrderInv
  <2>2. rows'[o].status = "failed"
    BY <1>0, <1>3 DEF DoMarkFailed, MarkFailed, Rows
  <2>3. stored[o] # {} \/ \E l \in Links : gateway[o][l] = "expired"
    BY <1>0 DEF DoMarkFailed, HandlerTrue
  <2>4. \A v \in Workers : ~Makes(v, o)
    <3> SUFFICES ASSUME NEW v \in Workers, Makes(v, o)
                 PROVE  FALSE
      OBVIOUS
    <3>1. MakerInv(v, o)
      BY DEF OrderInv, MakersInv
    <3>2. worker[v].kind \in {"checkout", "expired"}
      BY <1>0 DEF Makes, Handlers, HandlerShape, TypeInv, TypeOK
    <3>3. worker[v].kind = "checkout"
      BY <2>1, <3>1, <3>2 DEF MakerInv
    <3>4. QED
      BY <2>3, <3>1, <3>3 DEF MakerInv
  <2>5. AbsentInv(o)' /\ OneLinkLive(o)' /\ ReceiptInv(o)'
    BY <1>1, <2>2 DEF OrderInv, AbsentInv, OneLinkLive, ReceiptInv, Exists, Payable, Captured
  <2>6. MakersInv(o)'
    <3>1. CASE worker[w].kind = "failed"
      <4>1. worker' = [worker EXCEPT ![w].pc = "send"]
        BY <1>3, <3>1 DEF DoMarkFailed, Goto
      <4>2. \A v \in Workers : ~Makes(v, o)'
        BY <1>0, <2>4, <4>1 DEF Makes, Handlers
      <4>3. QED
        BY <4>2 DEF MakersInv
    <3>2. CASE worker[w].kind = "expired"
      <4>1. worker' = [worker EXCEPT ![w].pc = "create"]
        BY <1>3, <3>2 DEF DoMarkFailed, Goto
      <4>2. \A v \in Workers : Makes(v, o)' => v = w
        BY <1>0, <2>4, <4>1 DEF Makes, Handlers
      <4>3. worker'[w].pc = "create" /\ worker'[w].kind = "expired"
        BY <1>0, <3>2, <4>1 DEF Handlers
      <4>4. PICK l \in Links : gateway[o][l] = "expired"
        BY <1>0, <3>2 DEF DoMarkFailed, HandlerTrue
      <4>5. (Payable(o) \cup Captured(o) = {})'
        BY <1>1, <2>1, <4>4 DEF OneLinkMade, Payable, Captured
      <4>6. MakerInv(w, o)'
        BY <2>2, <4>3, <4>5 DEF MakerInv
      <4>7. QED
        BY <4>2, <4>6 DEF MakersInv
    <3>3. QED
      BY <3>1, <3>2 DEF DoMarkFailed
  <2>7. QED
    BY <2>2, <2>5, <2>6 DEF OrderInv
<1>4. QED
  BY <1>2, <1>3

(* The gateway makes link l for o, and no other link of o can take money.  *)
LEMMA LinkMade ==
  ASSUME TypeInv, NEW w \in Workers, NEW o \in Orders, OrderInv(o), Makes(w, o),
         worker[w].pc = "create", NEW l \in Links, gateway[o][l] = "none",
         gateway' = [gateway EXCEPT ![o][l] = "open"], rows' = rows
  PROVE  /\ Exists(rows[o])'
         /\ Payable(o)' = {l} /\ Captured(o)' = {}
         /\ (rows[o].status = "pending_payment" => OneLinkMade(o))'
         /\ worker[w].kind = "checkout" => \A k \in Links : gateway'[o][k] \in {"none", "open"}
         /\ OneLinkLive(o)' /\ ReceiptInv(o)'
<1>0. /\ gateway \in [Orders -> [Links -> LinkStates]]
      /\ worker[w].kind \in {"checkout", "expired"}
  BY DEF Makes, Handlers, HandlerShape, TypeInv, TypeOK, HandlerShapes
<1>1. MakerInv(w, o) /\ Payable(o) \cup Captured(o) = {}
  BY DEF OrderInv, MakersInv, MakerInv
<1>2. /\ gateway'[o][l] = "open"
      /\ \A k \in Links \ {l} : gateway'[o][k] = gateway[o][k]
  BY <1>0
<1>3. Exists(rows[o])'
  BY DEF OrderInv, AbsentInv, Makes
<1>4. Payable(o)' = {l} /\ Captured(o)' = {}
  BY <1>0, <1>1, <1>2 DEF Payable, Captured
<1>5. (rows[o].status = "pending_payment" => OneLinkMade(o))'
  BY <1>0, <1>1, <1>2 DEF MakerInv, OneLinkMade
<1>6. worker[w].kind = "checkout" => \A k \in Links : gateway'[o][k] \in {"none", "open"}
  BY <1>1, <1>2 DEF MakerInv
<1>7. OneLinkLive(o)'
  BY <1>4 DEF OneLinkLive
<1>8. ReceiptInv(o)'
  BY <1>1 DEF ReceiptInv, OrderInv
<1>9. QED
  BY <1>3, <1>4, <1>5, <1>6, <1>7, <1>8

(* The only maker of an order gets a link while no other can take money.   *)
LEMMA CreateLinkInv ==
  ASSUME TypeInv, StoredWereMade, NEW w \in Workers, NEW o \in Orders, OrderInv(o),
         worker[w].order = o, CreateLink(w)
  PROVE  OrderInv(o)'
<1>0. /\ worker \in [Workers -> Handlers]
      /\ worker[w] \in Handlers
      /\ worker[w].kind \in {"checkout", "expired"}
      /\ worker[w].pc = "create" /\ Makes(w, o)
  BY DEF Makes, Handlers, HandlerShape, TypeInv, TypeOK, HandlerShapes, CreateLink
<1>1. PICK l \in Links : /\ gateway[o][l] = "none"
                         /\ gateway' = [gateway EXCEPT ![o][l] = "open"]
                         /\ worker' = [worker EXCEPT ![w].pc = "store", ![w].link = l]
  <2>1. PICK l \in Unmade(o) : /\ gateway' = [gateway EXCEPT ![o][l] = "open"]
                               /\ worker' = [worker EXCEPT ![w].pc = "store", ![w].link = l]
    BY DEF CreateLink
  <2>2. QED
    BY <2>1 DEF Unmade
<1>2. rows' = rows /\ stored' = stored
  BY DEF CreateLink
<1>3. /\ Exists(rows[o])'
      /\ Payable(o)' = {l} /\ Captured(o)' = {}
      /\ (rows[o].status = "pending_payment" => OneLinkMade(o))'
      /\ worker[w].kind = "checkout" => \A k \in Links : gateway'[o][k] \in {"none", "open"}
      /\ OneLinkLive(o)' /\ ReceiptInv(o)'
  <2>1. Makes(w, o) /\ worker[w].pc = "create"
    BY <1>0
  <2>2. gateway[o][l] = "none" /\ gateway' = [gateway EXCEPT ![o][l] = "open"]
    BY <1>1
  <2>3. QED
    BY <1>2, <2>1, <2>2, LinkMade, ZenonT(60)
<1>4. MakerInv(w, o)
  BY <1>0 DEF OrderInv, MakersInv
<1>5. l \notin stored[o]
  BY <1>1 DEF StoredWereMade
<1>6. /\ worker'[w].pc = "store" /\ worker'[w].link = l
      /\ worker'[w].kind = worker[w].kind
      /\ \A v \in Workers : worker'[v].order = worker[v].order
      /\ \A v \in Workers \ {w} : worker'[v] = worker[v]
  BY <1>0, <1>1 DEF Handlers
<1>7. MakerInv(w, o)'
  BY <1>2, <1>3, <1>4, <1>5, <1>6 DEF MakerInv
<1>8. \A v \in Workers : Makes(v, o)' => v = w
  BY <1>0, <1>6 DEF OrderInv, MakersInv, Makes
<1>9. MakersInv(o)'
  BY <1>7, <1>8 DEF MakersInv
<1>10. AbsentInv(o)' /\ (rows[o].status # "fulfilled")'
  BY <1>2, <1>3 DEF AbsentInv, OrderInv
<1>11. QED
  BY <1>3, <1>9, <1>10 DEF OrderInv

(* Once the only maker of o has gone on to its message, nobody makes one.  *)
LEMMA MakerGone ==
  ASSUME TypeInv, NEW w \in Workers, NEW o \in Orders, OrderInv(o), Makes(w, o),
         Goto(w, "send")
  PROVE  \A v \in Workers : ~Makes(v, o)'
<1>1. worker \in [Workers -> Handlers] /\ worker[w] \in Handlers
  BY DEF TypeInv, TypeOK
<1>2. worker'[w].pc = "send" /\ \A v \in Workers \ {w} : worker'[v] = worker[v]
  BY <1>1 DEF Goto, Handlers
<1>3. QED
  BY <1>2 DEF OrderInv, MakersInv, Makes

(* A maker whose call failed goes on without a link; one made all the      *)
(* same is the only one.                                                   *)
LEMMA LinkRefusedInv ==
  ASSUME TypeInv, NEW w \in Workers, NEW o \in Orders, OrderInv(o),
         worker[w].order = o, LinkRefused(w)
  PROVE  OrderInv(o)'
<1>0. worker[w].pc = "create" /\ Makes(w, o) /\ rows' = rows
  BY DEF Makes, LinkRefused
<1>1. \A v \in Workers : ~Makes(v, o)'
  BY <1>0, MakerGone DEF LinkRefused
<1>2. (rows[o].status # "fulfilled")' /\ Exists(rows[o])'
  BY <1>0 DEF OrderInv, AbsentInv
<1>3. CASE UNCHANGED gateway
  <2>1. /\ (rows[o].status = "pending_payment" => OneLinkMade(o))'
        /\ OneLinkLive(o)' /\ ReceiptInv(o)'
    BY <1>0, <1>3 DEF OrderInv, OneLinkMade, OneLinkLive, ReceiptInv, Payable, Captured
  <2>2. QED
    BY <1>1, <1>2, <2>1, OrderWithoutMaker
<1>4. ASSUME NEW l \in Links, gateway[o][l] = "none",
             gateway' = [gateway EXCEPT ![o][l] = "open"]
      PROVE  OrderInv(o)'
  <2>1. /\ (rows[o].status = "pending_payment" => OneLinkMade(o))'
        /\ OneLinkLive(o)' /\ ReceiptInv(o)'
    BY <1>0, <1>4, LinkMade, ZenonT(60)
  <2>2. QED
    BY <1>1, <1>2, <2>1, OrderWithoutMaker
<1>5. QED
  BY <1>3, <1>4 DEF LinkRefused, Unmade

(* The maker writes the one live link of an order that cannot have been    *)
(* paid.                                                                   *)
LEMMA StoreLinkInv ==
  ASSUME TypeInv, PaidMeansCaptured, NEW w \in Workers, NEW o \in Orders, OrderInv(o),
         worker[w].order = o, DoStoreLink(w)
  PROVE  OrderInv(o)'
<1>0. /\ worker[w].pc = "store" /\ Makes(w, o)
      /\ rows \in [Orders -> Rows] /\ rows[o] \in Rows
  BY DEF Makes, DoStoreLink, TypeInv, TypeOK
<1>1. \A v \in Workers : ~Makes(v, o)'
  BY <1>0, MakerGone DEF DoStoreLink
<1>2. rows'[o] = StoreLink(rows[o], worker[w].link) /\ UNCHANGED gateway
  BY <1>0 DEF DoStoreLink
<1>3. rows'[o].status = rows[o].status
  BY <1>0, <1>2 DEF StoreLink, Rows
<1>4. rows[o].status # "paid"
  BY <1>0 DEF OrderInv, MakersInv, MakerInv, PaidMeansCaptured
<1>5. Exists(rows[o])' /\ (rows[o].status # "fulfilled")'
  BY <1>0, <1>3 DEF OrderInv, AbsentInv, Makes, Exists
<1>6. (rows[o].status = "pending_payment" => OneLinkMade(o))' /\ OneLinkLive(o)'
  BY <1>2, <1>3 DEF OrderInv, OneLinkMade, OneLinkLive, Payable, Captured
<1>7. ReceiptInv(o)'
  BY <1>3, <1>4 DEF ReceiptInv
<1>8. QED
  BY <1>1, <1>5, <1>6, <1>7, OrderWithoutMaker

(* The customer pays, or a link expires: never while a handler makes one.  *)
LEMMA GatewayInv ==
  ASSUME TypeInv, NEW o \in Orders, NEW l \in Links, OrderInv(o),
         Pay(o, l) \/ Expire(o, l)
  PROVE  OrderInv(o)'
<1>0. /\ gateway \in [Orders -> [Links -> LinkStates]]
      /\ l \in Payable(o) /\ UNCHANGED <<rows, worker>>
  BY DEF TypeInv, TypeOK, Pay, Expire, Payable
<1>1. \A w \in Workers : ~Makes(w, o)
  <2> SUFFICES ASSUME NEW w \in Workers, Makes(w, o)
               PROVE  FALSE
    OBVIOUS
  <2>1. MakerInv(w, o)
    BY DEF OrderInv, MakersInv
  <2>2. worker[w].pc = "store" /\ worker[w].link = l /\ l \notin stored[o]
    BY <1>0, <2>1 DEF Makes, MakerInv
  <2>3. QED
    BY <2>2 DEF Pay, Expire, BeingStored, Makes
<1>2. \A w \in Workers : ~Makes(w, o)'
  BY <1>0, <1>1 DEF Makes
<1>3. /\ gateway'[o][l] \in {"paid", "expired"}
      /\ \A k \in Links \ {l} : gateway'[o][k] = gateway[o][k]
  BY <1>0 DEF Pay, Expire
<1>4. Exists(rows[o])' /\ (rows[o].status # "fulfilled")'
  BY <1>0 DEF OrderInv, AbsentInv, Payable
<1>5. (rows[o].status = "pending_payment" => OneLinkMade(o))'
  BY <1>0, <1>3 DEF OrderInv, OneLinkMade, Payable
<1>6. OneLinkLive(o)'
  BY <1>0, <1>3 DEF OrderInv, OneLinkLive, Payable, Captured
<1>7. ReceiptInv(o)'
  BY <1>0, <1>3 DEF OrderInv, ReceiptInv, Payable, Captured
<1>8. QED
  BY <1>2, <1>4, <1>5, <1>6, <1>7, OrderWithoutMaker

(* One step per action: an order not yet shipped keeps its invariant.      *)
LEMMA NextUnshippedInv ==
  ASSUME IInv, [Next]_vars
  PROVE  UnshippedInv'
<1> USE DEF IInv
<1> SUFFICES ASSUME NEW o \in Orders, ~Shipped(o)'
             PROVE  OrderInv(o)'
  BY DEF UnshippedInv
<1>0. OrderInv(o)
  BY NextForward DEF Forward, UnshippedInv
<1>1. /\ worker \in [Workers -> Handlers]
      /\ rows \in [Orders -> Rows]
      /\ gateway \in [Orders -> [Links -> LinkStates]]
      /\ \A w \in Workers : HandlerShape(worker[w])
  BY DEF TypeInv, TypeOK, HandlerShapes
<1>2. ASSUME NEW w \in Workers, NEW p \in Orders, PlaceOrder(w, p)
      PROVE  OrderInv(o)'
  <2>1. CASE p = o
    BY <1>0, <1>2, <2>1, PlaceOrderInv
  <2>2. CASE p # o
    <3>1. rows'[o] = rows[o] /\ gateway' = gateway /\ stored' = stored
      BY <1>1, <1>2, <2>2 DEF PlaceOrder
    <3>2. \A v \in Workers : worker'[v].order = o => worker'[v] = worker[v]
      BY <1>1, <1>2, <2>2 DEF PlaceOrder
    <3>3. QED
      BY <1>0, <3>1, <3>2, OrderUntouched
  <2>3. QED
    BY <2>1, <2>2
<1>3. ASSUME NEW w \in Workers, NEW p \in Orders, ClickFulfil(w, p)
      PROVE  OrderInv(o)'
  <2>1. rows' = rows /\ gateway' = gateway /\ stored' = stored
    BY <1>3 DEF ClickFulfil
  <2>2. \A v \in Workers : worker'[v].order = o =>
          \/ worker'[v] = worker[v]
          \/ Exists(rows[o]) /\ worker'[v].pc \notin {"create", "store"}
    BY <1>1, <1>3 DEF ClickFulfil
  <2>3. QED
    BY <1>0, <2>1, <2>2, OrderUntouched
<1>4. ASSUME NEW w \in Workers, NEW e \in Events, Deliver(w, e)
      PROVE  OrderInv(o)'
  <2>1. rows' = rows /\ gateway' = gateway /\ stored' = stored
    BY <1>4 DEF Deliver
  <2>2. HandlerOf(e).pc = "mark" /\ HandlerOf(e).order = e.order
    BY DEF HandlerOf
  <2>3. worker' = [worker EXCEPT ![w] = HandlerOf(e)] /\ Exists(rows[e.order])
    BY <1>4 DEF Deliver
  <2>4. \A v \in Workers : worker'[v].order = o =>
          \/ worker'[v] = worker[v]
          \/ Exists(rows[o]) /\ worker'[v].pc \notin {"create", "store"}
    BY <1>1, <2>2, <2>3
  <2>5. QED
    BY <1>0, <2>1, <2>4, OrderUntouched
<1>5. ASSUME NEW w \in Workers, Step(w), worker[w].order = o
      PROVE  OrderInv(o)'
  <2>1. CASE DoMarkFulfilled(w)
    <3>1. CASE CanMarkFulfilled(rows[o])
      <4>1. shipments' = [shipments EXCEPT ![o] = @ + 1]
        BY <1>5, <2>1, <3>1 DEF DoMarkFulfilled
      <4>2. Shipped(o)'
        BY <4>1 DEF Shipped, TypeInv, TypeOK
      <4>3. QED
        BY <4>2
    <3>2. CASE ~CanMarkFulfilled(rows[o])
      <4>1. /\ rows' = rows /\ gateway' = gateway /\ stored' = stored
            /\ worker' = [worker EXCEPT ![w] = IdleHandler]
        BY <1>5, <2>1, <3>2 DEF DoMarkFulfilled, Finish
      <4>2. \A v \in Workers : worker'[v].order = o => worker'[v] = worker[v]
        BY <1>1, <4>1, LifecycleAssumption DEF IdleHandler
      <4>3. QED
        BY <1>0, <4>1, <4>2, OrderUntouched
    <3>3. QED
      BY <3>1, <3>2
  <2>2. CASE Send(w)
    <3>1. /\ rows' = rows /\ gateway' = gateway /\ stored' = stored
          /\ worker' = [worker EXCEPT ![w] = IdleHandler]
      BY <2>2 DEF Send, Finish
    <3>2. \A v \in Workers : worker'[v].order = o => worker'[v] = worker[v]
      BY <1>1, <3>1, LifecycleAssumption DEF IdleHandler
    <3>3. QED
      BY <1>0, <3>1, <3>2, OrderUntouched
  <2>3. QED
    BY <1>0, <1>5, <2>1, <2>2, MarkPaidInv, MarkFailedInv, CreateLinkInv, LinkRefusedInv,
       StoreLinkInv DEF Step
<1>6. ASSUME NEW w \in Workers, Step(w), worker[w].order # o
      PROVE  OrderInv(o)'
  <2>1. \/ UNCHANGED rows \/ \E row : rows' = [rows EXCEPT ![worker[w].order] = row]
    BY <1>6 DEF Step, DoMarkPaid, DoMarkFailed, DoMarkFulfilled, CreateLink, LinkRefused,
       DoStoreLink, Send
  <2>2. \/ UNCHANGED gateway
        \/ \E g : gateway' = [gateway EXCEPT ![worker[w].order] = g]
    BY <1>6 DEF Step, DoMarkPaid, DoMarkFailed, DoMarkFulfilled, CreateLink, LinkRefused,
       DoStoreLink, Send
  <2>3. \/ UNCHANGED stored \/ \E s : stored' = [stored EXCEPT ![worker[w].order] = s]
    BY <1>6 DEF Step, DoMarkPaid, DoMarkFailed, DoMarkFulfilled, CreateLink, LinkRefused,
       DoStoreLink, Send
  <2>4. \E h : worker' = [worker EXCEPT ![w] = h] /\ h.order \in {worker[w].order, NoOrder}
    <3>1. Finish(w) \/ (\E pc : Goto(w, pc)) \/ CreateLink(w)
      BY <1>6 DEF Step, DoMarkPaid, DoMarkFailed, DoMarkFulfilled, LinkRefused, DoStoreLink, Send
    <3>2. CASE Finish(w)
      <4> WITNESS IdleHandler
      <4> QED
        BY <3>2 DEF Finish, IdleHandler
    <3>3. ASSUME NEW pc, Goto(w, pc)
          PROVE  \E h : worker' = [worker EXCEPT ![w] = h] /\ h.order \in {worker[w].order, NoOrder}
      <4>1. worker' = [worker EXCEPT ![w].pc = pc]
        BY <3>3 DEF Goto
      <4> WITNESS [worker[w] EXCEPT !.pc = pc]
      <4> QED
        BY <1>1, <4>1 DEF Handlers
    <3>4. CASE CreateLink(w)
      <4>1. PICK l : worker' = [worker EXCEPT ![w].pc = "store", ![w].link = l]
        BY <3>4 DEF CreateLink
      <4> WITNESS [worker[w] EXCEPT !.pc = "store", !.link = l]
      <4> QED
        BY <1>1, <4>1 DEF Handlers
    <3>5. QED
      BY <3>1, <3>2, <3>3, <3>4
  <2>5. QED
    BY <1>0, <1>6, <2>1, <2>2, <2>3, <2>4, OtherOrders
<1>7. ASSUME NEW w \in Workers, Crash(w)
      PROVE  OrderInv(o)'
  <2>1. /\ rows' = rows /\ gateway' = gateway /\ stored' = stored
        /\ worker' = [worker EXCEPT ![w] = IdleHandler]
    BY <1>7 DEF Crash, Finish
  <2>2. \A v \in Workers : worker'[v].order = o => worker'[v] = worker[v]
    BY <1>1, <2>1, LifecycleAssumption DEF IdleHandler
  <2>3. QED
    BY <1>0, <2>1, <2>2, OrderUntouched
<1>8. ASSUME NEW p \in Orders, NEW l \in Links, Pay(p, l) \/ Expire(p, l)
      PROVE  OrderInv(o)'
  <2>1. CASE p = o
    BY <1>0, <1>8, <2>1, GatewayInv
  <2>2. CASE p # o
    <3>1. rows' = rows /\ gateway'[o] = gateway[o] /\ stored' = stored /\ worker' = worker
      BY <1>1, <1>8, <2>2 DEF Pay, Expire
    <3>2. QED
      BY <1>0, <3>1, OrderUntouched
  <2>3. QED
    BY <2>1, <2>2
<1>9. CASE UNCHANGED <<rows, gateway, stored, worker>>
  BY <1>0, <1>9, OrderUntouched
<1>10. QED
  BY <1>2, <1>3, <1>4, <1>5, <1>6, <1>7, <1>8, <1>9 DEF Next, vars, AttemptFails

(* With no orders, links, events or handlers every part holds.             *)
LEMMA InitIInv == Init => IInv
<1> SUFFICES ASSUME Init
             PROVE  IInv
  OBVIOUS
<1>1. TypeInv
  BY InitTypeInv
<1>2. EventsTrue /\ StoredWereMade /\ PaidMeansCaptured
  BY DEF Init, EventsTrue, StoredWereMade, PaidMeansCaptured, NoRow
<1>3. HandlersTrue
  BY DEF Init, HandlersTrue, HandlerTrue, IdleHandler
<1>4. ASSUME NEW o \in Orders
      PROVE  OrderInv(o)
  <2>1. /\ rows[o].status = "absent" /\ stored[o] = {}
        /\ \A l \in Links : gateway[o][l] = "none"
        /\ \A w \in Workers : worker[w] = IdleHandler
    BY DEF Init, NoRow
  <2>2. \A w \in Workers : worker[w].order # o /\ ~Makes(w, o)
    BY <2>1, LifecycleAssumption DEF IdleHandler, Makes
  <2>3. QED
    BY <2>1, <2>2 DEF OrderInv, AbsentInv, OneLinkLive, ReceiptInv, MakersInv, Payable, Captured
<1>5. QED
  BY <1>1, <1>2, <1>3, <1>4 DEF IInv, UnshippedInv

(* The parts carry one another over every step.                            *)
LEMMA NextIInv == IInv /\ [Next]_vars => IInv'
BY NextTypeInv, NextEventsTrue, NextHandlersTrue, NextStoredWereMade,
   NextPaidMeansCaptured, NextUnshippedInv DEF IInv

(* The inductive invariant holds throughout.                               *)
LEMMA Invariance == Spec => []IInv
BY InitIInv, NextIInv, PTL DEF Spec

-----------------------------------------------------------------------------
(* The safety properties.                                                  *)

(* "paid" and "fulfilled" are reached only through money that Razorpay     *)
(* took.                                                                   *)
THEOREM PaidMeansCapturedAlways == Spec => []PaidMeansCaptured
<1>1. IInv => PaidMeansCaptured
  BY DEF IInv
<1>2. QED
  BY <1>1, Invariance, PTL

(* Before its first shipment an order has at most one link that can take   *)
(* the customer's money or took it, with any number of handlers, events,   *)
(* links and crashes.                                                      *)
THEOREM OneChargePerOrderAlways == Spec => []OneChargePerOrder
<1>1. IInv => OneChargePerOrder
  BY DEF IInv, UnshippedInv, OrderInv, OneLinkLive, OneChargePerOrder
<1>2. QED
  BY <1>1, Invariance, PTL

(* A paid order not yet shipped keeps the id of the payment it came with.  *)
THEOREM ReceiptKeptAlways == Spec => []ReceiptKept
<1>1. IInv => ReceiptKept
  BY DEF IInv, UnshippedInv, OrderInv, ReceiptInv, ReceiptKept
<1>2. QED
  BY <1>1, Invariance, PTL

(* Nothing but the merchant's click moves a paid order on.                 *)
THEOREM PaidStaysPaid == Spec => PaidIsOnlyFulfilled
<1>1. TypeInv /\ [Next]_vars =>
        [\A o \in Orders :
           rows[o].status = "paid" => rows'[o].status \in {"paid", "fulfilled"}]_vars
  BY StatusSteps DEF CanMarkFailed, Exists
<1>2. QED
  BY <1>1, InitTypeInv, NextTypeInv, PTL DEF Spec, PaidIsOnlyFulfilled

-----------------------------------------------------------------------------
(* The refinement.                                                         *)

(* A handler of a "paid" event knows of a capture until its last step, not *)
(* only up to its UPDATE.                                                  *)
PaidHandlersTrue ==
  \A w \in Workers :
    worker[w].kind = "paid" => gateway[worker[w].order][worker[w].link] = "paid"

(* No handler runs at first.                                               *)
LEMMA InitPaidHandlersTrue == Init => PaidHandlersTrue
BY DEF Init, PaidHandlersTrue, IdleHandler

(* Only a true event starts such a handler, and a capture is not undone.   *)
LEMMA NextPaidHandlersTrue ==
  ASSUME IInv, PaidHandlersTrue, [Next]_vars
  PROVE  PaidHandlersTrue'
<1>0. /\ Forward
      /\ worker \in [Workers -> Handlers]
      /\ \A w \in Workers : HandlerShape(worker[w])
      /\ EventsTrue
  BY NextForward DEF IInv, TypeInv, TypeOK, HandlerShapes
<1> SUFFICES ASSUME NEW w \in Workers, worker'[w].kind = "paid"
             PROVE  gateway'[worker'[w].order][worker'[w].link] = "paid"
  BY DEF PaidHandlersTrue
<1>1. CASE /\ worker[w].kind = "paid"
           /\ worker'[w].order = worker[w].order /\ worker'[w].link = worker[w].link
  <2>1. worker[w].order \in Orders /\ worker[w].link \in Links
    BY <1>0, <1>1 DEF HandlerShape
  <2>2. QED
    BY <1>0, <1>1, <2>1 DEF PaidHandlersTrue, Forward
<1>2. ASSUME NEW e \in Events, Deliver(w, e)
      PROVE  gateway'[worker'[w].order][worker'[w].link] = "paid"
  <2>1. worker'[w] = HandlerOf(e) /\ UNCHANGED gateway /\ e \in events
    BY <1>0, <1>2 DEF Deliver
  <2>2. e.kind = "paid" /\ worker'[w].order = e.order /\ worker'[w].link = e.link
    BY <2>1 DEF HandlerOf
  <2>3. QED
    BY <1>0, <2>1, <2>2 DEF EventsTrue
<1>3. \/ \E e \in Events : Deliver(w, e)
      \/ /\ worker[w].kind = "paid"
         /\ worker'[w].order = worker[w].order /\ worker'[w].link = worker[w].link
  <2>1. CASE worker'[w] = worker[w]
    BY <2>1
  <2>2. ASSUME NEW pc, Goto(w, pc)
        PROVE  /\ worker[w].kind = "paid"
               /\ worker'[w].order = worker[w].order /\ worker'[w].link = worker[w].link
    BY <1>0, <2>2 DEF Goto, Handlers
  <2>3. ~Finish(w)
    BY <1>0 DEF Finish, IdleHandler
  <2>4. ASSUME NEW v \in Workers, v # w, Step(v) \/ Crash(v)
        PROVE  worker'[w] = worker[w]
    BY <1>0, <2>4 DEF Step, Crash, DoMarkPaid, DoMarkFailed, DoMarkFulfilled, CreateLink,
       LinkRefused, DoStoreLink, Send, Goto, Finish
  <2>5. ~CreateLink(w)
    <3> SUFFICES ASSUME CreateLink(w)
                 PROVE  FALSE
      OBVIOUS
    <3>1. worker[w].pc = "create" /\ worker'[w].kind = worker[w].kind
      BY <1>0 DEF CreateLink, Handlers
    <3>2. QED
      BY <1>0, <3>1 DEF HandlerShape
  <2>6. ASSUME Step(w) \/ Crash(w)
        PROVE  \E pc : Goto(w, pc)
    BY <2>3, <2>5, <2>6 DEF Step, Crash, DoMarkPaid, DoMarkFailed, DoMarkFulfilled,
       LinkRefused, DoStoreLink, Send
  <2>7. ASSUME NEW v \in Workers, NEW o \in Orders, PlaceOrder(v, o) \/ ClickFulfil(v, o)
        PROVE  worker'[w] = worker[w]
    BY <1>0, <2>7 DEF PlaceOrder, ClickFulfil
  <2>8. ASSUME NEW v \in Workers, v # w, NEW e \in Events, Deliver(v, e)
        PROVE  worker'[w] = worker[w]
    BY <1>0, <2>8 DEF Deliver
  <2>9. QED
    BY <2>1, <2>2, <2>4, <2>6, <2>7, <2>8 DEF Next, vars, AttemptFails, Pay, Expire
<1>4. QED
  BY <1>1, <1>2, <1>3

(* What has shipped is in the books: no statement deletes an order.        *)
ShippedExist == \A o \in Orders : Shipped(o) => Exists(rows[o])

(* A shipment is counted in the step that marks the order fulfilled.       *)
LEMMA NextShippedExist ==
  ASSUME IInv, ShippedExist, [Next]_vars
  PROVE  ShippedExist'
<1> SUFFICES ASSUME NEW o \in Orders, Shipped(o)'
             PROVE  Exists(rows[o])'
  BY DEF ShippedExist
<1>1. Exists(rows[o]) => Exists(rows[o])'
  BY StatusSteps DEF IInv, InsertedRow, Exists
<1>2. CASE Shipped(o)
  BY <1>1, <1>2 DEF ShippedExist
<1>3. ASSUME NEW w \in Workers, DoMarkFulfilled(w), ~Shipped(o)
      PROVE  Exists(rows[o])
  <2>1. shipments \in [Orders -> Nat] /\ shipments'[o] # shipments[o]
    BY <1>3 DEF IInv, TypeInv, TypeOK, Shipped
  <2>2. worker[w].order = o /\ CanMarkFulfilled(rows[o])
    BY <1>3, <2>1 DEF DoMarkFulfilled
  <2>3. QED
    BY <2>2 DEF CanMarkFulfilled, Exists
<1>4. CASE UNCHANGED shipments
  BY <1>2, <1>4 DEF Shipped
<1>5. QED
  BY <1>1, <1>2, <1>3, <1>4 DEF Next, Step, vars, PlaceOrder, ClickFulfil, Deliver, DoMarkPaid,
     DoMarkFailed, CreateLink, LinkRefused, DoStoreLink, Send, Crash, AttemptFails, Pay, Expire

(* The invariant of the refinement.                                        *)
ContractInv == IInv /\ PaidHandlersTrue /\ ShippedExist

(* A step that moves no status between the four the contract tells apart   *)
(* and takes, sends and ships nothing is invisible to it.                  *)
LEMMA Invisible ==
  ASSUME \A o \in Orders : rows'[o].status = rows[o].status,
         \A o \in Orders : Captured(o)' = Captured(o),
         UNCHANGED <<confirmed, shipments>>
  PROVE  UNCHANGED Contract!vars
BY DEF Contract!vars, Exists, Shipped

(* The empty shop is the empty contract.                                   *)
LEMMA InitContract == Init => Contract!Init
BY DEF Init, Contract!Init, NoRow, Exists, Captured, Shipped

(* Only the customer's payment takes money, and before the first shipment  *)
(* only the first one.                                                     *)
LEMMA PayCharges ==
  ASSUME ContractInv, NEW o \in Orders, NEW l \in Links, Pay(o, l)
  PROVE  Contract!Charge(o, l)
<1>0. /\ gateway \in [Orders -> [Links -> LinkStates]]
      /\ gateway[o][l] = "open" /\ gateway' = [gateway EXCEPT ![o][l] = "paid"]
      /\ UNCHANGED <<rows, confirmed, shipments>>
  BY DEF ContractInv, IInv, TypeInv, TypeOK, Pay
<1>1. Captured(o)' = Captured(o) \cup {l}
  BY <1>0 DEF Captured
<1>2. \A p \in Orders \ {o} : Captured(p)' = Captured(p)
  BY <1>0 DEF Captured
<1>3. [p \in Orders |-> Captured(p)]' =
        [[p \in Orders |-> Captured(p)] EXCEPT ![o] = @ \cup {l}]
  BY <1>1, <1>2
<1>4. Captured(o) = {} \/ Shipped(o)
  <2> SUFFICES ASSUME ~Shipped(o)
               PROVE  Captured(o) = {}
    OBVIOUS
  <2>1. OneLinkLive(o) /\ l \in Payable(o)
    BY <1>0 DEF ContractInv, IInv, UnshippedInv, OrderInv, Payable
  <2>2. \A k \in Captured(o) : k = l
    BY <2>1 DEF OneLinkLive
  <2>3. l \notin Captured(o)
    BY <1>0 DEF Captured
  <2>4. QED
    BY <2>2, <2>3
<1>5. Exists(rows[o])
  <2>1. CASE Shipped(o)
    BY <2>1 DEF ContractInv, ShippedExist
  <2>2. CASE ~Shipped(o)
    BY <1>0, <2>2 DEF ContractInv, IInv, UnshippedInv, OrderInv, AbsentInv
  <2>3. QED
    BY <2>1, <2>2
<1>6. QED
  BY <1>0, <1>3, <1>4, <1>5 DEF Contract!Charge, Shipped

(* Every other step is one of the contract's, or invisible to it.          *)
LEMMA ContractStep == ContractInv /\ [Next]_vars => [Contract!Next]_(Contract!vars)
<1> SUFFICES ASSUME ContractInv, [Next]_vars
             PROVE  [Contract!Next]_(Contract!vars)
  OBVIOUS
<1>0. /\ rows \in [Orders -> Rows]
      /\ gateway \in [Orders -> [Links -> LinkStates]]
      /\ shipments \in [Orders -> Nat]
      /\ confirmed \in [Orders -> Nat]
      /\ \A w \in Workers : HandlerShape(worker[w])
      /\ TypeInv
  BY DEF ContractInv, IInv, TypeInv, TypeOK, HandlerShapes
<1>1. ASSUME NEW w \in Workers, NEW o \in Orders, PlaceOrder(w, o)
      PROVE  Contract!Place(o)
  <2>1. /\ ~Exists(rows[o]) /\ rows[o].status \notin {"paid", "fulfilled"}
        /\ Exists(rows'[o]) /\ rows'[o].status \notin {"paid", "fulfilled"}
        /\ \A p \in Orders \ {o} : rows'[p] = rows[p]
    BY <1>0, <1>1 DEF PlaceOrder, NoRow, InsertedRow, Exists
  <2>2. UNCHANGED <<gateway, confirmed, shipments>>
    BY <1>1 DEF PlaceOrder
  <2>3. QED
    BY <2>1, <2>2 DEF Contract!Place, Captured, Shipped
<1>2. ASSUME NEW w \in Workers, NEW o \in Orders, worker[w].order = o, DoMarkPaid(w)
      PROVE  [Contract!Next]_(Contract!vars)
  <2>1. UNCHANGED <<gateway, confirmed, shipments>>
    BY <1>0, <1>2 DEF DoMarkPaid, HandlerShape
  <2>2. CASE UNCHANGED rows
    BY <2>1, <2>2, Invisible DEF Captured
  <2>3. CASE CanMarkPaid(rows[o])
    <3>1. rows' = [rows EXCEPT ![o] = MarkPaid(@, worker[w].link)]
      BY <1>2, <2>3 DEF DoMarkPaid
    <3>2. /\ Exists(rows[o]) /\ rows'[o].status = "paid" /\ Exists(rows'[o])
          /\ \A p \in Orders \ {o} : rows'[p] = rows[p]
      BY <1>0, <2>1, <2>3, <3>1 DEF MarkPaid, Rows, Exists, CanMarkPaid
    <3>3. Captured(o) # {}
      BY <1>0, <1>2 DEF ContractInv, PaidHandlersTrue, DoMarkPaid, HandlerShape, Captured
    <3>4. Contract!Record(o)
      BY <2>1, <3>2, <3>3 DEF Contract!Record, Captured, Shipped
    <3>5. QED
      BY <2>1, <3>4 DEF Contract!Next
  <2>4. QED
    BY <1>2, <2>2, <2>3 DEF DoMarkPaid
<1>3. ASSUME NEW w \in Workers, NEW o \in Orders, worker[w].order = o, DoMarkFailed(w)
      PROVE  [Contract!Next]_(Contract!vars)
  <2>1. UNCHANGED <<gateway, confirmed, shipments>>
    BY <1>0, <1>3 DEF DoMarkFailed, HandlerShape
  <2>2. CASE UNCHANGED rows
    BY <2>1, <2>2, Invisible DEF Captured
  <2>3. CASE CanMarkFailed(rows[o])
    <3>1. rows' = [rows EXCEPT ![o] = MarkFailed(@)]
      BY <1>3, <2>3 DEF DoMarkFailed
    <3>2. /\ Exists(rows[o]) /\ rows[o].status # "paid"
          /\ rows'[o].status = "failed" /\ Exists(rows'[o])
          /\ \A p \in Orders \ {o} : rows'[p] = rows[p]
      BY <1>0, <2>1, <2>3, <3>1 DEF MarkFailed, Rows, Exists, CanMarkFailed
    <3>3. CASE rows[o].status = "fulfilled"
      <4>1. Shipped(o)
        BY <2>1, <3>3 DEF ContractInv, IInv, UnshippedInv, OrderInv
      <4>2. Contract!Lapse(o)
        BY <2>1, <3>2, <3>3, <4>1 DEF Contract!Lapse, Captured, Shipped
      <4>3. QED
        BY <2>1, <4>2 DEF Contract!Next
    <3>4. CASE rows[o].status # "fulfilled"
      <4>1. UNCHANGED Contract!vars
        BY <2>1, <3>2, <3>4 DEF Contract!vars, Captured, Shipped
      <4>2. QED
        BY <4>1
    <3>5. QED
      BY <3>3, <3>4
  <2>4. QED
    BY <1>3, <2>2, <2>3 DEF DoMarkFailed
<1>4. ASSUME NEW w \in Workers, NEW o \in Orders, worker[w].order = o, DoMarkFulfilled(w)
      PROVE  [Contract!Next]_(Contract!vars)
  <2>1. UNCHANGED <<gateway, confirmed>>
    BY <1>0, <1>4 DEF DoMarkFulfilled, HandlerShape
  <2>2. CASE UNCHANGED <<rows, shipments>>
    BY <2>1, <2>2, Invisible DEF Captured
  <2>3. CASE CanMarkFulfilled(rows[o])
    <3>1. /\ rows' = [rows EXCEPT ![o] = MarkFulfilled(@)]
          /\ shipments' = [shipments EXCEPT ![o] = @ + 1]
      BY <1>4, <2>3 DEF DoMarkFulfilled
    <3>2. /\ rows[o].status = "paid" /\ rows'[o].status = "fulfilled"
          /\ \A p \in Orders \ {o} : rows'[p] = rows[p]
      BY <1>0, <2>1, <2>3, <3>1 DEF MarkFulfilled, Rows, CanMarkFulfilled
    <3>3. Shipped(o)' /\ \A p \in Orders \ {o} : Shipped(p)' = Shipped(p)
      BY <1>0, <2>1, <3>1 DEF Shipped
    <3>4. Contract!Ship(o)
      BY <2>1, <3>2, <3>3 DEF Contract!Ship, Captured, Exists
    <3>5. QED
      BY <2>1, <3>4 DEF Contract!Next
  <2>4. QED
    BY <1>4, <2>2, <2>3 DEF DoMarkFulfilled
<1>5. ASSUME NEW w \in Workers, CreateLink(w) \/ LinkRefused(w)
      PROVE  UNCHANGED Contract!vars
  <2>1. \/ UNCHANGED gateway
        \/ \E l \in Links : /\ gateway[worker[w].order][l] = "none"
                            /\ gateway' = [gateway EXCEPT ![worker[w].order][l] = "open"]
    BY <1>5 DEF CreateLink, LinkRefused, Unmade
  <2>2. \A o \in Orders, l \in Links : gateway'[o][l] = "paid" <=> gateway[o][l] = "paid"
    <3>1. worker[w].order \in Orders
      BY <1>0, <1>5 DEF CreateLink, LinkRefused, HandlerShape
    <3>2. CASE UNCHANGED gateway
      BY <3>2
    <3>3. ASSUME NEW k \in Links, gateway[worker[w].order][k] = "none",
                 gateway' = [gateway EXCEPT ![worker[w].order][k] = "open"]
          PROVE  \A o \in Orders, l \in Links :
                   gateway'[o][l] = "paid" <=> gateway[o][l] = "paid"
      BY <1>0, <3>1, <3>3
    <3>4. QED
      BY <2>1, <3>2, <3>3
  <2>3. QED
    BY <1>5, <2>2, Invisible DEF CreateLink, LinkRefused, Captured
<1>6. ASSUME NEW w \in Workers, DoStoreLink(w)
      PROVE  UNCHANGED Contract!vars
  <2>1. \A o \in Orders : rows'[o].status = rows[o].status
    BY <1>0, <1>6 DEF DoStoreLink, StoreLink, Rows
  <2>2. QED
    BY <1>6, <2>1, Invisible DEF DoStoreLink, Captured
<1>7. ASSUME NEW w \in Workers, NEW o \in Orders, worker[w].order = o, Send(w)
      PROVE  [Contract!Next]_(Contract!vars)
  <2>1. UNCHANGED <<rows, gateway, shipments>>
    BY <1>0, <1>7 DEF Send, HandlerShape
  <2>2. CASE worker[w].kind # "paid"
    BY <1>7, <2>1, <2>2, Invisible DEF Send, Captured
  <2>3. CASE worker[w].kind = "paid"
    <3>1. confirmed' = [confirmed EXCEPT ![o] = @ + 1]
      BY <1>7, <2>3 DEF Send
    <3>2. /\ confirmed'[o] > 0
          /\ \A p \in Orders \ {o} : confirmed'[p] = confirmed[p]
      BY <1>0, <2>1, <3>1
    <3>3. Captured(o) # {}
      BY <1>0, <1>7, <2>3 DEF ContractInv, PaidHandlersTrue, HandlerShape, Captured
    <3>4. Contract!Confirm(o)
      BY <2>1, <3>2, <3>3 DEF Contract!Confirm, Captured, Shipped
    <3>5. QED
      BY <2>1, <3>4 DEF Contract!Next
  <2>4. QED
    BY <2>2, <2>3
<1>8. ASSUME NEW o \in Orders, NEW l \in Links, Pay(o, l)
      PROVE  [Contract!Next]_(Contract!vars)
  BY <1>8, PayCharges DEF Contract!Next
<1>9. ASSUME NEW o \in Orders, NEW l \in Links, Expire(o, l)
      PROVE  UNCHANGED Contract!vars
  <2>1. \A p \in Orders : Captured(p)' = Captured(p)
    BY <1>0, <1>9 DEF Expire, Captured
  <2>2. QED
    BY <1>9, <2>1, Invisible DEF Expire
<1>10. CASE UNCHANGED <<rows, gateway, confirmed, shipments>>
  BY <1>10, Invisible DEF Captured
<1>11. \A w \in Workers : Step(w) => \E o \in Orders : worker[w].order = o
  BY <1>0 DEF HandlerShape, Step, DoMarkPaid, DoMarkFailed, DoMarkFulfilled, CreateLink,
     LinkRefused, DoStoreLink, Send
<1>12. QED
  BY <1>1, <1>2, <1>3, <1>4, <1>5, <1>6, <1>7, <1>8, <1>9, <1>10, <1>11
     DEF Contract!Next, Next, Step, vars, ClickFulfil, Deliver, Crash, AttemptFails

(* However handlers, events, clicks and crashes interleave, every step of  *)
(* the service is a step of the contract or none: nothing is recorded,     *)
(* confirmed or shipped before Razorpay took the money, and it takes money *)
(* for placed orders only, once until they ship.                           *)
THEOREM ImplementsContract == Spec => ContractSpec
<1>1. Init => ContractInv /\ Contract!Init
  BY InitIInv, InitPaidHandlersTrue, InitContract DEF ContractInv, ShippedExist, Shipped, Init
<1>2. ContractInv /\ [Next]_vars => ContractInv'
  BY NextIInv, NextPaidHandlersTrue, NextShippedExist DEF ContractInv
<1>3. QED
  BY <1>1, <1>2, ContractStep, PTL DEF Spec, ContractSpec, Contract!Spec

-----------------------------------------------------------------------------
(* The confirmations.                                                      *)

(* The handlers that moved o to "paid" and have yet to tell the customer.  *)
Confirming(o) ==
  {w \in Workers : worker[w].kind = "paid" /\ worker[w].pc = "send" /\ worker[w].order = o}

(* A row that reads "paid" allows one confirmation more than the row was   *)
(* shipped; a crash only makes the confirmations fewer.                    *)
Allowed(o) == shipments[o] + (IF rows[o].status = "paid" THEN 1 ELSE 0)

ConfirmInv(o) ==
  /\ IsFiniteSet(Confirming(o))
  /\ confirmed[o] + Cardinality(Confirming(o)) <= Allowed(o)

ConfirmsInv == \A o \in Orders : ConfirmInv(o)

(* Nobody starts to confirm, nothing is sent, and as much is allowed.      *)
LEMMA NoneConfirms ==
  ASSUME TypeInv, NEW o \in Orders, ConfirmInv(o),
         Confirming(o)' \subseteq Confirming(o), confirmed'[o] = confirmed[o],
         Allowed(o)' = Allowed(o)
  PROVE  ConfirmInv(o)'
<1>1. /\ IsFiniteSet(Confirming(o)')
      /\ Cardinality(Confirming(o)') <= Cardinality(Confirming(o))
  BY FS_Subset DEF ConfirmInv
<1>2. Cardinality(Confirming(o)) \in Nat /\ Cardinality(Confirming(o)') \in Nat
  BY <1>1, FS_CardinalityType DEF ConfirmInv
<1>3. confirmed[o] \in Nat /\ Allowed(o) \in Nat
  BY DEF TypeInv, TypeOK, Allowed
<1>4. QED
  BY <1>1, <1>2, <1>3 DEF ConfirmInv

(* mark_order_paid matched: one handler more confirms, and the row did not *)
(* read "paid".                                                            *)
LEMMA MarkPaidConfirms ==
  ASSUME TypeInv, NEW o \in Orders, ConfirmInv(o), NEW w \in Workers,
         worker[w].order = o, DoMarkPaid(w), CanMarkPaid(rows[o])
  PROVE  ConfirmInv(o)'
<1>0. /\ worker \in [Workers -> Handlers] /\ rows \in [Orders -> Rows]
      /\ confirmed[o] \in Nat /\ shipments[o] \in Nat
  BY DEF TypeInv, TypeOK
<1>1. /\ rows'[o].status = "paid" /\ rows[o].status # "paid"
      /\ worker' = [worker EXCEPT ![w].pc = "send"]
      /\ UNCHANGED <<confirmed, shipments>>
  BY <1>0 DEF DoMarkPaid, CanMarkPaid, MarkPaid, Rows, Goto
<1>2. w \notin Confirming(o)
  BY DEF Confirming, DoMarkPaid
<1>3. /\ worker'[w].kind = "paid" /\ worker'[w].pc = "send" /\ worker'[w].order = o
      /\ \A v \in Workers \ {w} : worker'[v] = worker[v]
  BY <1>0, <1>1 DEF Handlers, DoMarkPaid
<1>4. Confirming(o)' = Confirming(o) \cup {w}
  BY <1>3 DEF Confirming
<1>5. /\ IsFiniteSet(Confirming(o)')
      /\ Cardinality(Confirming(o)') = Cardinality(Confirming(o)) + 1
  BY <1>2, <1>4, FS_AddElement DEF ConfirmInv
<1>6. Cardinality(Confirming(o)) \in Nat
  BY FS_CardinalityType DEF ConfirmInv
<1>7. Allowed(o)' = Allowed(o) + 1 /\ Allowed(o) \in Nat
  BY <1>0, <1>1 DEF Allowed
<1>8. QED
  BY <1>0, <1>1, <1>5, <1>6, <1>7 DEF ConfirmInv

(* A confirmation is sent: its handler is one of those that were due.      *)
LEMMA SendConfirms ==
  ASSUME TypeInv, NEW o \in Orders, ConfirmInv(o), NEW w \in Confirming(o), Send(w)
  PROVE  ConfirmInv(o)'
<1>0. /\ worker \in [Workers -> Handlers] /\ confirmed \in [Orders -> Nat]
      /\ shipments[o] \in Nat
  BY DEF TypeInv, TypeOK
<1>1. /\ w \in Workers /\ worker[w].kind = "paid" /\ worker[w].order = o
      /\ confirmed' = [confirmed EXCEPT ![o] = @ + 1]
      /\ worker' = [worker EXCEPT ![w] = IdleHandler]
      /\ UNCHANGED <<rows, shipments>>
  BY DEF Confirming, Send, Finish
<1>2. Confirming(o)' = Confirming(o) \ {w}
  BY <1>0, <1>1 DEF Confirming, IdleHandler
<1>3. /\ IsFiniteSet(Confirming(o)')
      /\ Cardinality(Confirming(o)') = Cardinality(Confirming(o)) - 1
  BY <1>2, FS_RemoveElement DEF ConfirmInv
<1>4. Cardinality(Confirming(o)) \in Nat
  BY FS_CardinalityType DEF ConfirmInv
<1>5. Allowed(o)' = Allowed(o) /\ Allowed(o) \in Nat /\ confirmed'[o] = confirmed[o] + 1
  BY <1>0, <1>1 DEF Allowed
<1>6. QED
  BY <1>0, <1>3, <1>4, <1>5 DEF ConfirmInv

(* One step per action that changes what the invariant counts.             *)
LEMMA NextConfirmsInv == TypeInv /\ ConfirmsInv /\ [Next]_vars => ConfirmsInv'
<1> SUFFICES ASSUME TypeInv, ConfirmsInv, [Next]_vars, NEW o \in Orders
             PROVE  ConfirmInv(o)'
  BY DEF ConfirmsInv
<1>0. /\ worker \in [Workers -> Handlers] /\ rows \in [Orders -> Rows]
      /\ shipments \in [Orders -> Nat] /\ confirmed \in [Orders -> Nat]
      /\ \A w \in Workers : HandlerShape(worker[w])
      /\ ConfirmInv(o)
  BY DEF TypeInv, TypeOK, HandlerShapes, ConfirmsInv
<1>1. ASSUME NEW w \in Workers, Finish(w)
      PROVE  Confirming(o)' \subseteq Confirming(o)
  BY <1>0, <1>1 DEF Finish, IdleHandler, Confirming
<1>2. ASSUME NEW w \in Workers, NEW h, worker' = [worker EXCEPT ![w] = h],
             h.kind # "paid" \/ h.pc # "send"
      PROVE  Confirming(o)' \subseteq Confirming(o)
  BY <1>0, <1>2 DEF Confirming
<1>3. ASSUME NEW w \in Workers, NEW pc, Goto(w, pc), worker[w].kind # "paid"
      PROVE  Confirming(o)' \subseteq Confirming(o)
  <2>1. \A v \in Workers : worker'[v].kind = worker[v].kind
    BY <1>0, <1>3 DEF Goto, Handlers
  <2>2. \A v \in Workers \ {w} : worker'[v] = worker[v]
    BY <1>0, <1>3 DEF Goto
  <2>3. QED
    BY <1>3, <2>1, <2>2 DEF Confirming
<1>4. ASSUME NEW w \in Workers, NEW p \in Orders, PlaceOrder(w, p)
      PROVE  ConfirmInv(o)'
  <2>1. Confirming(o)' \subseteq Confirming(o)
    BY <1>2, <1>4 DEF PlaceOrder
  <2>2. Allowed(o)' = Allowed(o)
    BY <1>0, <1>4 DEF PlaceOrder, Allowed, NoRow, InsertedRow
  <2>3. QED
    BY <1>0, <1>4, <2>1, <2>2, NoneConfirms DEF PlaceOrder
<1>5. ASSUME NEW w \in Workers, NEW p \in Orders, ClickFulfil(w, p)
      PROVE  ConfirmInv(o)'
  <2>1. Confirming(o)' \subseteq Confirming(o)
    BY <1>2, <1>5 DEF ClickFulfil
  <2>2. QED
    BY <1>0, <1>5, <2>1, NoneConfirms DEF ClickFulfil, Allowed
<1>6. ASSUME NEW w \in Workers, NEW e \in Events, Deliver(w, e)
      PROVE  ConfirmInv(o)'
  <2>1. HandlerOf(e).pc # "send"
    BY DEF HandlerOf
  <2>2. Confirming(o)' \subseteq Confirming(o)
    BY <1>2, <1>6, <2>1 DEF Deliver
  <2>3. QED
    BY <1>0, <1>6, <2>2, NoneConfirms DEF Deliver, Allowed
<1>7. ASSUME NEW w \in Workers, DoMarkPaid(w)
      PROVE  ConfirmInv(o)'
  <2>1. CASE Finish(w) /\ UNCHANGED rows
    BY <1>0, <1>1, <1>7, <2>1, NoneConfirms DEF DoMarkPaid, Allowed
  <2>2. CASE worker[w].order = o /\ CanMarkPaid(rows[o])
    BY <1>0, <1>7, <2>2, MarkPaidConfirms
  <2>3. CASE worker[w].order # o /\ Goto(w, "send")
    <3>1. /\ worker'[w].order # o
          /\ \A v \in Workers \ {w} : worker'[v] = worker[v]
      BY <1>0, <2>3 DEF Goto, Handlers
    <3>2. Confirming(o)' \subseteq Confirming(o)
      BY <2>3, <3>1 DEF Confirming
    <3>3. rows'[o] = rows[o]
      BY <1>0, <1>7, <2>3 DEF DoMarkPaid
    <3>4. QED
      BY <1>0, <1>7, <3>2, <3>3, NoneConfirms DEF DoMarkPaid, Allowed
  <2>4. QED
    BY <1>7, <2>1, <2>2, <2>3 DEF DoMarkPaid
<1>8. ASSUME NEW w \in Workers, DoMarkFailed(w)
      PROVE  ConfirmInv(o)'
  <2>1. Confirming(o)' \subseteq Confirming(o)
    BY <1>1, <1>3, <1>8 DEF DoMarkFailed
  <2>2. rows'[o].status = "paid" <=> rows[o].status = "paid"
    BY <1>0, <1>8 DEF DoMarkFailed, CanMarkFailed, MarkFailed, Rows
  <2>3. QED
    BY <1>0, <1>8, <2>1, <2>2, NoneConfirms DEF DoMarkFailed, Allowed
<1>9. ASSUME NEW w \in Workers, DoMarkFulfilled(w)
      PROVE  ConfirmInv(o)'
  <2>1. Confirming(o)' \subseteq Confirming(o)
    BY <1>1, <1>3, <1>9 DEF DoMarkFulfilled
  <2>2. CASE worker[w].order = o /\ CanMarkFulfilled(rows[o])
    <3>1. rows[o].status = "paid" /\ rows'[o].status = "fulfilled"
      BY <1>0, <1>9, <2>2 DEF DoMarkFulfilled, CanMarkFulfilled, MarkFulfilled, Rows
    <3>2. shipments'[o] = shipments[o] + 1 /\ shipments[o] \in Nat
      BY <1>0, <1>9, <2>2 DEF DoMarkFulfilled
    <3>3. Allowed(o)' = Allowed(o)
      BY <3>1, <3>2 DEF Allowed
    <3>4. QED
      BY <1>0, <1>9, <2>1, <3>3, NoneConfirms DEF DoMarkFulfilled
  <2>3. CASE ~(worker[w].order = o /\ CanMarkFulfilled(rows[o]))
    <3>1. rows'[o] = rows[o] /\ shipments'[o] = shipments[o]
      BY <1>0, <1>9, <2>3 DEF DoMarkFulfilled
    <3>2. QED
      BY <1>0, <1>9, <2>1, <3>1, NoneConfirms DEF DoMarkFulfilled, Allowed
  <2>4. QED
    BY <2>2, <2>3
<1>10. ASSUME NEW w \in Workers, CreateLink(w)
       PROVE  ConfirmInv(o)'
  <2>1. PICK l \in Links : worker' = [worker EXCEPT ![w].pc = "store", ![w].link = l]
    BY <1>10 DEF CreateLink, Unmade
  <2>2. /\ worker'[w].pc = "store"
        /\ \A v \in Workers \ {w} : worker'[v] = worker[v]
    BY <1>0, <2>1 DEF Handlers
  <2>3. Confirming(o)' \subseteq Confirming(o)
    BY <2>2 DEF Confirming
  <2>4. QED
    BY <1>0, <1>10, <2>3, NoneConfirms DEF CreateLink, Allowed
<1>11. ASSUME NEW w \in Workers, LinkRefused(w) \/ DoStoreLink(w)
       PROVE  ConfirmInv(o)'
  <2>1. worker[w].kind # "paid" /\ Goto(w, "send")
    BY <1>0, <1>11 DEF LinkRefused, DoStoreLink, HandlerShape
  <2>2. Confirming(o)' \subseteq Confirming(o)
    BY <1>3, <2>1
  <2>3. rows'[o].status = rows[o].status
    <3>1. CASE LinkRefused(w)
      BY <3>1 DEF LinkRefused
    <3>2. CASE DoStoreLink(w)
      BY <1>0, <3>2 DEF DoStoreLink, StoreLink, Rows
    <3>3. QED
      BY <1>11, <3>1, <3>2
  <2>4. QED
    BY <1>0, <1>11, <2>2, <2>3, NoneConfirms DEF LinkRefused, DoStoreLink, Allowed
<1>12. ASSUME NEW w \in Workers, Send(w)
       PROVE  ConfirmInv(o)'
  <2>1. CASE w \in Confirming(o)
    BY <1>0, <1>12, <2>1, SendConfirms
  <2>2. CASE w \notin Confirming(o)
    <3>1. confirmed'[o] = confirmed[o]
      BY <1>0, <1>12, <2>2 DEF Send, Confirming
    <3>2. QED
      BY <1>0, <1>1, <1>12, <3>1, NoneConfirms DEF Send, Allowed
  <2>3. QED
    BY <2>1, <2>2
<1>13. ASSUME NEW w \in Workers, Crash(w)
       PROVE  ConfirmInv(o)'
  BY <1>0, <1>1, <1>13, NoneConfirms DEF Crash, Allowed
<1>14. CASE UNCHANGED <<rows, worker, confirmed, shipments>>
  BY <1>0, <1>14, NoneConfirms DEF Confirming, Allowed
<1>15. QED
  BY <1>4, <1>5, <1>6, <1>7, <1>8, <1>9, <1>10, <1>11, <1>12, <1>13, <1>14
     DEF Next, Step, vars, AttemptFails, Pay, Expire

(* With any number of redeliveries, racing handlers and crashes, a         *)
(* customer is told of a payment once, and once more for each shipment     *)
(* after which the same event can count as new.                            *)
THEOREM ConfirmedOncePerShipmentAlways == Spec => []ConfirmedOncePerShipment
<1>1. Init => ConfirmsInv
  <2> SUFFICES ASSUME Init, NEW o \in Orders
               PROVE  ConfirmInv(o)
    BY DEF ConfirmsInv
  <2>1. Confirming(o) = {}
    BY DEF Init, Confirming, IdleHandler
  <2>2. Allowed(o) = 0 /\ confirmed[o] = 0
    BY DEF Init, Allowed, NoRow
  <2>3. QED
    BY <2>1, <2>2, FS_EmptySet DEF ConfirmInv
<1>2. TypeInv /\ ConfirmsInv => ConfirmedOncePerShipment
  <2> SUFFICES ASSUME TypeInv, ConfirmsInv, NEW o \in Orders
               PROVE  confirmed[o] <= 1 + shipments[o]
    BY DEF ConfirmedOncePerShipment
  <2>1. Cardinality(Confirming(o)) \in Nat
    BY FS_CardinalityType DEF ConfirmsInv, ConfirmInv
  <2>2. QED
    BY <2>1 DEF TypeInv, TypeOK, ConfirmsInv, ConfirmInv, Allowed
<1>3. QED
  BY <1>1, <1>2, InitTypeInv, NextTypeInv, NextConfirmsInv, PTL DEF Spec
=============================================================================
