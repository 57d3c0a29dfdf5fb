-------------------------- MODULE NudgeJobProofs --------------------------
(***************************************************************************)
(* Theorems about NudgeJob, for any number of orders, overlapping runs and *)
(* crashes.                                                                *)
(***************************************************************************)
EXTENDS NudgeJob, FiniteSetTheorems, TLAPS

-----------------------------------------------------------------------------
(* The inductive invariant: nudge_sent_at records the nudges that went     *)
(* out, and the run that awaits one is the run that claimed it, before any *)
(* message about the order went out.                                       *)

NudgesRecorded == \A o \in Orders : nudges[o] <= IF rows[o].nudged THEN 1 ELSE 0

SendersClaimed ==
  /\ \A j \in Runs : sending[j] # NoOrder =>
       rows[sending[j]].nudged /\ nudges[sending[j]] = 0
  /\ \A i, j \in Runs : sending[i] = sending[j] /\ sending[i] # NoOrder => i = j

IInv == TypeOK /\ NudgesRecorded /\ SendersClaimed

(* A missing row and a new one are rows without a mark.                    *)
LEMMA NewRows ==
  /\ NoRow \in Rows /\ NoRow.nudged = FALSE
  /\ InsertedRow \in Rows /\ InsertedRow.nudged = FALSE
BY DEF Rows, NoRow, InsertedRow, Statuses, References, NoReference, NoLink

(* Only the claim changes the mark of a row, and every statement keeps the *)
(* row's type.                                                             *)
LEMMA RowFacts ==
  ASSUME NEW row \in Rows
  PROVE  /\ MarkPaid(row, 1) \in Rows /\ MarkPaid(row, 1).nudged = row.nudged
         /\ MarkFailed(row) \in Rows /\ MarkFailed(row).nudged = row.nudged
         /\ MarkFulfilled(row) \in Rows /\ MarkFulfilled(row).nudged = row.nudged
         /\ ClaimNudge(row) \in Rows /\ ClaimNudge(row).nudged
<1>1. MarkPaid(row, 1) \in Rows /\ MarkPaid(row, 1).nudged = row.nudged
  <2>1. 1 \in Links
    BY MaxLinksAssumption DEF Links
  <2>2. [kind |-> "pay", link |-> 1] \in References
    BY <2>1 DEF References
  <2>3. QED
    BY <2>2 DEF Rows, MarkPaid, Statuses
<1>2. MarkFailed(row) \in Rows /\ MarkFailed(row).nudged = row.nudged
  BY DEF Rows, MarkFailed, Statuses
<1>3. MarkFulfilled(row) \in Rows /\ MarkFulfilled(row).nudged = row.nudged
  BY DEF Rows, MarkFulfilled, Statuses
<1>4. ClaimNudge(row) \in Rows /\ ClaimNudge(row).nudged
  BY DEF Rows, ClaimNudge
<1>5. QED
  BY <1>1, <1>2, <1>3, <1>4

(* No order, no run and no nudge at first.                                 *)
LEMMA InitIInv == Init => IInv
BY NewRows, NudgeAssumption
   DEF Init, IInv, TypeOK, NudgesRecorded, SendersClaimed, NoOrder

(* A row is replaced by one with the same mark.                            *)
LEMMA UpdateIInv ==
  ASSUME IInv, NEW o \in Orders, NEW row \in Rows, Update(o, row),
         row.nudged = rows[o].nudged
  PROVE  IInv'
<1>1. \A p \in Orders : rows'[p].nudged = rows[p].nudged
  BY DEF Update, IInv, TypeOK
<1>2. TypeOK'
  BY DEF Update, IInv, TypeOK
<1>3. NudgesRecorded'
  BY <1>1 DEF Update, IInv, NudgesRecorded
<1>4. SendersClaimed'
  BY <1>1 DEF Update, IInv, TypeOK, SendersClaimed
<1>5. QED
  BY <1>2, <1>3, <1>4 DEF IInv

(* The claim of one turn of a run's loop.                                  *)
LEMMA NudgeNextIInv ==
  ASSUME IInv, NEW j \in Runs, NudgeNext(j)
  PROVE  IInv'
<1>1. PICK o \in Orders :
        /\ queue' = [queue EXCEPT ![j] = @ \ {o}]
        /\ IF CanClaimNudge(rows[o])
             THEN /\ rows' = [rows EXCEPT ![o] = ClaimNudge(@)]
                  /\ sending' = [sending EXCEPT ![j] = o]
             ELSE UNCHANGED <<rows, sending>>
        /\ UNCHANGED <<aged, nudges, faults>>
  BY DEF NudgeNext
<1>2. queue' \in [Runs -> SUBSET Orders] /\ o # NoOrder
  BY <1>1 DEF IInv, TypeOK, Orders, NoOrder
<1>3. CASE CanClaimNudge(rows[o])
  <2>1. /\ rows' = [rows EXCEPT ![o] = ClaimNudge(@)]
        /\ sending' = [sending EXCEPT ![j] = o]
        /\ UNCHANGED <<aged, nudges, faults>>
    BY <1>1, <1>3
  <2>2. rows[o] \in Rows /\ ~rows[o].nudged
    BY <1>1, <1>3 DEF IInv, TypeOK, CanClaimNudge
  <2>3. ClaimNudge(rows[o]) \in Rows /\ ClaimNudge(rows[o]).nudged
    BY <2>2, RowFacts
  <2>4. TypeOK'
    BY <1>2, <2>1, <2>3 DEF IInv, TypeOK
  <2>5. NudgesRecorded'
    BY <1>1, <2>1, <2>2, <2>3 DEF IInv, TypeOK, NudgesRecorded
  <2>6. nudges[o] = 0 /\ \A i \in Runs : sending[i] # o
    BY <1>2, <2>2 DEF IInv, TypeOK, NudgesRecorded, SendersClaimed
  <2>7. SendersClaimed'
    BY <1>2, <2>1, <2>3, <2>6 DEF IInv, TypeOK, SendersClaimed
  <2>8. QED
    BY <2>4, <2>5, <2>7 DEF IInv
<1>4. CASE ~CanClaimNudge(rows[o])
  BY <1>1, <1>2, <1>4 DEF IInv, TypeOK, NudgesRecorded, SendersClaimed
<1>5. QED
  BY <1>3, <1>4

(* A claim that went through and was not noticed: one nudge fewer.         *)
LEMMA ClaimAnswerLostIInv ==
  ASSUME IInv, NEW j \in Runs, ClaimAnswerLost(j)
  PROVE  IInv'
<1>1. PICK o \in Orders :
        /\ CanClaimNudge(rows[o])
        /\ queue' = [queue EXCEPT ![j] = @ \ {o}]
        /\ rows' = [rows EXCEPT ![o] = ClaimNudge(@)]
        /\ faults < MaxFaults /\ faults' = faults + 1
        /\ UNCHANGED <<aged, sending, nudges>>
  BY DEF ClaimAnswerLost
<1>2. /\ ClaimNudge(rows[o]) \in Rows /\ ClaimNudge(rows[o]).nudged
      /\ rows[o] \in Rows /\ ~rows[o].nudged
  BY <1>1, RowFacts DEF IInv, TypeOK, CanClaimNudge
<1>3. TypeOK'
  BY <1>1, <1>2, NudgeAssumption DEF IInv, TypeOK
<1>4. NudgesRecorded'
  BY <1>1, <1>2 DEF IInv, TypeOK, NudgesRecorded
<1>5. SendersClaimed'
  BY <1>1, <1>2 DEF IInv, TypeOK, SendersClaimed
<1>6. QED
  BY <1>3, <1>4, <1>5 DEF IInv

(* A message goes out, or its run ends and nobody can tell: the order was  *)
(* claimed, by nobody else, and no message about it went out before.       *)
LEMMA SendEndsIInv ==
  ASSUME IInv, NEW j \in Runs, SendReturns(j) \/ Crash(j)
  PROVE  IInv'
<1>1. /\ queue' \in [Runs -> SUBSET Orders]
      /\ sending' = [sending EXCEPT ![j] = NoOrder]
      /\ faults' \in 0 .. MaxFaults
      /\ UNCHANGED <<rows, aged>>
  BY NudgeAssumption DEF SendReturns, Crash, IInv, TypeOK
<1>2. \/ UNCHANGED nudges
      \/ sending[j] # NoOrder /\ nudges' = [nudges EXCEPT ![sending[j]] = @ + 1]
  BY DEF SendReturns, Crash
<1>3. nudges' \in [Orders -> Nat]
  BY <1>2 DEF IInv, TypeOK
<1>4. TypeOK'
  BY <1>1, <1>3 DEF IInv, TypeOK
<1>5. NudgesRecorded'
  BY <1>1, <1>2 DEF IInv, TypeOK, NudgesRecorded, SendersClaimed
<1>6. SendersClaimed'
  <2>1. \A i \in Runs : sending'[i] # NoOrder =>
          i # j /\ sending'[i] = sending[i] /\ sending[i] # sending[j]
    BY <1>1 DEF IInv, TypeOK, SendersClaimed
  <2>2. \A i \in Runs : sending'[i] # NoOrder => nudges'[sending'[i]] = nudges[sending[i]]
    BY <1>2, <2>1 DEF IInv, TypeOK
  <2>3. QED
    BY <1>1, <2>1, <2>2 DEF IInv, SendersClaimed
<1>7. QED
  BY <1>4, <1>5, <1>6 DEF IInv

(* One step per action.                                                    *)
LEMMA NextIInv == IInv /\ [Next]_vars => IInv'
<1> SUFFICES ASSUME IInv, [Next]_vars
             PROVE  IInv'
  OBVIOUS
<1>0. \A o \in Orders : rows[o] \in Rows
  BY DEF IInv, TypeOK
<1>1. ASSUME NEW j \in Runs, StartRun(j)
      PROVE  IInv'
  BY <1>1 DEF StartRun, AbandonedOrders, IInv, TypeOK, NudgesRecorded, SendersClaimed
<1>2. ASSUME NEW j \in Runs, NudgeNext(j)
      PROVE  IInv'
  BY <1>2, NudgeNextIInv
<1>3. ASSUME NEW j \in Runs, SendReturns(j) \/ Crash(j)
      PROVE  IInv'
  BY <1>3, SendEndsIInv
<1>4. ASSUME NEW o \in Orders, PlaceOrder(o)
      PROVE  IInv'
  <2>1. rows[o] = NoRow /\ Update(o, InsertedRow)
    BY <1>4 DEF PlaceOrder
  <2>2. InsertedRow \in Rows /\ InsertedRow.nudged = rows[o].nudged
    BY <2>1, NewRows
  <2>3. QED
    BY <2>1, <2>2, UpdateIInv
<1>5. ASSUME NEW o \in Orders, PaymentSucceeds(o)
      PROVE  IInv'
  BY <1>0, <1>5, RowFacts, UpdateIInv DEF PaymentSucceeds
<1>6. ASSUME NEW o \in Orders, PaymentFails(o)
      PROVE  IInv'
  BY <1>0, <1>6, RowFacts, UpdateIInv DEF PaymentFails
<1>7. ASSUME NEW o \in Orders, Fulfil(o)
      PROVE  IInv'
  BY <1>0, <1>7, RowFacts, UpdateIInv DEF Fulfil
<1>8. ASSUME NEW o \in Orders, GrowOld(o)
      PROVE  IInv'
  BY <1>8 DEF GrowOld, IInv, TypeOK, NudgesRecorded, SendersClaimed
<1>9. CASE UNCHANGED vars
  BY <1>9 DEF vars, IInv, TypeOK, NudgesRecorded, SendersClaimed
<1>10. ASSUME NEW j \in Runs, ClaimAnswerLost(j)
       PROVE  IInv'
  BY <1>10, ClaimAnswerLostIInv
<1>11. QED
  BY <1>1, <1>2, <1>3, <1>4, <1>5, <1>6, <1>7, <1>8, <1>9, <1>10 DEF Next, RunStep

(* Every variable keeps its type.                                          *)
THEOREM TypeCorrect == Spec => []TypeOK
<1>1. IInv => TypeOK
  BY DEF IInv
<1>2. QED
  BY InitIInv, NextIInv, <1>1, PTL DEF Spec

(* Overlapping, dying and restarted runs send at most one nudge for an     *)
(* order, and no two runs ever hold the same one.                          *)
THEOREM NudgedAtMostOnceAlways == Spec => []NudgedAtMostOnce
<1>1. IInv => NudgedAtMostOnce
  BY DEF IInv, TypeOK, NudgesRecorded, SendersClaimed, NudgedAtMostOnce
<1>2. QED
  BY InitIInv, NextIInv, <1>1, PTL DEF Spec

(* No statement makes an order pending again, and only a start of a run    *)
(* puts orders on a list: for any number of runs, orders and faults a      *)
(* settled order that is on no list is never nudged.                       *)
THEOREM SettledIsLeftAloneAlways == Spec => SettledIsLeftAlone
<1> DEFINE Settled(o) == rows[o].status \notin {"absent", "pending_payment"}
           Held(o) == \E j \in Runs : Holds(j, o)
           Left(o) == Settled(o)' /\ ~Held(o)' /\ nudges'[o] = nudges[o]
<1>1. ASSUME IInv, [Next]_vars, NEW o \in Orders, Settled(o), ~Held(o)
      PROVE  Left(o)
  <2>0. /\ rows[o] \in Rows /\ rows \in [Orders -> Rows]
        /\ queue \in [Runs -> SUBSET Orders] /\ nudges \in [Orders -> Nat]
        /\ sending \in [Runs -> Orders \cup {NoOrder}] /\ o # NoOrder
        /\ \A j \in Runs : o \notin queue[j] /\ sending[j] # o
    BY <1>1 DEF IInv, TypeOK, Holds, Orders, NoOrder
  <2>1. ASSUME NEW j \in Runs, StartRun(j)
        PROVE  Left(o)
    BY <1>1, <2>0, <2>1 DEF StartRun, AbandonedOrders, IsAbandoned, Holds
  <2>2. ASSUME NEW j \in Runs, NudgeNext(j)
        PROVE  Left(o)
    <3>1. PICK p \in Orders : /\ p \in queue[j]
                              /\ queue' = [queue EXCEPT ![j] = @ \ {p}]
                              /\ UNCHANGED nudges
                              /\ \/ UNCHANGED <<rows, sending>>
                                 \/ /\ rows' = [rows EXCEPT ![p] = ClaimNudge(@)]
                                    /\ sending' = [sending EXCEPT ![j] = p]
      BY <2>2 DEF NudgeNext, IsNext
    <3>2. p # o
      BY <2>0, <3>1
    <3>3. QED
      BY <1>1, <2>0, <3>1, <3>2 DEF Holds
  <2>3. ASSUME NEW j \in Runs, ClaimAnswerLost(j)
        PROVE  Left(o)
    <3>1. PICK p \in Orders : /\ p \in queue[j]
                              /\ queue' = [queue EXCEPT ![j] = @ \ {p}]
                              /\ rows' = [rows EXCEPT ![p] = ClaimNudge(@)]
                              /\ UNCHANGED <<sending, nudges>>
      BY <2>3 DEF ClaimAnswerLost, IsNext
    <3>2. p # o
      BY <2>0, <3>1
    <3>3. QED
      BY <1>1, <2>0, <3>1, <3>2 DEF Holds
  <2>4. ASSUME NEW j \in Runs, SendReturns(j) \/ Crash(j)
        PROVE  Left(o)
    BY <1>1, <2>0, <2>4 DEF SendReturns, Crash, Holds
  <2>5. ASSUME NEW p \in Orders, NEW row, Update(p, row),
               p = o => row.status \notin {"absent", "pending_payment"}
        PROVE  Left(o)
    BY <1>1, <2>0, <2>5 DEF Update, Holds
  <2>6. ASSUME NEW p \in Orders,
               PlaceOrder(p) \/ PaymentSucceeds(p) \/ PaymentFails(p) \/ Fulfil(p)
        PROVE  Left(o)
    <3>1. /\ MarkPaid(rows[o], 1).status = "paid"
          /\ MarkFailed(rows[o]).status = "failed"
          /\ MarkFulfilled(rows[o]).status = "fulfilled"
      BY <2>0 DEF Rows, MarkPaid, MarkFailed, MarkFulfilled
    <3>2. PlaceOrder(p) => p # o
      BY <1>1 DEF PlaceOrder, NoRow
    <3>3. QED
      BY <2>5, <2>6, <3>1, <3>2 DEF PlaceOrder, PaymentSucceeds, PaymentFails, Fulfil
  <2>7. CASE UNCHANGED <<rows, queue, sending, nudges>>
    BY <1>1, <2>7 DEF Holds
  <2>8. QED
    BY <1>1, <2>1, <2>2, <2>3, <2>4, <2>6, <2>7 DEF Next, RunStep, vars, GrowOld
<1>2. IInv /\ [Next]_vars =>
        [\A o \in Orders :
           /\ rows[o].status \notin {"absent", "pending_payment"}
           /\ \A j \in Runs : ~Holds(j, o)
           => /\ rows'[o].status \notin {"absent", "pending_payment"}
              /\ \A j \in Runs : ~Holds(j, o)'
              /\ nudges'[o] = nudges[o]]_vars
  BY <1>1
<1>3. QED
  BY <1>2, InitIInv, NextIInv, PTL DEF Spec, SettledIsLeftAlone

-----------------------------------------------------------------------------
(* The order of the nudges.                                                *)

(* Orders come to exist and grow old in the order of their numbers, and    *)
(* only old ones are listed and claimed.                                   *)
AgesInOrder ==
  /\ \A o \in aged : Exists(rows[o]) /\ \A p \in Orders : p < o => p \in aged
  /\ \A j \in Runs : queue[j] \subseteq aged
  /\ \A o \in Orders : rows[o].nudged => o \in aged

(* A run that still has an order to nudge also has every older one that is *)
(* still waiting: it listed both, and takes the older one first.           *)
ListsAreComplete ==
  \A j \in Runs : \A p \in queue[j] : \A o \in Orders :
    o < p /\ IsAbandoned(rows[o]) => o \in queue[j]

(* OldestFirst as the claims alone show it.                                *)
ClaimedInOrder ==
  \A o, p \in Orders : p < o /\ rows[o].nudged => ~IsAbandoned(rows[p])

OrderInv == IInv /\ AgesInOrder /\ ListsAreComplete /\ ClaimedInOrder

(* A statement that makes no order pending disturbs none of this.          *)
LEMMA UpdateOrderInv ==
  ASSUME OrderInv, IInv', NEW o \in Orders, NEW row, Update(o, row),
         Exists(row), row.nudged = rows[o].nudged,
         IsAbandoned(row) => IsAbandoned(rows[o])
  PROVE  OrderInv'
<1>1. /\ rows' = [rows EXCEPT ![o] = row] /\ rows \in [Orders -> Rows]
      /\ UNCHANGED <<aged, queue>>
      /\ aged \subseteq Orders
  BY DEF Update, OrderInv, IInv, TypeOK
<1>2. \A p \in Orders : /\ IsAbandoned(rows'[p]) => IsAbandoned(rows[p])
                        /\ rows'[p].nudged = rows[p].nudged
  BY <1>1
<1>3. AgesInOrder'
  BY <1>1, <1>2 DEF OrderInv, AgesInOrder
<1>4. ListsAreComplete' /\ ClaimedInOrder'
  BY <1>1, <1>2 DEF OrderInv, ListsAreComplete, ClaimedInOrder
<1>5. QED
  BY <1>3, <1>4 DEF OrderInv

(* A run claims the oldest order of its list, with a message or without:   *)
(* an older one that waits would be on the list.                           *)
LEMMA ClaimOrderInv ==
  ASSUME OrderInv, IInv', NEW j \in Runs, NEW o \in Orders, IsNext(o, queue[j]),
         CanClaimNudge(rows[o]),
         queue' = [queue EXCEPT ![j] = @ \ {o}],
         rows' = [rows EXCEPT ![o] = ClaimNudge(@)],
         UNCHANGED aged
  PROVE  OrderInv'
<1>1. /\ rows \in [Orders -> Rows] /\ queue \in [Runs -> SUBSET Orders]
      /\ aged \subseteq Orders
      /\ o \in Nat
  BY DEF OrderInv, IInv, TypeOK, Orders
<1>2. /\ Exists(rows'[o]) <=> Exists(rows[o])
      /\ ~IsAbandoned(rows'[o])
      /\ \A p \in Orders \ {o} : rows'[p] = rows[p]
  BY <1>1 DEF ClaimNudge, Rows, Exists, IsAbandoned
<1>3. o \in queue[j] /\ \A p \in queue[j] : o <= p
  BY DEF IsNext
<1>4. AgesInOrder'
  <2>1. o \in aged
    BY <1>3 DEF OrderInv, AgesInOrder
  <2>2. QED
    BY <1>1, <1>2, <2>1 DEF OrderInv, AgesInOrder
<1>5. ListsAreComplete'
  BY <1>1, <1>2 DEF OrderInv, ListsAreComplete
<1>6. \A p \in Orders : p < o => ~IsAbandoned(rows[p])
  <2> SUFFICES ASSUME NEW p \in Orders, p < o, IsAbandoned(rows[p])
               PROVE  FALSE
    OBVIOUS
  <2>1. p \in queue[j]
    BY <1>3 DEF OrderInv, ListsAreComplete
  <2>2. QED
    BY <1>1, <1>3, <2>1 DEF Orders
<1>7. ClaimedInOrder'
  BY <1>1, <1>2, <1>6 DEF OrderInv, ClaimedInOrder
<1>8. QED
  BY <1>4, <1>5, <1>7 DEF OrderInv

(* One step per action.                                                    *)
LEMMA NextOrderInv == OrderInv /\ [Next]_vars => OrderInv'
<1> SUFFICES ASSUME OrderInv, [Next]_vars
             PROVE  OrderInv'
  OBVIOUS
<1>0. /\ IInv'
      /\ rows \in [Orders -> Rows] /\ queue \in [Runs -> SUBSET Orders]
      /\ aged \subseteq Orders
  BY NextIInv DEF OrderInv, IInv, TypeOK
<1>1. ASSUME NEW j \in Runs, StartRun(j)
      PROVE  OrderInv'
  <2>1. /\ queue' = [queue EXCEPT ![j] = {o \in aged : IsAbandoned(rows[o])}]
        /\ UNCHANGED <<rows, aged>>
    BY <1>1 DEF StartRun, AbandonedOrders
  <2>2. AgesInOrder' /\ ClaimedInOrder'
    BY <1>0, <2>1 DEF OrderInv, AgesInOrder, ClaimedInOrder
  <2>3. ListsAreComplete'
    BY <1>0, <2>1 DEF OrderInv, ListsAreComplete, AgesInOrder
  <2>4. QED
    BY <1>0, <2>2, <2>3 DEF OrderInv
<1>2. ASSUME NEW j \in Runs, NudgeNext(j)
      PROVE  OrderInv'
  <2>1. PICK o \in Orders :
          /\ IsNext(o, queue[j])
          /\ queue' = [queue EXCEPT ![j] = @ \ {o}]
          /\ IF CanClaimNudge(rows[o])
               THEN rows' = [rows EXCEPT ![o] = ClaimNudge(@)]
               ELSE UNCHANGED rows
          /\ UNCHANGED aged
    BY <1>2 DEF NudgeNext
  <2>2. CASE CanClaimNudge(rows[o])
    BY <1>0, <2>1, <2>2, ClaimOrderInv
  <2>3. CASE ~CanClaimNudge(rows[o])
    <3>1. o \in aged
      BY <2>1 DEF OrderInv, AgesInOrder, IsNext
    <3>2. ~IsAbandoned(rows[o])
      BY <2>3, <3>1 DEF OrderInv, AgesInOrder, IsAbandoned, CanClaimNudge
    <3>3. AgesInOrder' /\ ClaimedInOrder'
      BY <1>0, <2>1, <2>3 DEF OrderInv, AgesInOrder, ClaimedInOrder
    <3>4. ListsAreComplete'
      BY <1>0, <2>1, <2>3, <3>2 DEF OrderInv, ListsAreComplete
    <3>5. QED
      BY <1>0, <3>3, <3>4 DEF OrderInv
  <2>4. QED
    BY <2>2, <2>3
<1>3. ASSUME NEW j \in Runs, ClaimAnswerLost(j)
      PROVE  OrderInv'
  BY <1>0, <1>3, ClaimOrderInv DEF ClaimAnswerLost
<1>4. ASSUME NEW j \in Runs, SendReturns(j) \/ Crash(j)
      PROVE  OrderInv'
  <2>1. /\ \A i \in Runs : queue'[i] = queue[i] \/ queue'[i] = {}
        /\ UNCHANGED <<rows, aged>>
    BY <1>0, <1>4 DEF SendReturns, Crash
  <2>2. AgesInOrder' /\ ListsAreComplete' /\ ClaimedInOrder'
    BY <2>1 DEF OrderInv, AgesInOrder, ListsAreComplete, ClaimedInOrder
  <2>3. QED
    BY <1>0, <2>2 DEF OrderInv
<1>5. ASSUME NEW o \in Orders, PlaceOrder(o)
      PROVE  OrderInv'
  <2>1. /\ rows' = [rows EXCEPT ![o] = InsertedRow] /\ ~Exists(rows[o])
        /\ UNCHANGED <<aged, queue>>
    BY <1>5 DEF PlaceOrder, Update, NoRow, Exists
  <2>2. o \notin aged /\ \A p \in aged : ~(o < p)
    BY <2>1 DEF OrderInv, AgesInOrder
  <2>3. /\ \A j \in Runs : \A p \in queue[j] : ~(o < p) /\ p # o
        /\ \A p \in Orders : o < p => ~rows[p].nudged
    BY <2>2 DEF OrderInv, AgesInOrder
  <2>4. Exists(InsertedRow)
    BY DEF Exists, InsertedRow, NoRow
  <2>5. AgesInOrder'
    BY <1>0, <2>1, <2>4, NewRows DEF OrderInv, AgesInOrder
  <2>6. ListsAreComplete' /\ ClaimedInOrder'
    BY <1>0, <2>1, <2>3, NewRows DEF OrderInv, ListsAreComplete, ClaimedInOrder
  <2>7. QED
    BY <1>0, <2>5, <2>6 DEF OrderInv
<1>6. ASSUME NEW o \in Orders, PaymentSucceeds(o) \/ PaymentFails(o) \/ Fulfil(o)
      PROVE  OrderInv'
  <2>1. \A row \in {MarkPaid(rows[o], 1), MarkFailed(rows[o]), MarkFulfilled(rows[o])} :
          Exists(row) /\ ~IsAbandoned(row) /\ row.nudged = rows[o].nudged
    BY <1>0 DEF Rows, MarkPaid, MarkFailed, MarkFulfilled, Exists, IsAbandoned
  <2>2. QED
    BY <1>0, <1>6, <2>1, UpdateOrderInv DEF PaymentSucceeds, PaymentFails, Fulfil
<1>7. ASSUME NEW o \in Orders, GrowOld(o)
      PROVE  OrderInv'
  <2>1. AgesInOrder' /\ ListsAreComplete' /\ ClaimedInOrder'
    BY <1>0, <1>7 DEF GrowOld, OrderInv, AgesInOrder, ListsAreComplete, ClaimedInOrder, Orders
  <2>2. QED
    BY <1>0, <2>1 DEF OrderInv
<1>8. CASE UNCHANGED vars
  BY <1>0, <1>8 DEF vars, OrderInv, AgesInOrder, ListsAreComplete, ClaimedInOrder
<1>9. QED
  BY <1>1, <1>2, <1>3, <1>4, <1>5, <1>6, <1>7, <1>8 DEF Next, RunStep

(* What the claims show carries over to the messages: whoever is being     *)
(* nudged or has been was claimed.                                         *)
LEMMA OrderInvOldestFirst == OrderInv => OldestFirst
<1> SUFFICES ASSUME OrderInv
             PROVE  OldestFirst
  OBVIOUS
<1>1. \A o \in Orders : nudges[o] > 0 => rows[o].nudged
  BY DEF OrderInv, IInv, TypeOK, NudgesRecorded
<1>2. \A j \in Runs : \A o \in Orders : sending[j] = o => rows[o].nudged
  BY DEF OrderInv, IInv, SendersClaimed, Orders, NoOrder
<1>3. QED
  BY <1>1, <1>2 DEF OrderInv, ClaimedInOrder, OldestFirst

(* For any backlog, any number of overlapping and dying runs and any lost  *)
(* answers, no order is nudged while an older one is still waiting.        *)
THEOREM OldestFirstAlways == Spec => []OldestFirst
<1>1. Init => OrderInv
  BY InitIInv DEF Init, OrderInv, AgesInOrder, ListsAreComplete, ClaimedInOrder, NoRow
<1>2. QED
  BY <1>1, NextOrderInv, OrderInvOldestFirst, PTL DEF Spec

-----------------------------------------------------------------------------
(* What faults cost.                                                       *)

PassedOverOrders == {o \in Orders : PassedOver(o)}

CostInv == IInv /\ IsFiniteSet(PassedOverOrders) /\ FaultsCostOneNudge

(* The count allows for one order more with each fault.                    *)
LEMMA CostCounts ==
  ASSUME CostInv, IInv', NEW S, IsFiniteSet(S), PassedOverOrders' \subseteq S,
         Cardinality(S) <= faults'
  PROVE  CostInv'
<1>1. IsFiniteSet(PassedOverOrders') /\ Cardinality(PassedOverOrders') <= Cardinality(S)
  BY FS_Subset
<1>2. /\ Cardinality(S) \in Nat /\ Cardinality(PassedOverOrders') \in Nat
      /\ faults' \in Nat
  BY <1>1, FS_CardinalityType, NudgeAssumption DEF IInv, TypeOK
<1>3. Cardinality(PassedOverOrders') <= faults'
  BY <1>1, <1>2
<1>4. QED
  BY <1>1, <1>3 DEF CostInv, PassedOverOrders, FaultsCostOneNudge

(* Nothing new is passed over.                                             *)
LEMMA NothingCost ==
  ASSUME CostInv, IInv', PassedOverOrders' \subseteq PassedOverOrders,
         faults' = faults
  PROVE  CostInv'
<1>1. IsFiniteSet(PassedOverOrders) /\ Cardinality(PassedOverOrders) <= faults'
  BY DEF CostInv, PassedOverOrders, FaultsCostOneNudge
<1>2. QED
  BY <1>1, CostCounts

(* A fault passes over one order, whichever.                               *)
LEMMA FaultCosts ==
  ASSUME CostInv, IInv', NEW o, PassedOverOrders' \subseteq PassedOverOrders \cup {o},
         faults' = faults + 1
  PROVE  CostInv'
<1> DEFINE S == PassedOverOrders \cup {o}
<1>1. IsFiniteSet(PassedOverOrders) /\ Cardinality(PassedOverOrders) <= faults
  BY DEF CostInv, PassedOverOrders, FaultsCostOneNudge
<1>2. Cardinality(PassedOverOrders) \in Nat /\ faults \in Nat
  BY <1>1, FS_CardinalityType, NudgeAssumption DEF CostInv, IInv, TypeOK
<1>3. IsFiniteSet(S) /\ Cardinality(S) <= Cardinality(PassedOverOrders) + 1
  BY <1>1, <1>2, FS_AddElement
<1>4. Cardinality(S) \in Nat
  BY <1>3, FS_CardinalityType
<1>5. Cardinality(S) <= faults'
  BY <1>1, <1>2, <1>3, <1>4
<1> HIDE DEF S
<1>6. PassedOverOrders' \subseteq S
  BY DEF S
<1>7. QED
  BY <1>3, <1>5, <1>6, CostCounts

(* One step per action: only a lost answer and a death during a send cost  *)
(* a nudge.                                                                *)
LEMMA NextCostInv == CostInv /\ [Next]_vars => CostInv'
<1> SUFFICES ASSUME CostInv, [Next]_vars
             PROVE  CostInv'
  OBVIOUS
<1>0. /\ IInv'
      /\ rows \in [Orders -> Rows] /\ nudges \in [Orders -> Nat]
      /\ sending \in [Runs -> Orders \cup {NoOrder}]
  BY NextIInv DEF CostInv, IInv, TypeOK
<1>1. ASSUME NEW j \in Runs, NudgeNext(j)
      PROVE  CostInv'
  <2>1. PICK o \in Orders :
          /\ \/ UNCHANGED <<rows, sending>>
             \/ /\ rows' = [rows EXCEPT ![o] = ClaimNudge(@)]
                /\ sending' = [sending EXCEPT ![j] = o]
          /\ sending[j] = NoOrder
          /\ UNCHANGED <<nudges, faults>>
    BY <1>1 DEF NudgeNext
  <2>2. \A p \in Orders : PassedOver(p)' => PassedOver(p)
    <3>1. CASE UNCHANGED <<rows, sending>>
      BY <2>1, <3>1 DEF PassedOver
    <3>2. CASE rows' = [rows EXCEPT ![o] = ClaimNudge(@)] /\ sending' = [sending EXCEPT ![j] = o]
      <4>1. ~PassedOver(o)'
        BY <1>0, <3>2 DEF PassedOver
      <4>2. ASSUME NEW p \in Orders, p # o, PassedOver(p)'
            PROVE  PassedOver(p)
        <5>1. rows'[p] = rows[p] /\ nudges'[p] = nudges[p]
          BY <1>0, <2>1, <3>2, <4>2
        <5>2. \A i \in Runs : i # j => sending'[i] = sending[i]
          BY <1>0, <3>2
        <5>3. sending[j] # p
          BY <2>1 DEF NoOrder, Orders
        <5>4. QED
          BY <4>2, <5>1, <5>2, <5>3 DEF PassedOver
      <4>3. QED
        BY <4>1, <4>2
    <3>3. QED
      BY <2>1, <3>1, <3>2
  <2>3. QED
    BY <1>0, <2>1, <2>2, NothingCost DEF PassedOverOrders
<1>2. ASSUME NEW j \in Runs, ClaimAnswerLost(j)
      PROVE  CostInv'
  <2>1. PICK o \in Orders : /\ rows' = [rows EXCEPT ![o] = ClaimNudge(@)]
                            /\ UNCHANGED <<sending, nudges>>
                            /\ faults' = faults + 1
    BY <1>2 DEF ClaimAnswerLost
  <2>2. \A p \in Orders : PassedOver(p)' => PassedOver(p) \/ p = o
    BY <1>0, <2>1 DEF PassedOver
  <2>3. QED
    BY <1>0, <2>1, <2>2, FaultCosts DEF PassedOverOrders
<1>3. ASSUME NEW j \in Runs, SendReturns(j)
      PROVE  CostInv'
  <2>1. /\ sending[j] \in Orders
        /\ nudges' = [nudges EXCEPT ![sending[j]] = @ + 1]
        /\ sending' = [sending EXCEPT ![j] = NoOrder]
        /\ UNCHANGED <<rows, faults>>
    BY <1>0, <1>3 DEF SendReturns
  <2>2. \A p \in Orders : PassedOver(p)' => PassedOver(p)
    BY <1>0, <2>1 DEF PassedOver
  <2>3. QED
    BY <1>0, <2>1, <2>2, NothingCost DEF PassedOverOrders
<1>4. ASSUME NEW j \in Runs, Crash(j)
      PROVE  CostInv'
  <2>1. /\ \/ UNCHANGED nudges
           \/ /\ sending[j] \in Orders
              /\ nudges' = [nudges EXCEPT ![sending[j]] = @ + 1]
        /\ sending' = [sending EXCEPT ![j] = NoOrder]
        /\ UNCHANGED rows
        /\ faults' = faults + 1
    BY <1>0, <1>4 DEF Crash
  <2>2. \A p \in Orders : PassedOver(p)' => PassedOver(p) \/ p = sending[j]
    BY <1>0, <2>1 DEF PassedOver
  <2>3. QED
    BY <1>0, <2>1, <2>2, FaultCosts DEF PassedOverOrders
<1>5. ASSUME NEW o \in Orders, NEW row, Update(o, row), row.nudged = rows[o].nudged
      PROVE  CostInv'
  <2>1. /\ \A p \in Orders : rows'[p].nudged = rows[p].nudged
        /\ UNCHANGED <<sending, nudges, faults>>
    BY <1>0, <1>5 DEF Update
  <2>2. \A p \in Orders : PassedOver(p)' => PassedOver(p)
    BY <2>1 DEF PassedOver
  <2>3. QED
    BY <1>0, <2>1, <2>2, NothingCost DEF PassedOverOrders
<1>6. ASSUME NEW o \in Orders,
             PlaceOrder(o) \/ PaymentSucceeds(o) \/ PaymentFails(o) \/ Fulfil(o)
      PROVE  CostInv'
  <2>1. rows[o] \in Rows
    BY <1>0
  <2>2. \E row : Update(o, row) /\ row.nudged = rows[o].nudged
    BY <1>6, <2>1, RowFacts, NewRows
       DEF PlaceOrder, PaymentSucceeds, PaymentFails, Fulfil
  <2>3. QED
    BY <1>5, <2>2
<1>7. CASE UNCHANGED <<rows, sending, nudges, faults>>
  <2>1. \A p \in Orders : PassedOver(p)' => PassedOver(p)
    BY <1>7 DEF PassedOver
  <2>2. QED
    BY <1>0, <1>7, <2>1, NothingCost DEF PassedOverOrders
<1>8. QED
  BY <1>1, <1>2, <1>3, <1>4, <1>6, <1>7 DEF Next, RunStep, vars, StartRun, GrowOld

(* However long the lists and however many runs overlap, die or lose an    *)
(* answer: no more orders lose their nudge than there were faults.         *)
THEOREM FaultsCostOneNudgeAlways == Spec => []FaultsCostOneNudge
<1>1. Init => CostInv
  <2> SUFFICES ASSUME Init
               PROVE  CostInv
    OBVIOUS
  <2>1. PassedOverOrders = {}
    BY DEF Init, PassedOverOrders, PassedOver, NoRow
  <2>2. QED
    BY <2>1, InitIInv, FS_EmptySet DEF Init, CostInv, PassedOverOrders, FaultsCostOneNudge
<1>2. CostInv => FaultsCostOneNudge
  BY DEF CostInv
<1>3. QED
  BY <1>1, <1>2, NextCostInv, PTL DEF Spec
=============================================================================
