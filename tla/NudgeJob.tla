------------------------------ MODULE NudgeJob ------------------------------
(***************************************************************************)
(* The abandoned-cart nudges (reminders/scheduler.py, triggered by an      *)
(* external cron job through core/main.py): a run reads the abandoned      *)
(* orders once, then claims and messages them one after the other.  Every  *)
(* message is awaited, so payments, failures, new links and overlapping    *)
(* runs come in between; in a deployment of several processes they do so   *)
(* between any two statements.                                             *)
(*                                                                         *)
(* The rest of the system appears as the statements it may run on a row    *)
(* (OrderRows), without the handlers around them: a superset of what       *)
(* OrderLifecycle does to the orders.  The runs serve one tenant.          *)
(***************************************************************************)
EXTENDS OrderRows, FiniteSets

CONSTANTS OrderCount,   \* orders are 1 .. OrderCount, in order of created_at
          Runs,         \* runs of the job that may overlap
          MaxFaults     \* bound on runs that die and answers that are lost

ASSUME NudgeAssumption ==
  /\ OrderCount \in Nat
  /\ MaxFaults \in Nat

VARIABLES rows,     \* the orders table
          aged,     \* orders older than abandoned_cart_nudge_hours
          queue,    \* queue[j]: the orders left on run j's list, which is in order
          sending,  \* sending[j]: the order whose nudge run j awaits, or 0
          nudges,   \* nudges[o]: messages that went out to o's customer (history)
          faults

vars == <<rows, aged, queue, sending, nudges, faults>>

Orders == 1 .. OrderCount
NoOrder == 0

(* A run that is not under way has nothing queued and awaits nothing.      *)
Resting(j) == queue[j] = {} /\ sending[j] = NoOrder

Init ==
  /\ rows = [o \in Orders |-> NoRow]
  /\ aged = {}
  /\ queue = [j \in Runs |-> {}]
  /\ sending = [j \in Runs |-> NoOrder]
  /\ nudges = [o \in Orders |-> 0]
  /\ faults = 0

-----------------------------------------------------------------------------
(* get_abandoned_orders: the rows as they are now, oldest first.  As in    *)
(* OrderRows a longer name is a way to get a definition wrong, for the     *)
(* runs to reject.                                                         *)
AbandonedOrdersTooYoung == {o \in Orders \ aged : IsAbandoned(rows[o])}
AbandonedOrdersAnyStatus == {o \in aged : Exists(rows[o]) /\ ~rows[o].nudged}
AbandonedOrders == {o \in aged : IsAbandoned(rows[o])}

IsNextNewest(o, list) == o \in list /\ \A p \in list : p <= o
IsNext(o, list) == o \in list /\ \A p \in list : o <= p

(* A run begins: the list is read once.                                    *)
StartRunClaimingAll(j) ==
  /\ Resting(j)
  /\ queue' = [queue EXCEPT ![j] = AbandonedOrders]
  /\ rows' = [o \in Orders |->
                IF o \in AbandonedOrders THEN ClaimNudge(rows[o]) ELSE rows[o]]
  /\ UNCHANGED <<aged, sending, nudges, faults>>
StartRun(j) ==
  /\ Resting(j)
  /\ queue' = [queue EXCEPT ![j] = AbandonedOrders]
  /\ UNCHANGED <<rows, aged, sending, nudges, faults>>

(* One turn of the loop up to the await: mark_nudge_sent, and the call of  *)
(* send_text when this run won the claim.                                  *)
NudgeNext(j) ==
  /\ sending[j] = NoOrder
  /\ \E o \in Orders :
       /\ IsNext(o, queue[j])
       /\ queue' = [queue EXCEPT ![j] = @ \ {o}]
       /\ IF CanClaimNudge(rows[o])
            THEN /\ rows' = [rows EXCEPT ![o] = ClaimNudge(@)]
                 /\ sending' = [sending EXCEPT ![j] = o]
            ELSE UNCHANGED <<rows, sending>>
  /\ UNCHANGED <<aged, nudges, faults>>

(* The connection closes under mark_nudge_sent after the row was written:  *)
(* execute runs the statement again on a new connection, it matches        *)
(* nothing, and the run takes the order for one that another run claimed.  *)
ClaimAnswerLost(j) ==
  /\ sending[j] = NoOrder
  /\ faults < MaxFaults
  /\ faults' = faults + 1
  /\ \E o \in Orders :
       /\ IsNext(o, queue[j])
       /\ CanClaimNudge(rows[o])
       /\ queue' = [queue EXCEPT ![j] = @ \ {o}]
       /\ rows' = [rows EXCEPT ![o] = ClaimNudge(@)]
  /\ UNCHANGED <<aged, sending, nudges>>

(* The awaited send returns.  It counts as a nudge whatever WhatsApp       *)
(* answered: send_text logs a refusal and the job forgets it.              *)
SendReturns(j) ==
  /\ sending[j] # NoOrder
  /\ nudges' = [nudges EXCEPT ![sending[j]] = @ + 1]
  /\ sending' = [sending EXCEPT ![j] = NoOrder]
  /\ UNCHANGED <<rows, aged, queue, faults>>

(* The process restarts under a run: the rest of its list is gone, and the *)
(* message it was about, if any, had gone out or had not.                  *)
Crash(j) ==
  /\ ~Resting(j)
  /\ faults < MaxFaults
  /\ faults' = faults + 1
  /\ queue' = [queue EXCEPT ![j] = {}]
  /\ sending' = [sending EXCEPT ![j] = NoOrder]
  /\ \/ UNCHANGED nudges
     \/ sending[j] # NoOrder /\ nudges' = [nudges EXCEPT ![sending[j]] = @ + 1]
  /\ UNCHANGED <<rows, aged>>

-----------------------------------------------------------------------------
(* The other users of the orders table.                                    *)

Update(o, row) ==
  /\ rows' = [rows EXCEPT ![o] = row]
  /\ UNCHANGED <<aged, queue, sending, nudges, faults>>

PlaceOrder(o) == rows[o] = NoRow /\ (o > 1 => Exists(rows[o - 1])) /\ Update(o, InsertedRow)

PaymentSucceeds(o) == CanMarkPaid(rows[o]) /\ Update(o, MarkPaid(rows[o], 1))

PaymentFails(o) == CanMarkFailed(rows[o]) /\ Update(o, MarkFailed(rows[o]))

Fulfil(o) == CanMarkFulfilled(rows[o]) /\ Update(o, MarkFulfilled(rows[o]))

(* abandoned_cart_nudge_hours pass; an older order is there at least as    *)
(* long.                                                                   *)
GrowOld(o) ==
  /\ Exists(rows[o])
  /\ o \notin aged
  /\ \A p \in Orders : p < o => p \in aged
  /\ aged' = aged \cup {o}
  /\ UNCHANGED <<rows, queue, sending, nudges, faults>>

-----------------------------------------------------------------------------
RunStep(j) == NudgeNext(j) \/ SendReturns(j)

Next ==
  \/ \E j \in Runs : StartRun(j) \/ RunStep(j) \/ ClaimAnswerLost(j) \/ Crash(j)
  \/ \E o \in Orders :
       PlaceOrder(o) \/ PaymentSucceeds(o) \/ PaymentFails(o) \/ Fulfil(o) \/ GrowOld(o)

Spec == Init /\ [][Next]_vars

(* Cron keeps calling the endpoint, and a run goes on unless it dies.      *)
FairSpec == Spec /\ \A j \in Runs : WF_vars(StartRun(j)) /\ WF_vars(RunStep(j))

-----------------------------------------------------------------------------
TypeOK ==
  /\ rows \in [Orders -> Rows]
  /\ aged \subseteq Orders
  /\ queue \in [Runs -> SUBSET Orders]
  /\ sending \in [Runs -> Orders \cup {NoOrder}]
  /\ nudges \in [Orders -> Nat]
  /\ faults \in 0 .. MaxFaults

(* Overlapping runs, restarted runs and runs that start again never send a *)
(* customer a second nudge for an order, and never two runs hold one.      *)
NudgedAtMostOnce ==
  /\ \A o \in Orders : nudges[o] <= 1
  /\ \A i, j \in Runs : sending[i] = sending[j] /\ sending[i] # NoOrder => i = j

(* A backlog is worked through oldest first: once an order is being nudged *)
(* or has been, no older one is still waiting for its turn, even if        *)
(* another run started in between or a run died over its list.             *)
OldestFirst ==
  \A o, p \in Orders :
    p < o /\ (nudges[o] > 0 \/ \E j \in Runs : sending[j] = o) => ~IsAbandoned(rows[p])

(* The runs that hold o, on their list or as the message they await.       *)
Holds(j, o) == o \in queue[j] \/ sending[j] = o

(* Only the runs under way when an order is paid, fails or is fulfilled    *)
(* can still ask its customer to pay: once none of them holds it, it stays *)
(* off every list and is never nudged again, whatever events arrive late   *)
(* and whenever new runs start.                                            *)
SettledIsLeftAlone ==
  [][\A o \in Orders :
       /\ rows[o].status \notin {"absent", "pending_payment"}
       /\ \A j \in Runs : ~Holds(j, o)
       => /\ rows'[o].status \notin {"absent", "pending_payment"}
          /\ \A j \in Runs : ~Holds(j, o)'
          /\ nudges'[o] = nudges[o]]_vars

(* An order that was claimed and whose message never went out nor will: a  *)
(* run died between mark_nudge_sent and the send, or lost the claim's      *)
(* answer.  nudge_sent_at is set, so no later run looks at it again.       *)
PassedOver(o) ==
  rows[o].nudged /\ nudges[o] = 0 /\ \A j \in Runs : sending[j] # o

(* Claiming before sending costs a nudge when a run dies in between, but   *)
(* never more than one: however long the lists of the runs that die are    *)
(* and however they overlap, the orders whose nudge is lost are no more    *)
(* than the deaths and lost answers.                                       *)
FaultsCostOneNudge == Cardinality({o \in Orders : PassedOver(o)}) <= faults

(* An order that stays unpaid long enough gets its message, although runs  *)
(* overlap and die, unless it is paid, fails or is fulfilled first or is   *)
(* one of those few that a fault has cost their nudge.                     *)
AbandonedIsNudged ==
  \A o \in Orders :
    o \in aged /\ IsAbandoned(rows[o]) ~>
      nudges[o] > 0 \/ rows[o].status # "pending_payment" \/ PassedOver(o)
=============================================================================
