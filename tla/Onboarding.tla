------------------------------ MODULE Onboarding ------------------------------
(***************************************************************************)
(* How tenants and products come into being: the operator's onboarding     *)
(* wizard (admin/onboarding_wizard.py) and the merchant's "new product"    *)
(* form and CSV import (portal/products.py).  All of them end in a loop of *)
(* create_product, whose INSERT and whose UPDATE of the new row are two    *)
(* autocommitted statements.  No handler awaits between them, so it takes  *)
(* two processes (a deployment that takes over from another one) to get in *)
(* between; requests interleave here as theirs would.                      *)
(*                                                                         *)
(* A request may die between two statements, and db/connection.py runs a   *)
(* statement whose answer it lost a second time.  Validation of the forms  *)
(* happens before the first statement and is left out: a request here is   *)
(* one that passed it.                                                     *)
(***************************************************************************)
EXTENDS ProductRows

CONSTANTS Requests,      \* requests that may run at the same time
          MaxItems,      \* bound: products in one request
          NewStock       \* the stock a new product is entered with

ASSUME OnboardingAssumption ==
  /\ IsFiniteSet(Requests)
  /\ MaxItems \in Nat
  /\ NewStock \in Nat

VARIABLES tenants,     \* the tenants table
          request,     \* the requests under way
          confirmed,   \* products whose entry was confirmed (history)
          faults       \* requests that died and answers that were lost so far

onboardingVars == <<tenants, request, confirmed, faults>>

(* pc: the next statement.  left: products not yet entered.  last: the id  *)
(* the INSERT returned.  made: the ids of this request.  retry: the next   *)
(* statement has been sent before, and its answer was lost.                *)
RequestStates ==
  [pc : {"idle", "tenant", "insert", "assign"}, tenant : Tenants \cup {NoTenant},
   left : 0 .. MaxItems, last : Ids \cup {0}, made : SUBSET Ids, retry : BOOLEAN]

NoRequest == [pc |-> "idle", tenant |-> NoTenant, left |-> 0, last |-> 0,
              made |-> {}, retry |-> FALSE]

OnboardingInit ==
  /\ products = NoProducts
  /\ tenants = {}
  /\ request = [r \in Requests |-> NoRequest]
  /\ confirmed = {}
  /\ faults = 0

Start(r, pc, t, n) ==
  /\ request[r] = NoRequest
  /\ Event
  /\ request' = [request EXCEPT ![r] =
       [NoRequest EXCEPT !.pc = pc, !.tenant = t, !.left = n]]
  /\ UNCHANGED <<products, tenants, confirmed, faults>>

(* onboard_tenant_wizard_submit.                                           *)
StartWizard(r, t) == \E n \in 0 .. MaxItems : Start(r, "tenant", t, n)

(* product_new_submit (one product) and products_import_submit.            *)
StartImport(r, t) == t \in tenants /\ \E n \in 1 .. MaxItems : Start(r, "insert", t, n)

(* The request goes on with its next product, or answers that all of them  *)
(* are there.                                                              *)
GoOn(r, next) ==
  IF next.left > 0
    THEN /\ request' = [request EXCEPT ![r] = [next EXCEPT !.pc = "insert", !.retry = FALSE]]
         /\ UNCHANGED confirmed
    ELSE /\ request' = [request EXCEPT ![r] = NoRequest]
         /\ confirmed' = confirmed \cup next.made

(* create_tenant: whatsapp_phone_number_id is UNIQUE, and the wizard turns *)
(* the IntegrityError into "already exists".                               *)
CreateTenant(r) ==
  LET t == request[r].tenant IN
  /\ request[r].pc = "tenant"
  /\ IF t \in tenants
       THEN /\ request' = [request EXCEPT ![r] = NoRequest]
            /\ UNCHANGED <<tenants, confirmed>>
       ELSE /\ tenants' = tenants \cup {t}
            /\ GoOn(r, request[r])
  /\ UNCHANGED <<products, faults, events>>

InsertProductUnnamed(r) ==
  /\ request[r].pc = "insert"
  /\ \E p \in Ids : Insert(p, request[r].tenant, NewStock)
  /\ GoOn(r, [request[r] EXCEPT !.left = @ - 1])
  /\ UNCHANGED <<tenants, faults, events>>
InsertProduct(r) ==
  /\ request[r].pc = "insert"
  /\ \E p \in Ids :
       /\ Insert(p, request[r].tenant, NewStock)
       /\ request' = [request EXCEPT ![r] =
            [request[r] EXCEPT !.pc = "assign", !.last = p, !.made = @ \cup {p}, !.retry = FALSE]]
  /\ UNCHANGED <<tenants, confirmed, faults, events>>

AssignId(r) ==
  /\ request[r].pc = "assign"
  /\ AssignRetailerId(request[r].tenant, request[r].last)
  /\ GoOn(r, [request[r] EXCEPT !.left = @ - 1])
  /\ UNCHANGED <<tenants, faults, events>>

-----------------------------------------------------------------------------
(* Faults.                                                                 *)

(* execute's except branch: the server ran the statement, the connection   *)
(* was lost with the answer, and the same statement runs again; a second   *)
(* loss is raised.                                                         *)
LoseAnswer(r) ==
  /\ request[r].pc # "idle" /\ ~request[r].retry
  /\ Event
  /\ faults' = faults + 1
  /\ request' = [request EXCEPT ![r].retry = TRUE]
  /\ CASE request[r].pc = "tenant" ->
            tenants' = tenants \cup {request[r].tenant} /\ UNCHANGED products
       [] request[r].pc = "insert" ->
            /\ \E p \in Ids : Insert(p, request[r].tenant, NewStock)
            /\ UNCHANGED tenants
       [] request[r].pc = "assign" ->
            /\ AssignRetailerId(request[r].tenant, request[r].last)
            /\ UNCHANGED tenants
  /\ UNCHANGED confirmed

(* The process dies, or a statement raises: a row the table rejects, or a  *)
(* database that is gone.  Nothing is rolled back.                         *)
Die(r) ==
  /\ request[r].pc # "idle"
  /\ Event
  /\ faults' = faults + 1
  /\ request' = [request EXCEPT ![r] = NoRequest]
  /\ UNCHANGED <<products, tenants, confirmed>>

OnboardingNext == \E r \in Requests :
  \/ \E t \in Tenants : StartWizard(r, t) \/ StartImport(r, t)
  \/ CreateTenant(r) \/ InsertProduct(r) \/ AssignId(r)
  \/ LoseAnswer(r) \/ Die(r)
=============================================================================
