--------------------------- MODULE MerchantProofs ---------------------------
(***************************************************************************)
(* Theorems about Merchant, for any tenants, customers, pages and          *)
(* concurrent requests, and any bounds.                                    *)
(***************************************************************************)
EXTENDS Merchant, FiniteSetTheorems, TLAPS

-----------------------------------------------------------------------------
(* The inductive invariant.                                                *)

Named(p) == products[p].retailer # NoRetailerId

(* A retailer id is that of its own row, which a tenant owns.              *)
NamesRight ==
  \A p \in Ids : Named(p) =>
    /\ products[p].tenant \in Tenants
    /\ products[p].retailer = RetailerIdOf(products[p].tenant, p)

(* A request works for a tenant that exists, on rows of that tenant, and   *)
(* every row it made has its id but the one it is about to name.           *)
RequestRight(r) ==
  LET q == request[r] IN
  /\ q.pc # "idle" => q.tenant \in Tenants
  /\ q.pc \in {"insert", "assign"} => q.tenant \in tenants /\ q.left > 0
  /\ q.pc = "assign" => q.last \in Ids /\ products[q.last].tenant = q.tenant
  /\ q.pc \in {"idle", "tenant"} => q.made = {}
  /\ \A p \in q.made : /\ products[p].tenant = q.tenant
                       /\ Named(p) \/ (q.pc = "assign" /\ p = q.last)

RequestsRight == \A r \in Requests : RequestRight(r)

ConfirmedRight == \A p \in confirmed : products[p].tenant \in tenants /\ Named(p)

(* Every id in Meta's catalog or in a basket names a row of the tenant.    *)
Names(t, i) == \E p \in Ids : Named(p) /\ products[p].tenant = t /\ products[p].retailer = i

CatalogsRight == \A t \in Tenants : \A i \in catalog[t] : Names(t, i)
BasketsRight == \A c \in Customers : \A i \in RetailerIds :
  customer[c].basket[i] > 0 => Names(customer[c].tenant, i)

(* What a form shows was backed when it was loaded, and still is.          *)
Supply(p) == NewStock + supplied[p] + unseen[p]
FormRight(g) ==
  page[g] # NoForm =>
    /\ page[g].product \in Known
    /\ page[g].sold <= sold[page[g].product]
    /\ page[g].shown + page[g].sold <= Supply(page[g].product)
FormsRight == \A g \in Pages : FormRight(g)

OnlyKnownSold == \A p \in Ids \ Known : sold[p] = 0

IInv == /\ TypeOK /\ NamesRight /\ RequestsRight /\ ConfirmedRight
        /\ CatalogsRight /\ BasketsRight
        /\ FormsRight /\ OnlyKnownSold /\ StockBacked

-----------------------------------------------------------------------------
(* What the statements do to the table.                                    *)

(* Rows stay their tenant's, and ids are never changed or taken away.      *)
NamesStay ==
  \A p \in Ids : /\ p \in Known => products'[p].tenant = products[p].tenant
                 /\ Named(p) => products'[p].retailer = products[p].retailer

(* No statement of a request touches the stock of a row that is there.     *)
StockStays ==
  \A p \in Ids : products'[p].stock =
    IF p \in Known \/ p \notin Known' THEN products[p].stock ELSE NewStock

LEMMA RetailerIdFacts ==
  ASSUME NEW t \in Tenants, NEW p \in Ids
  PROVE  /\ RetailerIdOf(t, p) \in RetailerIds
         /\ RetailerIdOf(t, p) # NoRetailerId
BY ProductAssumption DEF RetailerIdOf, RetailerIds, NoRetailerId

(* An id determines its tenant and its row.                                *)
LEMMA RetailerIdInjective ==
  ASSUME NEW t \in Tenants, NEW p \in Ids, NEW u \in Tenants, NEW q \in Ids,
         RetailerIdOf(t, p) = RetailerIdOf(u, q)
  PROVE  t = u /\ p = q
BY DEF RetailerIdOf

(* A named row is in the table.                                            *)
LEMMA NamedIsKnown ==
  ASSUME NamesRight, NEW p \in Ids, Named(p)
  PROVE  p \in Known
BY ProductAssumption DEF NamesRight, Known

LEMMA InsertFacts ==
  ASSUME TypeOK, NamesRight, NEW t \in Tenants, NEW p \in Ids, Insert(p, t, NewStock)
  PROVE  /\ products' \in [Ids -> Products]
         /\ NamesRight' /\ NamesStay /\ StockStays
         /\ p \notin Known /\ Known' = Known \cup {p}
         /\ products'[p].tenant = t
<1>0. products \in [Ids -> Products] /\ NoRetailerId \in RetailerIds /\ NewStock \in Nat
  BY OnboardingAssumption DEF TypeOK, RetailerIds
<1>1. p \notin Known /\ products[p].tenant = NoTenant
  BY DEF Insert, IsNextId, Known
<1>2. /\ products'[p] = [tenant |-> t, retailer |-> NoRetailerId, active |-> TRUE, stock |-> NewStock]
      /\ \A q \in Ids : q # p => products'[q] = products[q]
  BY <1>0 DEF Insert
<1>3. products' \in [Ids -> Products]
  BY <1>0 DEF Insert, Products
<1>4. ~Named(p)
  BY <1>1, NamedIsKnown
<1>5. NamesRight'
  BY <1>2 DEF NamesRight, Named
<1>6. NamesStay
  BY <1>1, <1>2, <1>4 DEF NamesStay, Named
<1>7. Known' = Known \cup {p}
  BY <1>2, ProductAssumption DEF Known
<1>8. StockStays
  BY <1>1, <1>2, <1>7 DEF StockStays
<1>9. QED
  BY <1>1, <1>2, <1>3, <1>5, <1>6, <1>7, <1>8

LEMMA AssignFacts ==
  ASSUME TypeOK, NamesRight, NEW t \in Tenants, NEW p \in Ids, products[p].tenant = t,
         AssignRetailerId(t, p)
  PROVE  /\ products' \in [Ids -> Products]
         /\ NamesRight' /\ NamesStay /\ StockStays
         /\ Known' = Known /\ Named(p)'
<1>0. products \in [Ids -> Products] /\ products[p] \in Products
  BY DEF TypeOK
<1>1. RetailerIdOf(t, p) \in RetailerIds /\ RetailerIdOf(t, p) # NoRetailerId
  BY RetailerIdFacts
<1>2. /\ products'[p].retailer = RetailerIdOf(t, p)
      /\ products'[p].tenant = t /\ products'[p].stock = products[p].stock
      /\ \A q \in Ids : q # p => products'[q] = products[q]
  BY <1>0 DEF AssignRetailerId, Products
<1>3. products' \in [Ids -> Products]
  BY <1>0, <1>1 DEF AssignRetailerId, Products
<1>4. NamesRight' /\ Named(p)'
  BY <1>1, <1>2 DEF NamesRight, Named
<1>5. NamesStay
  BY <1>2 DEF NamesStay, Named, NamesRight
<1>6. Known' = Known
  BY <1>2 DEF Known
<1>7. StockStays
  BY <1>2, <1>6 DEF StockStays
<1>8. QED
  BY <1>3, <1>4, <1>5, <1>6, <1>7

-----------------------------------------------------------------------------
(* What follows when no row loses its name.                                *)

LEMMA NamedStays ==
  ASSUME NamesRight, NamesStay, NEW p \in Ids, Named(p)
  PROVE  Named(p)' /\ products'[p].tenant = products[p].tenant
BY NamedIsKnown DEF NamesStay, Named

LEMMA NamesStayTrue ==
  ASSUME NamesRight, NamesStay, NEW t, NEW i, Names(t, i)
  PROVE  Names(t, i)'
BY NamedStays DEF Names, NamesStay

(* The requests that do not move, and what was confirmed before.           *)
LEMMA RequestStays ==
  ASSUME TypeOK, NamesRight, NamesStay, tenants \subseteq tenants',
         NEW r \in Requests, RequestRight(r), request'[r] = request[r]
  PROVE  RequestRight(r)'
<1>1. request[r].made \subseteq Ids
  BY DEF TypeOK, RequestStates
<1>2. \A p \in Ids : products[p].tenant \in Tenants => products'[p].tenant = products[p].tenant
  BY ProductAssumption DEF NamesStay, Known
<1>3. \A p \in Ids : Named(p) => Named(p)'
  BY NamedStays
<1>4. request[r].made # {} => request[r].tenant \in Tenants
  BY DEF RequestRight, TypeOK, RequestStates
<1>5. QED
  BY <1>1, <1>2, <1>3, <1>4 DEF RequestRight

LEMMA ConfirmedStays ==
  ASSUME TypeOK, NamesRight, NamesStay, tenants \subseteq tenants', ConfirmedRight
  PROVE  \A p \in confirmed : products'[p].tenant \in tenants' /\ Named(p)'
BY NamedStays DEF ConfirmedRight, TypeOK

(* Everything about carts, feeds and forms survives the step of a request. *)
LEMMA ListingStays ==
  ASSUME IInv, NamesStay, StockStays, Known \subseteq Known', UNCHANGED listingVars
  PROVE  /\ CatalogsRight' /\ BasketsRight'
         /\ FormsRight' /\ OnlyKnownSold' /\ StockBacked'
<1>1. CatalogsRight'
  BY NamesStayTrue DEF IInv, CatalogsRight, listingVars
<1>2. BasketsRight'
  BY NamesStayTrue DEF IInv, BasketsRight, listingVars
<1>3. FormsRight'
  BY DEF IInv, FormsRight, FormRight, Supply, listingVars
<1>4. OnlyKnownSold'
  BY DEF IInv, OnlyKnownSold, listingVars
<1>5. StockBacked'
  <2> SUFFICES ASSUME NEW p \in Known'
               PROVE  products'[p].stock + sold[p] <= NewStock + supplied[p] + unseen[p]
    BY DEF StockBacked, listingVars
  <2>0. /\ p \in Ids /\ products[p].stock \in Nat
        /\ sold[p] \in Nat /\ supplied[p] \in Nat /\ unseen[p] \in Nat /\ NewStock \in Nat
    BY OnboardingAssumption DEF Known, IInv, TypeOK, Products
  <2>1. CASE p \in Known
    BY <2>0, <2>1 DEF IInv, StockBacked, StockStays
  <2>2. CASE p \notin Known
    <3>1. products'[p].stock = NewStock /\ sold[p] = 0
      BY <2>0, <2>2 DEF StockStays, IInv, OnlyKnownSold
    <3>2. QED
      BY <2>0, <3>1
  <2>3. QED
    BY <2>1, <2>2
<1>6. QED
  BY <1>1, <1>2, <1>3, <1>4, <1>5

-----------------------------------------------------------------------------
(* The steps of a request.                                                 *)

(* What a request's step has to show: the rest of IInv follows.            *)
RequestStep == /\ TypeOK' /\ NamesRight' /\ RequestsRight' /\ ConfirmedRight'
               /\ NamesStay /\ StockStays /\ Known \subseteq Known'

LEMMA RequestStepIInv ==
  ASSUME IInv, RequestStep, UNCHANGED listingVars
  PROVE  IInv'
BY ListingStays DEF IInv, RequestStep

(* A step that leaves the table alone.                                     *)
LEMMA TableStays ==
  ASSUME UNCHANGED products, NamesRight
  PROVE  NamesRight' /\ NamesStay /\ StockStays /\ Known' = Known
<1>1. Known' = Known
  BY DEF Known
<1>2. QED
  BY <1>1 DEF NamesRight, Named, NamesStay, StockStays

(* A request that has just ended, or has not begun, holds nothing.         *)
LEMMA IdleRight ==
  ASSUME NEW r \in Requests, request[r] = NoRequest
  PROVE  RequestRight(r)
BY DEF NoRequest, RequestRight

LEMMA NoRequestType == NoRequest \in RequestStates
BY OnboardingAssumption DEF NoRequest, RequestStates

LEMMA StartStep ==
  ASSUME IInv, NEW r \in Requests, NEW t \in Tenants, UNCHANGED listingVars,
         StartWizard(r, t) \/ StartImport(r, t)
  PROVE  RequestStep
<1>1. PICK pc \in {"tenant", "insert"}, n \in 0 .. MaxItems :
        Start(r, pc, t, n) /\ (pc = "insert" => t \in tenants /\ n > 0)
  BY OnboardingAssumption DEF StartWizard, StartImport
<1>2. NamesRight' /\ NamesStay /\ StockStays /\ Known' = Known
  BY <1>1, TableStays DEF Start, IInv
<1>3. /\ request'[r] = [NoRequest EXCEPT !.pc = pc, !.tenant = t, !.left = n]
      /\ request'[r] \in RequestStates
      /\ \A q \in Requests : q # r => request'[q] = request[q]
      /\ request' \in [Requests -> RequestStates]
  BY <1>1, NoRequestType DEF Start, IInv, TypeOK, RequestStates
<1>4. TypeOK'
  BY <1>1, <1>3, ProductAssumption DEF Start, Event, IInv, TypeOK, listingVars
<1>5. RequestRight(r)'
  BY <1>1, <1>3, <1>2 DEF Start, RequestRight, NoRequest
<1>6. RequestsRight'
  BY <1>1, <1>2, <1>3, <1>5, RequestStays DEF Start, RequestsRight, IInv
<1>7. ConfirmedRight'
  BY <1>1, <1>2, ConfirmedStays DEF Start, ConfirmedRight, IInv
<1>8. QED
  BY <1>2, <1>4, <1>6, <1>7 DEF RequestStep

(* Going on keeps the request's shape, whatever its last statement was.    *)
LEMMA GoOnFacts ==
  ASSUME NEW STATE next, next \in RequestStates, NEW r \in Requests,
         request \in [Requests -> RequestStates], confirmed \subseteq Ids, GoOn(r, next)
  PROVE  /\ request' \in [Requests -> RequestStates] /\ confirmed' \subseteq Ids
         /\ \A q \in Requests : q # r => request'[q] = request[q]
         /\ \/ /\ next.left > 0 /\ confirmed' = confirmed
               /\ request'[r] = [next EXCEPT !.pc = "insert", !.retry = FALSE]
            \/ request'[r] = NoRequest /\ confirmed' = confirmed \cup next.made
<1>1. [next EXCEPT !.pc = "insert", !.retry = FALSE] \in RequestStates /\ next.made \subseteq Ids
  BY DEF RequestStates
<1>2. QED
  BY <1>1, NoRequestType DEF GoOn

LEMMA CreateTenantStep ==
  ASSUME IInv, NEW r \in Requests, CreateTenant(r), UNCHANGED listingVars
  PROVE  RequestStep
<1>1. /\ request[r] \in RequestStates /\ request[r].pc = "tenant" /\ request[r].made = {}
      /\ request[r].tenant \in Tenants
      /\ request \in [Requests -> RequestStates] /\ confirmed \subseteq Ids
  BY DEF CreateTenant, IInv, TypeOK, RequestsRight, RequestRight
<1>2. NamesRight' /\ NamesStay /\ StockStays /\ Known' = Known
  BY TableStays DEF CreateTenant, IInv
<1>3. /\ request' \in [Requests -> RequestStates]
      /\ \A q \in Requests : q # r => request'[q] = request[q]
      /\ confirmed' = confirmed /\ tenants \subseteq tenants' /\ tenants' \subseteq Tenants
      /\ \/ request'[r] = NoRequest
         \/ /\ request[r].left > 0 /\ request[r].tenant \in tenants'
            /\ request'[r] = [request[r] EXCEPT !.pc = "insert", !.retry = FALSE]
  <2>1. CASE request[r].tenant \in tenants
    BY <1>1, <2>1, NoRequestType DEF CreateTenant, IInv, TypeOK
  <2>2. CASE request[r].tenant \notin tenants
    <3>1. GoOn(r, request[r]) /\ tenants' = tenants \cup {request[r].tenant}
      BY <2>2 DEF CreateTenant
    <3>2. /\ request' \in [Requests -> RequestStates]
          /\ \A q \in Requests : q # r => request'[q] = request[q]
          /\ \/ /\ request[r].left > 0 /\ confirmed' = confirmed
                /\ request'[r] = [request[r] EXCEPT !.pc = "insert", !.retry = FALSE]
             \/ request'[r] = NoRequest /\ confirmed' = confirmed \cup request[r].made
      BY <1>1, <3>1, GoOnFacts
    <3>3. QED
      BY <1>1, <3>1, <3>2 DEF IInv, TypeOK
  <2>3. QED
    BY <2>1, <2>2
<1>4. TypeOK'
  BY <1>3 DEF CreateTenant, IInv, TypeOK, listingVars
<1>5. RequestRight(r)'
  <2>1. CASE request'[r] = NoRequest
    BY <2>1 DEF RequestRight, NoRequest
  <2>2. CASE request'[r] # NoRequest
    <3>1. /\ request'[r].pc = "insert" /\ request'[r].tenant = request[r].tenant
          /\ request'[r].left > 0 /\ request'[r].made = {}
      BY <1>1, <1>3, <2>2 DEF RequestStates
    <3>2. QED
      BY <1>1, <1>3, <2>2, <3>1 DEF RequestRight
  <2>3. QED
    BY <2>1, <2>2
<1>6. RequestsRight'
  BY <1>2, <1>3, <1>5, RequestStays DEF RequestsRight, IInv
<1>7. ConfirmedRight'
  BY <1>2, <1>3, ConfirmedStays DEF ConfirmedRight, IInv
<1>8. QED
  BY <1>2, <1>4, <1>6, <1>7 DEF RequestStep

LEMMA InsertProductStep ==
  ASSUME IInv, NEW r \in Requests, InsertProduct(r), UNCHANGED listingVars
  PROVE  RequestStep
<1>1. /\ request[r] \in RequestStates /\ request[r].pc = "insert" /\ request[r].made \subseteq Ids
      /\ request[r].tenant \in Tenants /\ request[r].tenant \in tenants /\ request[r].left > 0
      /\ request \in [Requests -> RequestStates]
      /\ \A q \in request[r].made : products[q].tenant = request[r].tenant /\ Named(q)
  BY DEF InsertProduct, IInv, TypeOK, RequestsRight, RequestRight, RequestStates
<1>2. PICK p \in Ids :
        /\ Insert(p, request[r].tenant, NewStock)
        /\ request' = [request EXCEPT ![r] =
             [request[r] EXCEPT !.pc = "assign", !.last = p,
                                !.made = request[r].made \cup {p}, !.retry = FALSE]]
  BY DEF InsertProduct
<1>3. /\ products' \in [Ids -> Products]
      /\ NamesRight' /\ NamesStay /\ StockStays
      /\ p \notin Known /\ Known' = Known \cup {p}
      /\ products'[p].tenant = request[r].tenant
  BY <1>1, <1>2, InsertFacts DEF IInv
<1>4. /\ request'[r].pc = "assign" /\ request'[r].last = p
      /\ request'[r].made = request[r].made \cup {p}
      /\ request'[r].tenant = request[r].tenant /\ request'[r].left = request[r].left
      /\ request'[r] \in RequestStates
      /\ \A q \in Requests : q # r => request'[q] = request[q]
      /\ request' \in [Requests -> RequestStates]
  <2>1. request'[r] = [request[r] EXCEPT !.pc = "assign", !.last = p,
                                          !.made = request[r].made \cup {p}, !.retry = FALSE]
    BY <1>1, <1>2
  <2>2. request'[r] \in RequestStates
    <3>1. request[r].made \cup {p} \in SUBSET Ids
      BY <1>1
    <3>2. QED
      BY <1>1, <2>1, <3>1 DEF RequestStates
  <2>3. QED
    BY <1>1, <1>2, <2>1, <2>2 DEF RequestStates
<1>5. TypeOK'
  BY <1>3, <1>4 DEF InsertProduct, IInv, TypeOK, listingVars
<1>6. \A q \in request[r].made : products'[q].tenant = request[r].tenant /\ Named(q)'
  BY <1>1, <1>3, NamedStays DEF IInv
<1>7. RequestRight(r)'
  BY <1>1, <1>3, <1>4, <1>6 DEF RequestRight, InsertProduct
<1>8. RequestsRight'
  BY <1>3, <1>4, <1>7, RequestStays DEF RequestsRight, IInv, InsertProduct
<1>9. ConfirmedRight'
  BY <1>3, ConfirmedStays DEF ConfirmedRight, IInv, InsertProduct
<1>10. QED
  BY <1>3, <1>5, <1>8, <1>9 DEF RequestStep

LEMMA AssignIdStep ==
  ASSUME IInv, NEW r \in Requests, AssignId(r), UNCHANGED listingVars
  PROVE  RequestStep
<1>1. /\ request[r] \in RequestStates /\ request[r].pc = "assign" /\ request[r].made \subseteq Ids
      /\ request[r].tenant \in Tenants /\ request[r].tenant \in tenants /\ request[r].left > 0
      /\ request[r].last \in Ids /\ products[request[r].last].tenant = request[r].tenant
      /\ request \in [Requests -> RequestStates] /\ confirmed \subseteq Ids
      /\ \A q \in request[r].made : /\ products[q].tenant = request[r].tenant
                                    /\ Named(q) \/ q = request[r].last
  BY DEF AssignId, IInv, TypeOK, RequestsRight, RequestRight, RequestStates
<1>p. PICK p \in Ids, t \in Tenants : p = request[r].last /\ t = request[r].tenant
  BY <1>1
<1>2. /\ products' \in [Ids -> Products]
      /\ NamesRight' /\ NamesStay /\ StockStays
      /\ Known' = Known /\ Named(p)'
  <2>1. TypeOK /\ NamesRight /\ products[p].tenant = t /\ AssignRetailerId(t, p)
    BY <1>1, <1>p DEF IInv, AssignId
  <2>2. QED
    BY <2>1, AssignFacts
<1>3. /\ [request[r] EXCEPT !.left = @ - 1] \in RequestStates
      /\ GoOn(r, [request[r] EXCEPT !.left = @ - 1])
      /\ [request[r] EXCEPT !.left = @ - 1].made = request[r].made
      /\ [request[r] EXCEPT !.left = @ - 1].tenant = request[r].tenant
  BY <1>1, OnboardingAssumption DEF AssignId, RequestStates
<1>4. /\ request' \in [Requests -> RequestStates] /\ confirmed' \subseteq Ids
      /\ \A q \in Requests : q # r => request'[q] = request[q]
      /\ \/ /\ confirmed' = confirmed
            /\ request'[r].pc = "insert" /\ request'[r].left > 0
            /\ request'[r].tenant = request[r].tenant /\ request'[r].made = request[r].made
         \/ request'[r] = NoRequest /\ confirmed' = confirmed \cup request[r].made
  <2> DEFINE next == [request[r] EXCEPT !.left = @ - 1]
  <2>1. /\ next \in RequestStates /\ GoOn(r, next)
        /\ next.made = request[r].made /\ next.tenant = request[r].tenant
    BY <1>3
  <2> HIDE DEF next
  <2>2. /\ request' \in [Requests -> RequestStates] /\ confirmed' \subseteq Ids
        /\ \A q \in Requests : q # r => request'[q] = request[q]
        /\ \/ /\ next.left > 0 /\ confirmed' = confirmed
              /\ request'[r] = [next EXCEPT !.pc = "insert", !.retry = FALSE]
           \/ request'[r] = NoRequest /\ confirmed' = confirmed \cup next.made
    BY <1>1, <2>1, GoOnFacts
  <2>3. QED
    BY <2>1, <2>2 DEF RequestStates
<1>5. TypeOK'
  BY <1>2, <1>4 DEF AssignId, IInv, TypeOK, listingVars
<1>6. \A q \in request[r].made : products'[q].tenant = request[r].tenant /\ Named(q)'
  <2> SUFFICES ASSUME NEW q \in request[r].made
               PROVE  products'[q].tenant = request[r].tenant /\ Named(q)'
    OBVIOUS
  <2>1. q \in Ids /\ q \in Known
    BY <1>1, ProductAssumption DEF Known
  <2>2. products'[q].tenant = request[r].tenant
    BY <1>1, <1>2, <2>1 DEF NamesStay
  <2>3. Named(q)'
    <3>1. CASE q = p
      BY <1>2, <3>1
    <3>2. CASE q # p
      BY <1>1, <1>2, <1>p, <2>1, <3>2, NamedStays DEF IInv
    <3>3. QED
      BY <3>1, <3>2
  <2>4. QED
    BY <2>2, <2>3
<1>7. RequestRight(r)'
  <2>1. CASE request'[r] = NoRequest
    BY <2>1 DEF RequestRight, NoRequest
  <2>2. CASE request'[r] # NoRequest
    BY <1>1, <1>4, <1>6, <2>2 DEF RequestRight, AssignId
  <2>3. QED
    BY <2>1, <2>2
<1>8. RequestsRight'
  BY <1>2, <1>4, <1>7, RequestStays DEF RequestsRight, IInv, AssignId
<1>9. ConfirmedRight'
  <2>1. \A q \in confirmed : products'[q].tenant \in tenants' /\ Named(q)'
    BY <1>2, ConfirmedStays DEF IInv, AssignId
  <2>2. \A q \in request[r].made : products'[q].tenant \in tenants' /\ Named(q)'
    BY <1>1, <1>6 DEF AssignId
  <2>3. QED
    BY <1>4, <2>1, <2>2 DEF ConfirmedRight
<1>10. QED
  BY <1>2, <1>5, <1>8, <1>9 DEF RequestStep

LEMMA DieStep ==
  ASSUME IInv, NEW r \in Requests, Die(r), UNCHANGED listingVars
  PROVE  RequestStep
<1>1. NamesRight' /\ NamesStay /\ StockStays /\ Known' = Known
  BY TableStays DEF Die, IInv
<1>2. /\ request'[r] = NoRequest
      /\ \A q \in Requests : q # r => request'[q] = request[q]
  BY DEF Die, IInv, TypeOK
<1>3. TypeOK'
  BY NoRequestType, ProductAssumption DEF Die, Event, IInv, TypeOK, listingVars
<1>4. RequestRight(r)'
  BY <1>2 DEF RequestRight, NoRequest
<1>5. RequestsRight'
  BY <1>1, <1>2, <1>4, RequestStays DEF RequestsRight, IInv, Die
<1>6. ConfirmedRight'
  BY <1>1, ConfirmedStays DEF ConfirmedRight, IInv, Die
<1>7. QED
  BY <1>1, <1>3, <1>5, <1>6 DEF RequestStep

(* The statement took effect and will run again.                           *)
LEMMA LoseAnswerStep ==
  ASSUME IInv, NEW r \in Requests, LoseAnswer(r), UNCHANGED listingVars
  PROVE  RequestStep
<1>1. /\ request[r] \in RequestStates /\ request[r].pc # "idle" /\ request[r].tenant \in Tenants
      /\ request[r].pc \in {"tenant", "insert", "assign"} /\ request[r].made \subseteq Ids
      /\ request[r].pc = "assign" => /\ request[r].last \in Ids
                                     /\ products[request[r].last].tenant = request[r].tenant
      /\ request \in [Requests -> RequestStates] /\ RequestRight(r)
  BY DEF LoseAnswer, IInv, TypeOK, RequestsRight, RequestRight, RequestStates
<1>2. /\ products' \in [Ids -> Products]
      /\ NamesRight' /\ NamesStay /\ StockStays /\ Known \subseteq Known'
      /\ tenants \subseteq tenants' /\ tenants' \subseteq Tenants
  <2>1. CASE request[r].pc = "tenant"
    <3>1. UNCHANGED products /\ tenants' = tenants \cup {request[r].tenant}
      BY <2>1 DEF LoseAnswer
    <3>2. QED
      BY <1>1, <3>1, TableStays DEF IInv, TypeOK
  <2>2. CASE request[r].pc = "insert"
    <3>1. PICK p \in Ids, t \in Tenants : Insert(p, t, NewStock) /\ UNCHANGED tenants
      BY <1>1, <2>2 DEF LoseAnswer
    <3>2. QED
      BY <3>1, InsertFacts DEF IInv, TypeOK
  <2>3. CASE request[r].pc = "assign"
    <3>1. PICK p \in Ids, t \in Tenants :
            AssignRetailerId(t, p) /\ products[p].tenant = t /\ UNCHANGED tenants
      BY <1>1, <2>3 DEF LoseAnswer
    <3>2. QED
      BY <3>1, AssignFacts DEF IInv, TypeOK
  <2>4. QED
    BY <1>1, <2>1, <2>2, <2>3
<1>3. /\ request'[r] = [request[r] EXCEPT !.retry = TRUE]
      /\ request'[r] \in RequestStates
      /\ \A q \in Requests : q # r => request'[q] = request[q]
      /\ request' \in [Requests -> RequestStates]
  BY <1>1 DEF LoseAnswer, RequestStates
<1>4. TypeOK'
  BY <1>2, <1>3, ProductAssumption DEF LoseAnswer, Event, IInv, TypeOK, listingVars
<1>5. RequestRight(r)'
  <2>1. /\ request'[r].pc = request[r].pc /\ request'[r].tenant = request[r].tenant
        /\ request'[r].made = request[r].made /\ request'[r].last = request[r].last
        /\ request'[r].left = request[r].left
    BY <1>1, <1>3 DEF RequestStates
  <2>2. \A p \in Ids : products[p].tenant \in Tenants => products'[p].tenant = products[p].tenant
    BY <1>2, ProductAssumption DEF NamesStay, Known
  <2>3. \A p \in Ids : Named(p) => Named(p)'
    BY <1>2, NamedStays DEF IInv
  <2>4. QED
    BY <1>1, <1>2, <2>1, <2>2, <2>3 DEF RequestRight
<1>6. RequestsRight'
  BY <1>2, <1>3, <1>5, RequestStays DEF RequestsRight, IInv
<1>7. ConfirmedRight'
  BY <1>2, ConfirmedStays DEF ConfirmedRight, IInv, LoseAnswer
<1>8. QED
  BY <1>2, <1>4, <1>6, <1>7 DEF RequestStep

LEMMA OnboardingIInv ==
  ASSUME IInv, OnboardingNext, UNCHANGED listingVars
  PROVE  IInv' /\ NamesStay
<1>1. PICK r \in Requests :
        \/ \E t \in Tenants : StartWizard(r, t) \/ StartImport(r, t)
        \/ CreateTenant(r) \/ InsertProduct(r) \/ AssignId(r)
        \/ LoseAnswer(r) \/ Die(r)
  BY DEF OnboardingNext
<1>2. RequestStep
  BY <1>1, StartStep, CreateTenantStep, InsertProductStep, AssignIdStep, LoseAnswerStep, DieStep
<1>3. QED
  BY <1>2, RequestStepIInv DEF RequestStep

-----------------------------------------------------------------------------
(* The steps of Meta, customers and merchants.                             *)

SameNames ==
  \A p \in Ids : /\ products'[p].tenant = products[p].tenant
                 /\ products'[p].retailer = products[p].retailer

LEMMA OnboardingStays ==
  ASSUME IInv, SameNames, UNCHANGED onboardingVars
  PROVE  /\ NamesRight' /\ RequestsRight' /\ ConfirmedRight'
         /\ NamesStay /\ Known' = Known
<1>1. Known' = Known
  BY DEF SameNames, Known
<1>2. NamesRight' /\ NamesStay
  BY DEF IInv, SameNames, NamesRight, Named, NamesStay
<1>3. RequestsRight'
  BY <1>2, RequestStays DEF RequestsRight, IInv, onboardingVars
<1>4. ConfirmedRight'
  BY <1>2, ConfirmedStays DEF ConfirmedRight, IInv, onboardingVars
<1>5. QED
  BY <1>1, <1>2, <1>3, <1>4

LEMMA UnchangedSameNames == UNCHANGED products => SameNames
BY DEF SameNames

LEMMA FetchFeedIInv ==
  ASSUME IInv, NEW t \in Tenants, FetchFeed(t), UNCHANGED onboardingVars
  PROVE  IInv' /\ SameNames
<1>1. UNCHANGED <<products, events, customer, page, sold, supplied, unseen>> /\ SameNames
  BY UnchangedSameNames DEF FetchFeed
<1>2. /\ NamesRight' /\ RequestsRight' /\ ConfirmedRight' /\ NamesStay /\ Known' = Known
  BY <1>1, OnboardingStays
<1>3. Feed(t) \subseteq RetailerIds /\ \A i \in Feed(t) : Names(t, i)
  BY DEF Feed, ActiveProducts, Known, Names, Named, IInv, TypeOK, Products
<1>4. catalog'[t] = Feed(t) /\ \A u \in Tenants : u # t => catalog'[u] = catalog[u]
  BY DEF FetchFeed, IInv, TypeOK
<1>5. TypeOK'
  BY <1>1, <1>3 DEF FetchFeed, IInv, TypeOK, onboardingVars
<1>6. CatalogsRight'
  BY <1>2, <1>3, <1>4, NamesStayTrue DEF IInv, CatalogsRight
<1>7. BasketsRight'
  BY <1>1, <1>2, NamesStayTrue DEF IInv, BasketsRight
<1>8. FormsRight' /\ OnlyKnownSold' /\ StockBacked'
  BY <1>1, <1>2 DEF IInv, FormsRight, FormRight, Supply, OnlyKnownSold, StockBacked
<1>9. QED
  BY <1>1, <1>2, <1>5, <1>6, <1>7, <1>8 DEF IInv

LEMMA FillBasketIInv ==
  ASSUME IInv, NEW c \in Customers, NEW t \in Tenants, FillBasket(c, t), UNCHANGED onboardingVars
  PROVE  IInv' /\ SameNames
<1>1. UNCHANGED <<products, catalog, page, sold, supplied, unseen>> /\ SameNames
  BY UnchangedSameNames DEF FillBasket
<1>2. /\ NamesRight' /\ RequestsRight' /\ ConfirmedRight' /\ NamesStay /\ Known' = Known
  BY <1>1, OnboardingStays
<1>3. PICK basket \in [catalog[t] -> 0 .. MaxQuantity] :
        customer' = [customer EXCEPT ![c] =
          [at |-> "filled", tenant |-> t, cart |-> NoOrder,
           basket |-> [r \in RetailerIds |-> IF r \in catalog[t] THEN basket[r] ELSE 0]]]
  BY DEF FillBasket
<1>4. /\ customer'[c].tenant = t
      /\ customer'[c].basket = [r \in RetailerIds |-> IF r \in catalog[t] THEN basket[r] ELSE 0]
      /\ \A d \in Customers : d # c => customer'[d] = customer[d]
  BY <1>3 DEF IInv, TypeOK
<1>5. TypeOK'
  <2>1. [r \in RetailerIds |-> IF r \in catalog[t] THEN basket[r] ELSE 0] \in Baskets
    BY ListingAssumption DEF Baskets
  <2>2. NoOrder \in [Ids -> Nat]
    BY DEF NoOrder
  <2>3. customer' \in [Customers -> CustomerStates]
    BY <1>3, <2>1, <2>2 DEF IInv, TypeOK, CustomerStates
  <2>4. QED
    BY <1>1, <2>3, ProductAssumption DEF FillBasket, Event, IInv, TypeOK, onboardingVars
<1>6. CatalogsRight'
  BY <1>1, <1>2, NamesStayTrue DEF IInv, CatalogsRight
<1>7. BasketsRight'
  <2> SUFFICES ASSUME NEW d \in Customers, NEW i \in RetailerIds, customer'[d].basket[i] > 0
               PROVE  \E u \in Tenants \cup {NoTenant} : u = customer'[d].tenant /\ Names(u, i)'
    BY DEF BasketsRight, Names
  <2>1. CASE d = c
    BY <1>2, <1>4, <2>1, NamesStayTrue DEF IInv, CatalogsRight
  <2>2. CASE d # c
    <3>1. PICK u \in Tenants \cup {NoTenant} : u = customer[d].tenant /\ Names(u, i)
      BY <1>4, <2>2 DEF IInv, BasketsRight, TypeOK, CustomerStates
    <3>2. QED
      BY <1>2, <1>4, <2>2, <3>1, NamesStayTrue DEF IInv
  <2>3. QED
    BY <2>1, <2>2
<1>8. FormsRight' /\ OnlyKnownSold' /\ StockBacked'
  BY <1>1, <1>2 DEF IInv, FormsRight, FormRight, Supply, OnlyKnownSold, StockBacked
<1>9. QED
  BY <1>1, <1>2, <1>5, <1>6, <1>7, <1>8 DEF IInv

(* A customer whose basket is empty can refer to nothing.                  *)
LEMMA OthersBaskets ==
  ASSUME IInv, NamesStay, NEW c \in Customers,
         \A d \in Customers : d # c => customer'[d] = customer[d],
         customer'[c].basket = EmptyBasket
  PROVE  BasketsRight'
<1> SUFFICES ASSUME NEW d \in Customers, NEW i \in RetailerIds, customer'[d].basket[i] > 0
             PROVE  \E u \in Tenants \cup {NoTenant} : u = customer'[d].tenant /\ Names(u, i)'
  BY DEF BasketsRight, Names
<1>1. d # c
  BY DEF EmptyBasket
<1>2. PICK u \in Tenants \cup {NoTenant} : u = customer[d].tenant /\ Names(u, i)
  BY <1>1 DEF IInv, BasketsRight, TypeOK, CustomerStates
<1>3. QED
  BY <1>1, <1>2, NamesStayTrue DEF IInv

LEMMA AwayType == Away \in CustomerStates /\ EmptyBasket \in Baskets
BY ListingAssumption DEF Away, NoOrder, EmptyBasket, CustomerStates, Baskets

LEMMA SendOrderIInv ==
  ASSUME IInv, NEW c \in Customers, SendOrder(c), UNCHANGED onboardingVars
  PROVE  IInv' /\ SameNames
<1>1. UNCHANGED <<products, events, catalog, page, sold, supplied, unseen>> /\ SameNames
  BY UnchangedSameNames DEF SendOrder
<1>2. /\ NamesRight' /\ RequestsRight' /\ ConfirmedRight' /\ NamesStay /\ Known' = Known
  BY <1>1, OnboardingStays
<1> DEFINE cart == CartOf(customer[c].tenant, customer[c].basket)
<1>3. cart \in [Ids -> Nat]
  <2>1. customer[c].basket \in [RetailerIds -> Nat]
    BY DEF IInv, TypeOK, CustomerStates, Baskets
  <2>2. \A p \in Ids : products[p].retailer \in RetailerIds
    BY DEF IInv, TypeOK, Products
  <2>3. QED
    BY <2>1, <2>2 DEF CartOf
<1>4. /\ customer' \in [Customers -> CustomerStates]
      /\ \A d \in Customers : d # c => customer'[d] = customer[d]
      /\ customer'[c].basket = EmptyBasket
  <2> HIDE DEF cart
  <2>1. CASE cart = NoOrder
    <3>1. customer' = [customer EXCEPT ![c] = Away]
      BY <2>1 DEF SendOrder, cart
    <3>2. Away.basket = EmptyBasket
      BY DEF Away
    <3>3. QED
      BY <3>1, <3>2, AwayType DEF IInv, TypeOK
  <2>2. CASE cart # NoOrder
    <3>1. customer' = [customer EXCEPT ![c] =
            [customer[c] EXCEPT !.at = "ordering", !.basket = EmptyBasket, !.cart = cart]]
      BY <2>2 DEF SendOrder, cart
    <3>2. customer \in [Customers -> CustomerStates] /\ customer[c] \in CustomerStates
      BY DEF IInv, TypeOK
    <3>3. QED
      BY <1>3, <3>1, <3>2, AwayType DEF CustomerStates
  <2>3. QED
    BY <2>1, <2>2
<1>5. TypeOK'
  BY <1>1, <1>4 DEF IInv, TypeOK, onboardingVars
<1>6. CatalogsRight'
  BY <1>1, <1>2, NamesStayTrue DEF IInv, CatalogsRight
<1>7. BasketsRight'
  BY <1>2, <1>4, OthersBaskets
<1>8. FormsRight' /\ OnlyKnownSold' /\ StockBacked'
  BY <1>1, <1>2 DEF IInv, FormsRight, FormRight, Supply, OnlyKnownSold, StockBacked
<1>9. QED
  BY <1>1, <1>2, <1>5, <1>6, <1>7, <1>8 DEF IInv

(* What a checkout takes, it takes from rows that have it.                 *)
LEMMA UnitsFacts ==
  ASSUME TypeOK, NEW c \in Customers, NEW p \in Ids
  PROVE  LET units == UnitsOf(customer[c].cart) IN
         /\ units[p] \in Nat /\ units[p] <= products[p].stock
         /\ p \notin Known => units[p] = 0
<1>1. customer[c].cart \in [Ids -> Nat] /\ products[p].stock \in Nat
  BY DEF TypeOK, CustomerStates, Products
<1>2. QED
  BY <1>1 DEF UnitsOf, Taken

LEMMA CheckoutOrderIInv ==
  ASSUME IInv, NEW c \in Customers, CheckoutOrder(c), UNCHANGED onboardingVars
  PROVE  IInv' /\ SameNames
<1> DEFINE units == UnitsOf(customer[c].cart)
<1>1. /\ UNCHANGED <<events, catalog, page, supplied, unseen>>
      /\ products' = [p \in Ids |-> [products[p] EXCEPT !.stock = @ - units[p]]]
      /\ sold' = [p \in Ids |-> sold[p] + units[p]]
      /\ customer' = [customer EXCEPT ![c] = Away]
  BY DEF CheckoutOrder, Sale
<1>2. \A p \in Ids : /\ units[p] \in Nat /\ units[p] <= products[p].stock
                     /\ p \notin Known => units[p] = 0
  BY UnitsFacts DEF IInv
<1> HIDE DEF units
<1>3. /\ products' \in [Ids -> Products] /\ sold' \in [Ids -> Nat]
      /\ \A p \in Ids : /\ products'[p].tenant = products[p].tenant
                        /\ products'[p].retailer = products[p].retailer
                        /\ products'[p].stock = products[p].stock - units[p]
                        /\ sold'[p] = sold[p] + units[p]
  <2>1. products \in [Ids -> Products] /\ sold \in [Ids -> Nat]
    BY DEF IInv, TypeOK
  <2>2. \A p \in Ids : products[p].stock - units[p] \in Nat
    BY <1>2, <2>1 DEF Products
  <2>3. \A p \in Ids : products'[p] = [products[p] EXCEPT !.stock = products[p].stock - units[p]]
    BY <1>1
  <2>4. \A p \in Ids : /\ products'[p] \in Products
                       /\ products'[p].tenant = products[p].tenant
                       /\ products'[p].retailer = products[p].retailer
                       /\ products'[p].stock = products[p].stock - units[p]
    <3> SUFFICES ASSUME NEW p \in Ids, NEW n \in Nat, n = products[p].stock - units[p]
                 PROVE  /\ products'[p] \in Products
                        /\ products'[p].tenant = products[p].tenant
                        /\ products'[p].retailer = products[p].retailer
                        /\ products'[p].stock = n
      BY <2>2
    <3>1. products[p] \in Products
      BY <2>1
    <3>2. products'[p] = [products[p] EXCEPT !.stock = n]
      BY <2>3
    <3> HIDE DEF units
    <3>3. QED
      BY <3>1, <3>2 DEF Products
  <2>5. products' \in [Ids -> Products]
    BY <1>1, <2>4
  <2>6. sold' \in [Ids -> Nat] /\ \A p \in Ids : sold'[p] = sold[p] + units[p]
    BY <1>1, <1>2, <2>1
  <2>7. QED
    BY <2>4, <2>5, <2>6
<1>4. SameNames
  BY <1>3 DEF SameNames
<1>5. /\ NamesRight' /\ RequestsRight' /\ ConfirmedRight' /\ NamesStay /\ Known' = Known
  BY <1>4, OnboardingStays
<1>6. /\ customer' \in [Customers -> CustomerStates]
      /\ \A d \in Customers : d # c => customer'[d] = customer[d]
      /\ customer'[c].basket = EmptyBasket
  <2>1. Away.basket = EmptyBasket
    BY DEF Away
  <2>2. QED
    BY <1>1, <2>1, AwayType DEF IInv, TypeOK
<1>7. TypeOK'
  BY <1>1, <1>3, <1>6 DEF IInv, TypeOK, onboardingVars
<1>8. CatalogsRight' /\ BasketsRight'
  BY <1>1, <1>5, <1>6, NamesStayTrue, OthersBaskets DEF IInv, CatalogsRight
<1>9. FormsRight'
  <2> SUFFICES ASSUME NEW g \in Pages, page[g] # NoForm
               PROVE  /\ page[g].product \in Known
                      /\ page[g].sold <= sold'[page[g].product]
                      /\ page[g].shown + page[g].sold <= Supply(page[g].product)
    BY <1>1, <1>5 DEF FormsRight, FormRight, Supply
  <2>1. /\ page[g].product \in Known /\ page[g].sold <= sold[page[g].product]
        /\ page[g].shown + page[g].sold <= Supply(page[g].product)
    BY DEF IInv, FormsRight, FormRight
  <2>2. /\ page[g].product \in Ids /\ page[g].sold \in Nat
        /\ sold[page[g].product] \in Nat
    BY <2>1 DEF IInv, TypeOK, Forms, Known
  <2>3. QED
    BY <1>2, <1>3, <2>1, <2>2
<1>10. OnlyKnownSold'
  BY <1>2, <1>3, <1>5 DEF OnlyKnownSold, IInv
<1>11. StockBacked'
  <2> SUFFICES ASSUME NEW p \in Known
               PROVE  products'[p].stock + sold'[p] <= NewStock + supplied[p] + unseen[p]
    BY <1>1, <1>5 DEF StockBacked
  <2>1. p \in Ids /\ products[p].stock \in Nat /\ sold[p] \in Nat
    BY DEF Known, IInv, TypeOK, Products
  <2>2. QED
    BY <1>2, <1>3, <2>1 DEF IInv, StockBacked
<1>12. QED
  BY <1>4, <1>5, <1>7, <1>8, <1>9, <1>10, <1>11 DEF IInv

(* A form loaded now shows what is backed now.                             *)
LEMMA LoadFormIInv ==
  ASSUME IInv, NEW g \in Pages, NEW p \in Ids, LoadForm(g, p), UNCHANGED onboardingVars
  PROVE  IInv' /\ SameNames
<1>1. /\ UNCHANGED <<products, catalog, customer, sold, supplied, unseen>> /\ SameNames
      /\ p \in Known /\ Event
      /\ page' = [page EXCEPT ![g] = [product |-> p, shown |-> products[p].stock, sold |-> sold[p]]]
  BY UnchangedSameNames DEF LoadForm
<1>2. /\ NamesRight' /\ RequestsRight' /\ ConfirmedRight' /\ NamesStay /\ Known' = Known
  BY <1>1, OnboardingStays
<1>3. products[p].stock \in Nat /\ sold[p] \in Nat /\ page \in [Pages -> Forms]
  BY DEF IInv, TypeOK, Products
<1>4. /\ page'[g] = [product |-> p, shown |-> products[p].stock, sold |-> sold[p]]
      /\ \A h \in Pages : h # g => page'[h] = page[h]
      /\ page' \in [Pages -> Forms]
  BY <1>1, <1>3 DEF Forms
<1>5. TypeOK'
  BY <1>1, <1>4, ProductAssumption DEF Event, IInv, TypeOK, onboardingVars
<1>6. CatalogsRight' /\ BasketsRight'
  BY <1>1, <1>2, NamesStayTrue DEF IInv, CatalogsRight, BasketsRight
<1>7. FormsRight'
  <2> SUFFICES ASSUME NEW h \in Pages
               PROVE  FormRight(h)'
    BY DEF FormsRight
  <2>1. CASE h = g
    BY <1>1, <1>2, <1>3, <1>4, <2>1 DEF FormRight, Supply, IInv, StockBacked
  <2>2. CASE h # g
    BY <1>1, <1>2, <1>4, <2>2 DEF FormRight, Supply, IInv, FormsRight
  <2>3. QED
    BY <2>1, <2>2
<1>8. OnlyKnownSold' /\ StockBacked'
  BY <1>1, <1>2 DEF IInv, OnlyKnownSold, StockBacked
<1>9. QED
  BY <1>1, <1>2, <1>5, <1>6, <1>7, <1>8 DEF IInv

(* What was sold behind the form is put back on sale, and counted.         *)
LEMMA SaveFormIInv ==
  ASSUME IInv, NEW g \in Pages, SaveForm(g), UNCHANGED onboardingVars
  PROVE  IInv' /\ SameNames
<1>1. PICK p \in Ids, added \in {0, 1} :
        /\ p = page[g].product /\ page[g] # NoForm /\ p \in Known
        /\ SetStock(p, page[g].shown + added)
        /\ supplied' = [supplied EXCEPT ![p] = @ + added]
        /\ unseen' = [unseen EXCEPT ![p] = @ + (sold[p] - page[g].sold)]
        /\ page' = [page EXCEPT ![g] = NoForm]
        /\ UNCHANGED <<events, catalog, customer, sold>>
  BY DEF SaveForm, IInv, FormsRight, FormRight, Known
<1>2. /\ page[g].shown \in Nat /\ page[g].sold \in Nat /\ page[g].sold <= sold[p]
      /\ page[g].shown + page[g].sold <= NewStock + supplied[p] + unseen[p]
      /\ page \in [Pages -> Forms] /\ products \in [Ids -> Products]
      /\ sold \in [Ids -> Nat] /\ supplied \in [Ids -> Nat] /\ unseen \in [Ids -> Nat]
      /\ NewStock \in Nat
  BY <1>1, OnboardingAssumption DEF IInv, FormsRight, FormRight, Supply, TypeOK, Forms
<1>3. /\ products'[p] = [products[p] EXCEPT !.stock = page[g].shown + added]
      /\ \A q \in Ids : q # p => products'[q] = products[q]
      /\ products' \in [Ids -> Products]
  BY <1>1, <1>2 DEF SetStock, Products
<1>4. /\ supplied'[p] = supplied[p] + added /\ unseen'[p] = unseen[p] + (sold[p] - page[g].sold)
      /\ \A q \in Ids : q # p => supplied'[q] = supplied[q] /\ unseen'[q] = unseen[q]
      /\ supplied' \in [Ids -> Nat] /\ unseen' \in [Ids -> Nat]
  BY <1>1, <1>2
<1>5. SameNames /\ products'[p].stock = page[g].shown + added
  BY <1>2, <1>3 DEF SameNames, Products
<1>6. /\ NamesRight' /\ RequestsRight' /\ ConfirmedRight' /\ NamesStay /\ Known' = Known
  BY <1>5, OnboardingStays
<1>7. NoForm \in Forms /\ page' \in [Pages -> Forms]
  BY <1>1, <1>2 DEF NoForm, Forms
<1>8. TypeOK'
  BY <1>1, <1>3, <1>4, <1>7 DEF IInv, TypeOK, onboardingVars
<1>9. CatalogsRight' /\ BasketsRight'
  BY <1>1, <1>6, NamesStayTrue DEF IInv, CatalogsRight, BasketsRight
<1>10. FormsRight'
  <2> SUFFICES ASSUME NEW h \in Pages, page'[h] # NoForm
               PROVE  FormRight(h)'
    BY DEF FormsRight, FormRight
  <2>1. h # g /\ page'[h] = page[h]
    BY <1>1, <1>2
  <2>2. /\ page[h].product \in Known /\ page[h].sold <= sold[page[h].product]
        /\ page[h].shown + page[h].sold <= Supply(page[h].product)
        /\ page[h].product \in Ids /\ page[h].shown \in Nat /\ page[h].sold \in Nat
    BY <1>2, <2>1 DEF IInv, FormsRight, FormRight, Known, Forms
  <2>3. Supply(page[h].product) <= NewStock + supplied'[page[h].product] + unseen'[page[h].product]
    BY <1>2, <1>4, <2>2 DEF Supply
  <2>4. page[h].shown + page[h].sold <= NewStock + supplied'[page[h].product] + unseen'[page[h].product]
    BY <1>2, <1>4, <2>2, <2>3 DEF Supply
  <2>5. QED
    BY <1>1, <1>6, <2>1, <2>2, <2>4 DEF FormRight, Supply
<1>11. OnlyKnownSold'
  BY <1>1, <1>6 DEF IInv, OnlyKnownSold
<1>12. StockBacked'
  <2> SUFFICES ASSUME NEW q \in Known
               PROVE  products'[q].stock + sold[q] <= NewStock + supplied'[q] + unseen'[q]
    BY <1>1, <1>6 DEF StockBacked
  <2>1. CASE q = p
    BY <1>2, <1>4, <1>5, <2>1
  <2>2. CASE q # p
    BY <1>3, <1>4, <2>2 DEF IInv, StockBacked, Known
  <2>3. QED
    BY <2>1, <2>2
<1>13. QED
  BY <1>5, <1>6, <1>8, <1>9, <1>10, <1>11, <1>12 DEF IInv

LEMMA ToggleActiveIInv ==
  ASSUME IInv, NEW p \in Ids, ToggleActive(p), UNCHANGED onboardingVars
  PROVE  IInv' /\ SameNames
<1>1. /\ UNCHANGED <<catalog, customer, page, sold, supplied, unseen>> /\ Event
      /\ products' = [products EXCEPT ![p].active = ~products[p].active]
      /\ products \in [Ids -> Products]
  BY DEF ToggleActive, SetActive, IInv, TypeOK
<1>2. /\ products' \in [Ids -> Products]
      /\ \A q \in Ids : /\ products'[q].tenant = products[q].tenant
                        /\ products'[q].retailer = products[q].retailer
                        /\ products'[q].stock = products[q].stock
  BY <1>1 DEF Products
<1>3. SameNames
  BY <1>2 DEF SameNames
<1>4. /\ NamesRight' /\ RequestsRight' /\ ConfirmedRight' /\ NamesStay /\ Known' = Known
  BY <1>3, OnboardingStays
<1>5. TypeOK'
  BY <1>1, <1>2, ProductAssumption DEF Event, IInv, TypeOK, onboardingVars
<1>6. CatalogsRight' /\ BasketsRight'
  BY <1>1, <1>4, NamesStayTrue DEF IInv, CatalogsRight, BasketsRight
<1>7. FormsRight' /\ OnlyKnownSold'
  BY <1>1, <1>4 DEF IInv, FormsRight, FormRight, Supply, OnlyKnownSold
<1>8. StockBacked'
  BY <1>1, <1>2, <1>4 DEF IInv, StockBacked, Known
<1>9. QED
  BY <1>3, <1>4, <1>5, <1>6, <1>7, <1>8 DEF IInv

LEMMA ListingIInv ==
  ASSUME IInv, ListingNext, UNCHANGED onboardingVars
  PROVE  IInv' /\ NamesStay
<1>1. IInv' /\ SameNames
  BY FetchFeedIInv, FillBasketIInv, SendOrderIInv, CheckoutOrderIInv,
     LoadFormIInv, SaveFormIInv, ToggleActiveIInv DEF ListingNext
<1>2. QED
  BY <1>1, OnboardingStays

-----------------------------------------------------------------------------
(* Init and stuttering.                                                    *)

LEMMA InitIInv == Init => IInv
<1> SUFFICES ASSUME Init
             PROVE  IInv
  OBVIOUS
<1>0. /\ products = NoProducts /\ tenants = {} /\ confirmed = {} /\ faults = 0 /\ events = 0
      /\ request = [r \in Requests |-> NoRequest]
      /\ catalog = [t \in Tenants |-> {}] /\ customer = [c \in Customers |-> Away]
      /\ page = [g \in Pages |-> NoForm]
      /\ sold = [p \in Ids |-> 0] /\ supplied = [p \in Ids |-> 0] /\ unseen = [p \in Ids |-> 0]
  BY DEF Init, OnboardingInit, ListingInit
<1>1. /\ NoProduct \in Products /\ NoForm \in Forms
      /\ NoProduct.tenant = NoTenant /\ NoProduct.retailer = NoRetailerId
  BY DEF NoProduct, Products, RetailerIds, NoForm, Forms
<1>2. products \in [Ids -> Products] /\ \A p \in Ids : products[p] = NoProduct
  BY <1>0, <1>1 DEF NoProducts
<1>3. Known = {} /\ \A p \in Ids : ~Named(p)
  BY <1>1, <1>2 DEF Known, Named
<1>4. TypeOK
  BY <1>0, <1>1, <1>2, NoRequestType, AwayType, ProductAssumption DEF TypeOK
<1>5. NamesRight /\ ConfirmedRight /\ OnlyKnownSold /\ StockBacked
  BY <1>0, <1>3 DEF NamesRight, ConfirmedRight, OnlyKnownSold, StockBacked
<1>6. RequestsRight
  BY <1>0, IdleRight DEF RequestsRight
<1>7. CatalogsRight /\ FormsRight
  BY <1>0 DEF CatalogsRight, FormsRight, FormRight
<1>8. BasketsRight
  BY <1>0 DEF BasketsRight, Away, EmptyBasket
<1>9. QED
  BY <1>4, <1>5, <1>6, <1>7, <1>8 DEF IInv

LEMMA NextIInv ==
  ASSUME IInv, [Next]_vars
  PROVE  IInv' /\ NamesStay
<1>1. CASE OnboardingNext /\ UNCHANGED listingVars
  BY <1>1, OnboardingIInv
<1>2. CASE ListingNext /\ UNCHANGED onboardingVars
  BY <1>2, ListingIInv
<1>3. CASE UNCHANGED vars
  <2>1. SameNames /\ UNCHANGED onboardingVars /\ UNCHANGED listingVars
    BY <1>3, UnchangedSameNames DEF vars
  <2>2. /\ NamesRight' /\ RequestsRight' /\ ConfirmedRight' /\ NamesStay /\ Known' = Known
    BY <2>1, OnboardingStays
  <2>3. /\ TypeOK' /\ CatalogsRight' /\ BasketsRight'
        /\ FormsRight' /\ OnlyKnownSold' /\ StockBacked'
    BY <1>3, <2>2, NamesStayTrue DEF vars, onboardingVars, listingVars, IInv, TypeOK, CatalogsRight,
       BasketsRight, FormsRight, FormRight, Supply, OnlyKnownSold, StockBacked
  <2>4. QED
    BY <2>2, <2>3 DEF IInv
<1>4. QED
  BY <1>1, <1>2, <1>3 DEF Next

LEMMA Invariance == Spec => []IInv
<1>1. IInv /\ [Next]_vars => IInv'
  BY NextIInv
<1>2. QED
  BY InitIInv, <1>1, PTL DEF Spec

-----------------------------------------------------------------------------
(* What the ids mean.                                                      *)

(* An id of a tenant's row is that row's alone.                            *)
LEMMA NamesOne ==
  ASSUME NamesRight, NEW p \in Ids, Named(p)
  PROVE  ByRetailerId(products[p].tenant, products[p].retailer) = {p}
<1>1. p \in Known
  BY NamedIsKnown
<1>2. ASSUME NEW q \in ByRetailerId(products[p].tenant, products[p].retailer)
      PROVE  q = p
  <2>1. /\ q \in Ids /\ products[q].tenant = products[p].tenant
        /\ products[q].retailer = products[p].retailer
    BY DEF ByRetailerId, Known
  <2>2. Named(q)
    BY <2>1 DEF Named
  <2>3. RetailerIdOf(products[q].tenant, q) = RetailerIdOf(products[p].tenant, p)
    BY <2>1, <2>2 DEF NamesRight
  <2>4. QED
    BY <2>1, <2>3 DEF RetailerIdOf
<1>3. QED
  BY <1>1, <1>2 DEF ByRetailerId

-----------------------------------------------------------------------------
(* The theorems.                                                           *)

(* The stock of every product stays a natural number, ids stay ids, forms  *)
(* and carts keep their shape: no interleaving of onboarding, sales, edits *)
(* and fetches breaks a type.                                              *)
THEOREM TypeCorrect == Spec => []TypeOK
<1>1. IInv => TypeOK
  BY DEF IInv
<1>2. QED
  BY Invariance, <1>1, PTL

(* What a tenant was told is entered has an id of its own.                 *)
THEOREM ConfirmedIsListableAlways == Spec => []ConfirmedIsListable
<1>1. IInv => ConfirmedIsListable
  <2> SUFFICES ASSUME IInv, NEW p \in confirmed
               PROVE  /\ products[p].tenant \in tenants /\ products[p].retailer # NoRetailerId
                      /\ ByRetailerId(products[p].tenant, products[p].retailer) = {p}
    BY DEF ConfirmedIsListable
  <2>1. p \in Ids /\ products[p].tenant \in tenants /\ Named(p)
    BY DEF IInv, TypeOK, ConfirmedRight
  <2>2. QED
    BY <2>1, NamesOne DEF IInv, Named
<1>2. QED
  BY Invariance, <1>1, PTL

(* An old form can put back on sale only what was sold while it was open.  *)
THEOREM StockBackedAlways == Spec => []StockBacked
<1>1. IInv => StockBacked
  BY DEF IInv
<1>2. QED
  BY Invariance, <1>1, PTL

(* The ids in a late cart, or in an old copy of the feed, go on naming the *)
(* products they named.                                                    *)
THEOREM CartsStayValidAlways == Spec => CartsStayValid
<1>1. ASSUME IInv, [Next]_vars, NEW t \in Tenants, NEW r \in Referenced(t)
      PROVE  /\ Cardinality(ByRetailerId(t, r)) = 1
             /\ ByRetailerId(t, r)' = ByRetailerId(t, r)
  <2>1. Names(t, r)
    <3>1. CASE r \in catalog[t]
      BY <1>1, <3>1 DEF IInv, CatalogsRight
    <3>2. CASE r \notin catalog[t]
      <4>1. PICK c \in Customers :
              customer[c].tenant = t /\ r \in RetailerIds /\ customer[c].basket[r] > 0
        BY <1>1, <3>2 DEF Referenced
      <4>2. QED
        BY <1>1, <4>1 DEF IInv, BasketsRight
    <3>3. QED
      BY <3>1, <3>2
  <2>2. PICK p \in Ids : Named(p) /\ products[p].tenant = t /\ products[p].retailer = r
    BY <2>1 DEF Names
  <2>3. ByRetailerId(t, r) = {p}
    BY <1>1, <2>2, NamesOne DEF IInv
  <2>4. IInv' /\ NamesStay
    BY <1>1, NextIInv
  <2>5. Named(p)' /\ products'[p].tenant = t /\ products'[p].retailer = r
    BY <1>1, <2>2, <2>4, NamedStays DEF IInv, NamesStay
  <2>6. ByRetailerId(t, r)' = {p}
    <3>1. p \in Known' /\ r = RetailerIdOf(t, p)
      BY <2>4, <2>5, ProductAssumption DEF IInv, NamesRight, Known
    <3>2. ASSUME NEW q \in ByRetailerId(t, r)'
          PROVE  q = p
      <4>1. q \in Ids /\ products'[q].tenant = t /\ products'[q].retailer = r
        BY <3>2 DEF ByRetailerId, Known
      <4>2. r = RetailerIdOf(t, q)
        BY <2>4, <2>5, <4>1 DEF IInv, NamesRight, Named
      <4>3. QED
        BY <3>1, <4>2 DEF RetailerIdOf
    <3>3. QED
      BY <2>5, <3>1, <3>2 DEF ByRetailerId
  <2>7. QED
    BY <2>3, <2>6, FS_Singleton
<1>2. IInv /\ [Next]_vars =>
        [\A t \in Tenants : \A r \in Referenced(t) :
           /\ Cardinality(ByRetailerId(t, r)) = 1
           /\ ByRetailerId(t, r)' = ByRetailerId(t, r)]_vars
  BY <1>1
<1>3. IInv /\ [Next]_vars => IInv'
  BY NextIInv
<1>4. QED
  BY InitIInv, <1>2, <1>3, PTL DEF Spec, CartsStayValid


-----------------------------------------------------------------------------
(* Rows without an id.                                                     *)

(* The rows that no request is about to name; they never get an id.        *)
Orphans ==
  {p \in Known : /\ ~Named(p)
                 /\ \A r \in Requests : request[r].pc = "assign" => request[r].last # p}

OrphansCounted == IsFiniteSet(Orphans) /\ Cardinality(Orphans) <= faults

(* One more orphan at most, and then one more fault.                       *)
OrphanStep ==
  \/ Orphans' \subseteq Orphans /\ faults' >= faults
  \/ \E p \in Ids : Orphans' \subseteq Orphans \cup {p} /\ faults' = faults + 1

LEMMA OrphanStepCounted ==
  ASSUME OrphansCounted, OrphanStep, faults \in Nat, faults' \in Nat
  PROVE  OrphansCounted'
<1>1. CASE Orphans' \subseteq Orphans /\ faults' >= faults
  <2>1. IsFiniteSet(Orphans') /\ Cardinality(Orphans') <= Cardinality(Orphans)
    BY <1>1, FS_Subset DEF OrphansCounted
  <2>2. Cardinality(Orphans) \in Nat /\ Cardinality(Orphans') \in Nat
    BY <2>1, FS_CardinalityType DEF OrphansCounted
  <2>3. QED
    BY <1>1, <2>1, <2>2 DEF OrphansCounted
<1>2. ASSUME NEW p \in Ids, Orphans' \subseteq Orphans \cup {p}, faults' = faults + 1
      PROVE  OrphansCounted'
  <2>1. /\ IsFiniteSet(Orphans \cup {p})
        /\ Cardinality(Orphans \cup {p}) <= Cardinality(Orphans) + 1
    <3>1. IsFiniteSet(Orphans) /\ Cardinality(Orphans) \in Nat
      BY FS_CardinalityType DEF OrphansCounted
    <3>2. /\ IsFiniteSet(Orphans \cup {p})
          /\ Cardinality(Orphans \cup {p}) =
               IF p \in Orphans THEN Cardinality(Orphans) ELSE Cardinality(Orphans) + 1
      BY <3>1, FS_AddElement
    <3>3. QED
      BY <3>1, <3>2
  <2>2. IsFiniteSet(Orphans') /\ Cardinality(Orphans') <= Cardinality(Orphans \cup {p})
    BY <1>2, <2>1, FS_Subset
  <2>3. /\ Cardinality(Orphans) \in Nat /\ Cardinality(Orphans') \in Nat
        /\ Cardinality(Orphans \cup {p}) \in Nat
    BY <2>1, <2>2, FS_CardinalityType DEF OrphansCounted
  <2>4. QED
    BY <1>2, <2>1, <2>2, <2>3 DEF OrphansCounted
<1>3. QED
  BY <1>1, <1>2 DEF OrphanStep

(* A step of a request that forgets no row it was about to name.           *)
LEMMA OrphansStay ==
  ASSUME IInv, NamesStay, NEW r \in Requests,
         \A q \in Requests : q # r => request'[q] = request[q],
         NEW p \in Known', p \in Orphans', p \in Known
  PROVE  p \in Orphans \/ (request[r].pc = "assign" /\ request[r].last = p)
<1>1. p \in Ids /\ ~Named(p)
  BY NamedStays DEF Known, Orphans, IInv
<1>2. \A q \in Requests : q # r /\ request[q].pc = "assign" => request[q].last # p
  BY DEF Orphans
<1>3. QED
  BY <1>1, <1>2 DEF Orphans

LEMMA OnboardingOrphans ==
  ASSUME IInv, OnboardingNext, UNCHANGED listingVars
  PROVE  OrphanStep
<1>0. NamesStay /\ faults \in Nat
  BY OnboardingIInv DEF IInv, TypeOK
<1>1. ASSUME NEW r \in Requests, NEW t \in Tenants, StartWizard(r, t) \/ StartImport(r, t)
      PROVE  OrphanStep
  <2>1. /\ UNCHANGED <<products, faults>> /\ request[r] = NoRequest
        /\ \A q \in Requests : q # r => request'[q] = request[q]
    BY <1>1 DEF StartWizard, StartImport, Start, IInv, TypeOK
  <2>2. Known' = Known /\ request[r].pc # "assign"
    BY <2>1 DEF Known, NoRequest
  <2>3. Orphans' \subseteq Orphans
    BY <1>0, <2>1, <2>2, OrphansStay DEF Orphans
  <2>4. QED
    BY <1>0, <2>1, <2>3 DEF OrphanStep
<1>2. ASSUME NEW r \in Requests, CreateTenant(r)
      PROVE  OrphanStep
  <2>1. /\ UNCHANGED <<products, faults>> /\ request[r].pc = "tenant"
        /\ \A q \in Requests : q # r => request'[q] = request[q]
    BY <1>2 DEF CreateTenant, GoOn, IInv, TypeOK
  <2>2. Known' = Known
    BY <2>1 DEF Known
  <2>3. Orphans' \subseteq Orphans
    BY <1>0, <2>1, <2>2, OrphansStay DEF Orphans
  <2>4. QED
    BY <1>0, <2>1, <2>3 DEF OrphanStep
<1>3. ASSUME NEW r \in Requests, InsertProduct(r)
      PROVE  OrphanStep
  <2>1. PICK p \in Ids, t \in Tenants :
          /\ Insert(p, t, NewStock) /\ UNCHANGED faults /\ request[r].pc = "insert"
          /\ request'[r].pc = "assign" /\ request'[r].last = p
          /\ \A q \in Requests : q # r => request'[q] = request[q]
    <3>1. request[r] \in RequestStates /\ request[r].tenant \in Tenants
      BY <1>3 DEF InsertProduct, IInv, TypeOK, RequestsRight, RequestRight
    <3>2. QED
      BY <1>3, <3>1 DEF InsertProduct, IInv, TypeOK, RequestStates
  <2>2. Known' = Known \cup {p}
    BY <2>1, InsertFacts DEF IInv
  <2>3. p \notin Orphans'
    BY <2>1 DEF Orphans
  <2>4. Orphans' \subseteq Orphans
    BY <1>0, <2>1, <2>2, <2>3, OrphansStay DEF Orphans
  <2>5. QED
    BY <1>0, <2>1, <2>4 DEF OrphanStep
<1>4. ASSUME NEW r \in Requests, AssignId(r)
      PROVE  OrphanStep
  <2>1. PICK p \in Ids, t \in Tenants :
          /\ AssignRetailerId(t, p) /\ products[p].tenant = t /\ UNCHANGED faults
          /\ p = request[r].last
          /\ \A q \in Requests : q # r => request'[q] = request[q]
    BY <1>4 DEF AssignId, GoOn, IInv, TypeOK, RequestsRight, RequestRight
  <2>2. Known' = Known /\ Named(p)'
    BY <2>1, AssignFacts DEF IInv
  <2>3. Orphans' \subseteq Orphans
    BY <1>0, <2>1, <2>2, OrphansStay DEF Orphans
  <2>4. QED
    BY <1>0, <2>1, <2>3 DEF OrphanStep
<1>5. ASSUME NEW r \in Requests, LoseAnswer(r)
      PROVE  OrphanStep
  <2>1. /\ request[r].pc \in {"tenant", "insert", "assign"} /\ faults' = faults + 1
        /\ request[r] \in RequestStates /\ request[r].tenant \in Tenants
        /\ request'[r].pc = request[r].pc /\ request'[r].last = request[r].last
        /\ \A q \in Requests : q # r => request'[q] = request[q]
    BY <1>5 DEF LoseAnswer, IInv, TypeOK, RequestsRight, RequestRight, RequestStates
  <2>2. CASE request[r].pc = "insert"
    <3>1. PICK p \in Ids, t \in Tenants : Insert(p, t, NewStock)
      BY <1>5, <2>1, <2>2 DEF LoseAnswer
    <3>2. Known' = Known \cup {p}
      BY <3>1, InsertFacts DEF IInv
    <3>3. Orphans' \subseteq Orphans \cup {p}
      BY <1>0, <2>1, <3>2, OrphansStay DEF Orphans
    <3>4. QED
      BY <2>1, <3>3 DEF OrphanStep
  <2>3. CASE request[r].pc # "insert"
    <3>1. Known' = Known
      <4>1. CASE request[r].pc = "tenant"
        BY <1>5, <4>1 DEF LoseAnswer, Known
      <4>2. CASE request[r].pc = "assign"
        <5>1. PICK p \in Ids, t \in Tenants : AssignRetailerId(t, p) /\ products[p].tenant = t
          BY <1>5, <4>2 DEF LoseAnswer, IInv, RequestsRight, RequestRight
        <5>2. QED
          BY <5>1, AssignFacts DEF IInv
      <4>3. QED
        BY <2>1, <2>3, <4>1, <4>2
    <3>2. Orphans' \subseteq Orphans
      BY <1>0, <2>1, <3>1, OrphansStay DEF Orphans
    <3>3. QED
      BY <1>0, <2>1, <3>2 DEF OrphanStep
  <2>4. QED
    BY <2>2, <2>3
<1>6. ASSUME NEW r \in Requests, Die(r)
      PROVE  OrphanStep
  <2>1. /\ UNCHANGED products /\ faults' = faults + 1
        /\ \A q \in Requests : q # r => request'[q] = request[q]
    BY <1>6 DEF Die, IInv, TypeOK
  <2>2. Known' = Known
    BY <2>1 DEF Known
  <2>3. CASE request[r].pc = "assign"
    <3>1. PICK p \in Ids : p = request[r].last
      BY <2>3 DEF IInv, RequestsRight, RequestRight
    <3>2. Orphans' \subseteq Orphans \cup {p}
      BY <1>0, <2>1, <2>2, <3>1, OrphansStay DEF Orphans
    <3>3. QED
      BY <2>1, <3>2 DEF OrphanStep
  <2>4. CASE request[r].pc # "assign"
    <3>1. Orphans' \subseteq Orphans
      BY <1>0, <2>1, <2>2, <2>4, OrphansStay DEF Orphans
    <3>2. QED
      BY <1>0, <2>1, <3>1 DEF OrphanStep
  <2>5. QED
    BY <2>3, <2>4
<1>7. QED
  BY <1>1, <1>2, <1>3, <1>4, <1>5, <1>6 DEF OnboardingNext

LEMMA ListingOrphans ==
  ASSUME IInv, UNCHANGED onboardingVars, SameNames
  PROVE  OrphanStep
<1>1. Orphans' = Orphans
  BY OnboardingStays DEF Orphans, Named, SameNames, onboardingVars, Known
<1>2. QED
  BY <1>1 DEF OrphanStep, IInv, TypeOK, onboardingVars

(* Rows without an id are orphans or about to be named.                    *)
THEOREM FaultsLeaveNoIdAlways == Spec => []FaultsLeaveNoId
<1>1. Init => OrphansCounted
  <2> SUFFICES ASSUME Init
               PROVE  OrphansCounted
    OBVIOUS
  <2>1. Orphans = {} /\ faults = 0
    BY ProductAssumption DEF Init, OnboardingInit, NoProducts, NoProduct, Known, Orphans
  <2>2. QED
    BY <2>1, FS_EmptySet DEF OrphansCounted
<1>2. IInv /\ OrphansCounted /\ [Next]_vars => OrphansCounted'
  <2> SUFFICES ASSUME IInv, OrphansCounted, [Next]_vars
               PROVE  OrphansCounted'
    OBVIOUS
  <2>1. OrphanStep
    <3>1. CASE OnboardingNext /\ UNCHANGED listingVars
      BY <3>1, OnboardingOrphans
    <3>2. CASE ListingNext /\ UNCHANGED onboardingVars
      BY <3>2, FetchFeedIInv, FillBasketIInv, SendOrderIInv, CheckoutOrderIInv,
         LoadFormIInv, SaveFormIInv, ToggleActiveIInv, ListingOrphans DEF ListingNext
    <3>3. CASE UNCHANGED vars
      BY <3>3, UnchangedSameNames, ListingOrphans DEF vars
    <3>4. QED
      BY <3>1, <3>2, <3>3 DEF Next
  <2>2. faults \in Nat /\ faults' \in Nat
    BY NextIInv DEF IInv, TypeOK
  <2>3. QED
    BY <2>1, <2>2, OrphanStepCounted
<1>3. IInv /\ OrphansCounted => FaultsLeaveNoId
  <2> SUFFICES ASSUME IInv, OrphansCounted
               PROVE  FaultsLeaveNoId
    OBVIOUS
  <2> DEFINE Unnamed == {p \in Known : products[p].retailer = NoRetailerId}
             Between == {r \in Requests : request[r].pc = "assign"}
             Lasts == {request[r].last : r \in Between}
  <2>1. IsFiniteSet(Between)
    BY OnboardingAssumption, FS_Subset
  <2>2. IsFiniteSet(Lasts) /\ Cardinality(Lasts) <= Cardinality(Between)
    <3>1. [r \in Between |-> request[r].last] \in Surjection(Between, Lasts)
      BY DEF Surjection
    <3>2. QED
      BY <2>1, <3>1, FS_Surjection
  <2>3. Unnamed \subseteq Orphans \cup Lasts
    BY DEF Orphans, Named
  <2>4. /\ IsFiniteSet(Orphans \cup Lasts)
        /\ Cardinality(Orphans \cup Lasts) <= Cardinality(Orphans) + Cardinality(Lasts)
    <3> HIDE DEF Lasts
    <3>1. IsFiniteSet(Orphans)
      BY DEF OrphansCounted
    <3>2. /\ IsFiniteSet(Orphans \cup Lasts) /\ IsFiniteSet(Orphans \cap Lasts)
          /\ Cardinality(Orphans \cup Lasts) =
               Cardinality(Orphans) + Cardinality(Lasts) - Cardinality(Orphans \cap Lasts)
      BY <2>2, <3>1, FS_Union, FS_Intersection
    <3>3. /\ Cardinality(Orphans) \in Nat /\ Cardinality(Lasts) \in Nat
          /\ Cardinality(Orphans \cap Lasts) \in Nat
      BY <2>2, <3>1, <3>2, FS_CardinalityType
    <3>4. QED
      BY <3>2, <3>3
  <2>5. IsFiniteSet(Unnamed) /\ Cardinality(Unnamed) <= Cardinality(Orphans \cup Lasts)
    BY <2>3, <2>4, FS_Subset
  <2>6. /\ Cardinality(Unnamed) \in Nat /\ Cardinality(Orphans \cup Lasts) \in Nat
        /\ Cardinality(Orphans) \in Nat /\ Cardinality(Lasts) \in Nat
        /\ Cardinality(Between) \in Nat /\ faults \in Nat
    BY <2>1, <2>2, <2>4, <2>5, FS_CardinalityType DEF OrphansCounted, IInv, TypeOK
  <2> HIDE DEF Lasts
  <2>7. Cardinality(Unnamed) <= Cardinality(Between) + faults
    BY <2>2, <2>4, <2>5, <2>6 DEF OrphansCounted
  <2>8. QED
    BY <2>7 DEF FaultsLeaveNoId
<1>4. IInv /\ [Next]_vars => IInv'
  BY NextIInv
<1>5. QED
  BY InitIInv, <1>1, <1>2, <1>3, <1>4, PTL DEF Spec
=============================================================================
