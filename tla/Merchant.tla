------------------------------- MODULE Merchant -------------------------------
(***************************************************************************)
(* The life of a merchant's products: Onboarding enters them, Listing      *)
(* publishes, sells and edits them, and the two meet in the products table *)
(* while requests, feeds, carts and forms overlap.                         *)
(***************************************************************************)
EXTENDS Onboarding, Listing

vars == <<products, events, onboardingVars, listingVars>>

Init == events = 0 /\ OnboardingInit /\ ListingInit

Next ==
  \/ OnboardingNext /\ UNCHANGED listingVars
  \/ ListingNext /\ UNCHANGED onboardingVars

Spec == Init /\ [][Next]_vars

(* Meta fetches every feed on a schedule.                                  *)
Fairness == \A t \in Tenants : WF_vars(FetchFeed(t) /\ UNCHANGED onboardingVars)

FairSpec == Spec /\ Fairness

-----------------------------------------------------------------------------
TypeOK ==
  /\ products \in [Ids -> Products]
  /\ tenants \subseteq Tenants
  /\ request \in [Requests -> RequestStates]
  /\ confirmed \subseteq Ids
  /\ faults \in Nat
  /\ catalog \in [Tenants -> SUBSET RetailerIds]
  /\ customer \in [Customers -> CustomerStates]
  /\ page \in [Pages -> Forms]
  /\ sold \in [Ids -> Nat]
  /\ supplied \in [Ids -> Nat]
  /\ unseen \in [Ids -> Nat]
  /\ events \in 0 .. MaxEvents

(* Once the operator or the merchant was told that their products are in,  *)
(* Meta can list every one of them under an id that is no other's, also if *)
(* requests interleaved between an INSERT and its UPDATE, or a statement   *)
(* ran twice.                                                              *)
ConfirmedIsListable ==
  \A p \in confirmed :
    LET t == products[p].tenant
        r == products[p].retailer IN
    t \in tenants /\ r # NoRetailerId /\ ByRetailerId(t, r) = {p}

(* A product that can never reach Meta's catalog, because it has no id, is *)
(* the price of one crash or one lost answer: no interleaving leaves more. *)
FaultsLeaveNoId ==
  LET Unnamed == {p \in Known : products[p].retailer = NoRetailerId}
      Between == {r \in Requests : request[r].pc = "assign"} IN
  Cardinality(Unnamed) <= Cardinality(Between) + faults

(* Forms that write back an old stock figure oversell a product by no more *)
(* than what was sold while they were open; without such a sale nothing is *)
(* sold that the merchant did not enter.                                   *)
StockBacked ==
  \A p \in Known : products[p].stock + sold[p] <= NewStock + supplied[p] + unseen[p]

(* A cart filled from Meta's catalog may be sent arbitrarily late: until   *)
(* then each id in it, and each id Meta shows, names one product, and      *)
(* never comes to name another one.                                        *)
Referenced(t) ==
  catalog[t] \cup UNION {{r \in RetailerIds : customer[c].basket[r] > 0} :
                           c \in {d \in Customers : customer[d].tenant = t}}

CartsStayValid ==
  [][\A t \in Tenants : \A r \in Referenced(t) :
       /\ Cardinality(ByRetailerId(t, r)) = 1
       /\ ByRetailerId(t, r)' = ByRetailerId(t, r)]_vars

(* When the merchants come to rest (the bound on events sees to that),     *)
(* Meta ends up listing exactly the products they show, and keeps doing    *)
(* so: an edit overtaken by a fetch is not lost, and neither is a product  *)
(* whose request died right after naming it.                               *)
Shown(p) ==
  p \in Known /\ products[p].active /\ products[p].retailer # NoRetailerId
Listed(p) == \E t \in Tenants : products[p].retailer \in catalog[t]

FeedFollows == <>[](\A p \in Ids : Listed(p) <=> Shown(p))
=============================================================================
