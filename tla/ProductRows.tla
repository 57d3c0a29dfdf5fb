----------------------------- MODULE ProductRows -----------------------------
(***************************************************************************)
(* The products table of all tenants and the statements that               *)
(* db/repository.py runs on it, for the modules Onboarding (which fills    *)
(* it) and Listing (which shows, edits and sells what is in it).           *)
(*                                                                         *)
(* A retailer id, the text "t<tenant>-p<product>" by which Meta's catalog  *)
(* and its orders know a product, is the pair of the two.  Names, prices,  *)
(* pictures and categories are left out.                                   *)
(***************************************************************************)
EXTENDS Integers, FiniteSets

CONSTANTS Tenants,
          NoTenant,       \* the tenant of a row that does not exist
          MaxProducts,    \* bound: products ever inserted, of all tenants
          MaxEvents       \* bound: requests, faults, visits and edits together

ASSUME ProductAssumption ==
  /\ NoTenant \notin Tenants
  /\ MaxProducts \in Nat
  /\ MaxEvents \in Nat

VARIABLES products,       \* products[p]: the row with id p
          events          \* the bounded events so far

Event == events < MaxEvents /\ events' = events + 1

Ids == 1 .. MaxProducts

NoRetailerId == <<NoTenant, 0>>
RetailerIds == (Tenants \X Ids) \cup {NoRetailerId}

(* _catalog_retailer_id; a stock-keeping unit, which real catalogs repeat, *)
(* would be the wrong choice.                                              *)
RetailerIdFromSku(t, p) == <<t, 1>>
RetailerIdOf(t, p) == <<t, p>>

Products == [tenant   : Tenants \cup {NoTenant},
             retailer : RetailerIds,
             active   : BOOLEAN,
             stock    : Nat]

NoProduct == [tenant |-> NoTenant, retailer |-> NoRetailerId, active |-> FALSE, stock |-> 0]

NoProducts == [p \in Ids |-> NoProduct]

Known == {p \in Ids : products[p].tenant # NoTenant}

(* The id that the SERIAL column gives to the next row.                    *)
IsNextId(p) == p \in Ids \ Known /\ \A q \in Ids : q < p => q \in Known

-----------------------------------------------------------------------------
(* The statements.                                                         *)

(* create_product's INSERT: is_active defaults to 1, catalog_retailer_id   *)
(* to NULL.                                                                *)
Insert(p, t, stock) ==
  /\ IsNextId(p)
  /\ products' = [products EXCEPT ![p] =
       [tenant |-> t, retailer |-> NoRetailerId, active |-> TRUE, stock |-> stock]]

(* create_product's second statement; the newest row may be another's.     *)
AssignRetailerIdToNewest(t, p) ==
  \E q \in Known :
    /\ \A r \in Known : r <= q
    /\ products' = [products EXCEPT ![q].retailer = RetailerIdOf(t, p)]
AssignRetailerId(t, p) ==
  products' = [products EXCEPT ![p].retailer = RetailerIdOf(t, p)]

(* update_product.                                                         *)
SetStock(p, stock) == products' = [products EXCEPT ![p].stock = stock]

(* set_product_active.                                                     *)
SetActive(p, active) == products' = [products EXCEPT ![p].active = active]

(* get_active_products.                                                    *)
ActiveProducts(t) == {p \in Known : products[p].tenant = t /\ products[p].active}

(* get_product_by_retailer_id.                                             *)
ByRetailerId(t, r) == {p \in Known : products[p].tenant = t /\ products[p].retailer = r}
=============================================================================
