------------------------------- MODULE Listing -------------------------------
(***************************************************************************)
(* What happens to a product once it is in the table: Meta fetches the     *)
(* catalog feed (catalog/feed.py), customers fill WhatsApp's own cart from *)
(* it and send it as an order (handle_native_order in                      *)
(* core/commerce_flow.py), and the merchant edits the product through a    *)
(* form that shows its stock as it was when the page was loaded            *)
(* (portal/products.py).                                                   *)
(*                                                                         *)
(* checkout_cart is one step here; module Checkout takes it apart.  The    *)
(* carts of the bot's own conversation end in the same call.  Meta and the *)
(* customer's WhatsApp are modelled by what the handlers rely on: Meta     *)
(* replaces its catalog by each feed it fetches and rejects rows without   *)
(* an id, and a cart may be sent long after it was filled.                 *)
(***************************************************************************)
EXTENDS ProductRows

CONSTANTS Customers,
          Pages,         \* edit forms open at the same time
          MaxQuantity    \* bound: units of one product in a cart

ASSUME ListingAssumption == MaxQuantity \in Nat \ {0}

VARIABLES catalog,   \* catalog[t]: the retailer ids in Meta's copy of t's feed
          customer,  \* each customer's cart in WhatsApp and order under way
          page,      \* page[g]: the edit form, as loaded
          sold,      \* sold[p]: units checkouts took (history)
          supplied,  \* supplied[p]: units added through the form (history)
          unseen     \* unseen[p]: units sold while a form later saved was open (history)

listingVars == <<catalog, customer, page, sold, supplied, unseen>>

NoOrder == [p \in Ids |-> 0]

(* basket: what WhatsApp's cart holds, by retailer id.  cart: what the     *)
(* handler made of it, by product.                                         *)
Baskets == [RetailerIds -> 0 .. MaxQuantity]
EmptyBasket == [r \in RetailerIds |-> 0]

CustomerStates == [at : {"away", "filled", "ordering"}, tenant : Tenants \cup {NoTenant},
                   basket : Baskets, cart : [Ids -> Nat]]
Away == [at |-> "away", tenant |-> NoTenant, basket |-> EmptyBasket, cart |-> NoOrder]

Forms == [product : Ids \cup {0}, shown : Nat, sold : Nat]
NoForm == [product |-> 0, shown |-> 0, sold |-> 0]

ListingInit ==
  /\ catalog = [t \in Tenants |-> {}]
  /\ customer = [c \in Customers |-> Away]
  /\ page = [g \in Pages |-> NoForm]
  /\ sold = [p \in Ids |-> 0]
  /\ supplied = [p \in Ids |-> 0]
  /\ unseen = [p \in Ids |-> 0]

-----------------------------------------------------------------------------
(* Meta.                                                                   *)

(* build_feed_csv writes every active product of the tenant, and Meta      *)
(* drops the rows whose id is empty.                                       *)
FeedOfAll(t) == {products[p].retailer : p \in {q \in Known : products[q].tenant = t}}
                  \ {NoRetailerId}
Feed(t) == {products[p].retailer : p \in ActiveProducts(t)} \ {NoRetailerId}

FetchFeed(t) ==
  /\ catalog[t] # Feed(t)
  /\ catalog' = [catalog EXCEPT ![t] = Feed(t)]
  /\ UNCHANGED <<products, customer, page, sold, supplied, unseen, events>>

-----------------------------------------------------------------------------
(* The customer.                                                           *)

FillBasket(c, t) ==
  /\ customer[c].at = "away"
  /\ Event
  /\ catalog[t] # {}
  /\ \E basket \in [catalog[t] -> 0 .. MaxQuantity] :
       /\ \E r \in catalog[t] : basket[r] > 0
       /\ customer' = [customer EXCEPT ![c] =
            [at |-> "filled", tenant |-> t, cart |-> NoOrder,
             basket |-> [r \in RetailerIds |-> IF r \in catalog[t] THEN basket[r] ELSE 0]]]
  /\ UNCHANGED <<products, catalog, page, sold, supplied, unseen>>

(* handle_native_order up to the checkout: every line is looked up,        *)
(* unknown and inactive products are dropped, lines of one product add up. *)
CartOf(t, basket) ==
  LET Resolved(r) == CHOOSE p \in ByRetailerId(t, r) : TRUE IN
  [p \in Ids |->
     LET r == products[p].retailer IN
     IF p \in ByRetailerId(t, r) /\ p = Resolved(r) /\ products[p].active
       THEN basket[r] ELSE 0]

SendOrder(c) ==
  LET cart == CartOf(customer[c].tenant, customer[c].basket) IN
  /\ customer[c].at = "filled"
  /\ customer' = [customer EXCEPT ![c] =
       IF cart = NoOrder THEN Away
       ELSE [customer[c] EXCEPT !.at = "ordering", !.basket = EmptyBasket, !.cart = cart]]
  /\ UNCHANGED <<products, catalog, page, sold, supplied, unseen, events>>

(* checkout_cart: each line takes its units if the product is still active *)
(* and has them all, and is dropped otherwise.                             *)
TakenAnyway(cart) == {p \in Known : cart[p] > 0 /\ products[p].active}
Taken(cart) == {p \in Known : /\ cart[p] > 0
                              /\ products[p].active
                              /\ products[p].stock >= cart[p]}

Sale(c, units, taken) ==
  /\ customer[c].at = "ordering"
  /\ products' = [p \in Ids |-> [products[p] EXCEPT !.stock = @ - taken[p]]]
  /\ sold' = [p \in Ids |-> sold[p] + units[p]]
  /\ customer' = [customer EXCEPT ![c] = Away]
  /\ UNCHANGED <<catalog, page, supplied, unseen, events>>

UnitsOf(cart) == [p \in Ids |-> IF p \in Taken(cart) THEN cart[p] ELSE 0]

CheckoutOrderOfSingles(c) ==
  LET units == UnitsOf(customer[c].cart) IN
  Sale(c, units, [p \in Ids |-> IF units[p] > 0 THEN 1 ELSE 0])
CheckoutOrder(c) ==
  LET units == UnitsOf(customer[c].cart) IN Sale(c, units, units)

-----------------------------------------------------------------------------
(* The merchant.                                                           *)

(* product_edit_form.                                                      *)
LoadForm(g, p) ==
  /\ page[g] = NoForm
  /\ p \in Known
  /\ Event
  /\ page' = [page EXCEPT ![g] =
       [product |-> p, shown |-> products[p].stock, sold |-> sold[p]]]
  /\ UNCHANGED <<products, catalog, customer, sold, supplied, unseen>>

(* product_edit_submit writes every column of the form back, the stock     *)
(* figure included: the merchant changed something else, or added a unit   *)
(* to the figure shown.                                                    *)
SaveForm(g) ==
  LET p == page[g].product IN
  /\ page[g] # NoForm
  /\ \E added \in {0, 1} :
       /\ SetStock(p, page[g].shown + added)
       /\ supplied' = [supplied EXCEPT ![p] = @ + added]
  /\ unseen' = [unseen EXCEPT ![p] = @ + (sold[p] - page[g].sold)]
  /\ page' = [page EXCEPT ![g] = NoForm]
  /\ UNCHANGED <<catalog, customer, sold, events>>

(* product_toggle_active: read and write with no await in between.         *)
ToggleActive(p) ==
  /\ p \in Known
  /\ Event
  /\ SetActive(p, ~products[p].active)
  /\ UNCHANGED <<catalog, customer, page, sold, supplied, unseen>>

ListingNext ==
  \/ \E t \in Tenants : FetchFeed(t) \/ \E c \in Customers : FillBasket(c, t)
  \/ \E c \in Customers : SendOrder(c) \/ CheckoutOrder(c)
  \/ \E g \in Pages : SaveForm(g) \/ \E p \in Ids : LoadForm(g, p)
  \/ \E p \in Ids : ToggleActive(p)
=============================================================================
