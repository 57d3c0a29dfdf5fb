------------------------------ MODULE Catalog ------------------------------
(***************************************************************************)
(* A customer pages through the shop (core/commerce_flow.py) while the     *)
(* merchant edits the catalog it is built from (portal/products.py): the   *)
(* session keeps only an offset into a list that is made anew for every    *)
(* page.                                                                   *)
(*                                                                         *)
(* Only the products' activity and category matter here, and of the        *)
(* conversation only whether it is idle, in the list, or in a state that   *)
(* returns to the list with the session's context (product detail, cart    *)
(* and the ones between).  The service is one process, so a handler reads  *)
(* the products without an edit in between.                                *)
(***************************************************************************)
EXTENDS Integers, Sequences, FiniteSets, FiniteSetsExt, Functions

CONSTANTS ProductCount,   \* bound: products are 1 .. ProductCount, in order of id
          Categories,
          MaxRows,        \* MAX_LIST_ROWS
          MaxNative,      \* _MAX_NATIVE_PRODUCTS
          MaxSections,    \* _MAX_NATIVE_SECTIONS
          MaxEdits        \* bound on the merchant's edits

ASSUME CatalogAssumption ==
  /\ ProductCount \in Nat /\ MaxEdits \in Nat
  /\ MaxRows \in Nat \ {0, 1} /\ MaxNative \in Nat \ {0} /\ MaxSections \in Nat \ {0}

VARIABLES catalog,    \* the products table
          linked,     \* whether the tenant has a Meta catalog
          state,      \* the session's state, and
          offset,     \* ... its context's shop_offset (0 when there is none)
          page,       \* the last product list the customer was sent
          seeMore,    \* whether a list message with a "See more" row was sent
          walk,       \* rows of the pages since the first one (history)
          intact,     \* ... if the customer only turned them one by one (history)
          edits

vars == <<catalog, linked, state, offset, page, seeMore, walk, intact, edits>>

Products == 1 .. ProductCount
Rows == [status : {"absent", "active", "inactive"}, category : Categories, tagged : BOOLEAN]
Pages == [kind : {"none", "list", "native"}, rows : Seq(Products), more : BOOLEAN,
          sections : Nat]

NoPage == [kind |-> "none", rows |-> <<>>, more |-> FALSE, sections |-> 0]

-----------------------------------------------------------------------------
(* What a page shows.  A definition followed by a longer name              *)
(* (BeforeById, ...) is a way to get it wrong, for the runs to reject.     *)

Active == {p \in Products : catalog[p].status = "active"}

(* _group_products_by_category, flattened: categories by their first       *)
(* product, products by id.                                                *)
InCategoryOf(p) == {q \in Active : catalog[q].category = catalog[p].category}
First(p) == Min(InCategoryOf(p))

BeforeById(p, q) == p < q
Before(p, q) == First(p) < First(q) \/ (First(p) = First(q) /\ p < q)

(* The products of S as a sequence: each after those that come before it.  *)
Place(p, S) == Cardinality({q \in S : Before(q, p)})
InOrder(S) == [i \in 1 .. Cardinality(S) |-> CHOOSE p \in S : Place(p, S) = i - 1]
Flat == InOrder(Active)

Shorter(i, j) == IF i < j THEN i ELSE j

(* _send_product_list's window: "See more" takes a row of its own.         *)
HasMore(o) == o + MaxRows < Cardinality(Active)

LimitUnreserved(o) == MaxRows
Limit(o) == IF HasMore(o) THEN MaxRows - 1 ELSE MaxRows

(* The number of sections rows s take: one for each category.              *)
Sections(s) == Cardinality({catalog[p].category : p \in Range(s)})

ListPage(o) ==
  LET flat == Flat
      rows == SubSeq(flat, o + 1, Shorter(o + Limit(o), Len(flat)))
  IN
  [kind |-> "list", rows |-> rows, more |-> HasMore(o), sections |-> Sections(rows)]

(* _handle_shop_list on "See more".                                        *)
NextOffsetWhole == IF offset + MaxRows >= Cardinality(Active) THEN 0 ELSE offset + MaxRows
NextOffsetLate == IF offset + MaxRows - 1 > Cardinality(Active) THEN 0 ELSE offset + MaxRows - 1
NextOffset == IF offset + MaxRows - 1 >= Cardinality(Active) THEN 0 ELSE offset + MaxRows - 1

(* _send_native_product_list: the first products with a retailer id, of    *)
(* the first categories that have one.                                     *)
Tagged == InOrder({p \in Active : catalog[p].tagged})
NativeRows ==
  LET tagged == Tagged
      Fits(n) == n <= MaxNative /\ Sections(SubSeq(tagged, 1, n)) <= MaxSections
  IN  SubSeq(tagged, 1, Max({n \in 0 .. Len(tagged) : Fits(n)}))
NativePage == [kind |-> "native", rows |-> NativeRows, more |-> FALSE,
               sections |-> Sections(NativeRows)]

(* Meta may refuse a native list, and does refuse an empty one.            *)
PagesAt(o) ==
  {ListPage(o)} \cup (IF linked /\ NativeRows # <<>> THEN {NativePage} ELSE {})

-----------------------------------------------------------------------------
(* _send_product_list: without active products it sends nothing.           *)
Show(o) ==
  IF Active = {} THEN UNCHANGED <<page, seeMore>>
  ELSE \E pg \in PagesAt(o) :
         /\ page' = pg
         /\ seeMore' = (seeMore \/ pg.more)

(* The walk goes on with the page just sent, if it was one of the list.    *)
BreakWalk == walk' = <<>> /\ intact' = FALSE
Walk(before, goesOn) ==
  IF goesOn /\ page'.kind = "list" THEN walk' = before \o page'.rows /\ intact' = TRUE
  ELSE BreakWalk

Init ==
  /\ catalog \in [Products -> {r \in Rows : r.tagged /\ r.status # "inactive"}]
  /\ \A p \in Products : p > 1 /\ catalog[p].status = "active" => catalog[p - 1].status = "active"
  /\ \A p \in Products : catalog[p].status = "absent" =>
       catalog[p].category = CHOOSE c \in Categories : TRUE
  /\ linked \in BOOLEAN
  /\ state = "IDLE"
  /\ offset = 0
  /\ page = NoPage
  /\ seeMore = FALSE
  /\ walk = <<>>
  /\ intact = FALSE
  /\ edits = 0

(* _start_shop, from any state of the conversation.                        *)
StartShop ==
  /\ Show(0)
  /\ state' = IF Active = {} THEN "IDLE" ELSE "SHOP_LIST"
  /\ offset' = 0
  /\ Walk(<<>>, Active # {})
  /\ UNCHANGED <<catalog, linked, edits>>

(* "See more", on the page the customer has or on an older one.            *)
SeeMore ==
  /\ state = "SHOP_LIST"
  /\ seeMore
  /\ Show(NextOffset)
  /\ offset' = NextOffset
  /\ IF NextOffset = 0 THEN Walk(<<>>, Active # {}) ELSE Walk(walk, intact /\ page.more)
  /\ UNCHANGED <<catalog, linked, state, edits>>

(* A product's row, in the last list message or in an older one; a product *)
(* that is gone gets a note and the page again.                            *)
ChooseProduct(p) ==
  /\ state = "SHOP_LIST"
  /\ catalog[p].status # "absent"
  /\ IF p \in Active THEN state' = "AWAY" /\ UNCHANGED <<page, seeMore>>
     ELSE Show(offset) /\ UNCHANGED state
  /\ UNCHANGED <<catalog, linked, offset, walk, intact, edits>>

(* Any other message in the list.                                          *)
Refresh ==
  /\ state = "SHOP_LIST"
  /\ Show(offset)
  /\ UNCHANGED <<catalog, linked, state, offset, walk, intact, edits>>

(* "Back to products", "Continue shopping", or Add to cart on a product    *)
(* that is gone.                                                           *)
ReturnToList ==
  /\ state = "AWAY"
  /\ state' = "SHOP_LIST"
  /\ Show(offset)
  /\ UNCHANGED <<catalog, linked, offset, walk, intact, edits>>

(* The session times out, is reset or checked out.                         *)
Leave ==
  /\ state # "IDLE"
  /\ state' = "IDLE"
  /\ offset' = 0
  /\ BreakWalk
  /\ UNCHANGED <<catalog, linked, page, seeMore, edits>>

-----------------------------------------------------------------------------
(* The merchant's edits of the catalog.                                    *)

Edit(p, row) ==
  /\ edits < MaxEdits
  /\ edits' = edits + 1
  /\ catalog' = [catalog EXCEPT ![p] = row]
  /\ BreakWalk
  /\ UNCHANGED <<linked, state, offset, page, seeMore>>

(* create_product: the retailer id follows in a statement of its own,      *)
(* which a crash may cut off.                                              *)
AddProduct(p, c, tagged) ==
  /\ catalog[p].status = "absent"
  /\ \A q \in Products : q < p => catalog[q].status # "absent"
  /\ Edit(p, [status |-> "active", category |-> c, tagged |-> tagged])

(* product_toggle_active.                                                  *)
ToggledMisspelt(status) == IF status = "active" THEN "deactivated" ELSE "active"
Toggled(status) == IF status = "active" THEN "inactive" ELSE "active"

ToggleActive(p) ==
  /\ catalog[p].status # "absent"
  /\ Edit(p, [catalog[p] EXCEPT !.status = Toggled(@)])

(* product_edit_submit, as far as it moves a product to another category.  *)
Recategorise(p, c) ==
  /\ catalog[p].status # "absent"
  /\ c # catalog[p].category
  /\ Edit(p, [catalog[p] EXCEPT !.category = c])

Next ==
  \/ StartShop \/ SeeMore \/ Refresh \/ ReturnToList \/ Leave
  \/ \E p \in Products :
       \/ ChooseProduct(p)
       \/ ToggleActive(p)
       \/ \E c \in Categories :
            Recategorise(p, c) \/ \E tagged \in BOOLEAN : AddProduct(p, c, tagged)

Spec == Init /\ [][Next]_vars

-----------------------------------------------------------------------------
TypeOK ==
  /\ catalog \in [Products -> Rows]
  /\ linked \in BOOLEAN
  /\ state \in {"IDLE", "SHOP_LIST", "AWAY"}
  /\ offset \in Nat
  /\ page \in Pages
  /\ seeMore \in BOOLEAN
  /\ walk \in Seq(Products)
  /\ intact \in BOOLEAN
  /\ edits \in 0 .. MaxEdits

(* Meta refuses a message over its limits: ten rows including "See more",  *)
(* whatever offset the catalog has shrunk or grown under, and thirty cards *)
(* in ten sections; and no message lists a product twice.                  *)
PageFits ==
  /\ page.kind = "list" => Len(page.rows) + (IF page.more THEN 1 ELSE 0) <= MaxRows
  /\ page.kind = "native" => Len(page.rows) <= MaxNative /\ page.sections <= MaxSections
  /\ Cardinality(Range(page.rows)) = Len(page.rows)

(* _send_product_list: "every product stays reachable".  A customer who    *)
(* turns page after page to the last one has seen every active product,    *)
(* and none of them twice.                                                 *)
EveryProductReachable ==
  intact /\ page.kind = "list" /\ ~page.more =>
    Range(walk) = Active /\ Len(walk) = Cardinality(Active)

(* Turning the pages of an unedited catalog, the customer never meets a    *)
(* product of another category between two of one: what of a category did  *)
(* not fit on a page opens the next one.  This is all there is to the      *)
(* docstring's "keeps a category's products together across "See more"     *)
(* pages rather than splitting one down the middle": the rows are cut by   *)
(* number, so a page end does split a category.                            *)
CategoriesStayTogether ==
  intact => \A i, j, k \in DOMAIN walk :
    i < j /\ j < k /\ catalog[walk[i]].category = catalog[walk[k]].category
      => catalog[walk[j]].category = catalog[walk[i]].category

(* However the catalog changed since the last page, "See more" leads to a  *)
(* page with products on it as long as there are any.                      *)
MoreIsNeverEmpty == [][SeeMore /\ Active # {} => page'.rows # <<>>]_vars
=============================================================================
