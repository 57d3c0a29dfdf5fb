# A WhatsApp shop, verified

TLA+ models of the commerce bot in `src/`: a FastAPI service through which a
merchant's customers browse, order and pay over WhatsApp. The models are checked
with TLC on small instances; every safety property they are checked for is also proved
with TLAPS, for every instance. Liveness is left to TLC.

Commands, in this directory:

    tlasany Storefront.tla
    tlc -workers 2 -config Storefront.cfg Storefront.tla
    tlc -workers 2 -config Checkout.cfg MCCheckout.tla
    tlc -workers 2 -config Pricing.cfg MCPricing.tla
    tlc -workers 2 -config Merchant.cfg Merchant.tla
    tlapm OrderLifecycleProofs.tla
    tlapm NudgeJobProofs.tla
    tlapm MerchantProofs.tla
    tlapm CheckoutProofs.tla
    tlapm StorefrontProofs.tla
    tlapm FiniteSums.tla
    tlapm PricingProofs.tla
    tlapm CatalogProofs.tla

`PROJECT.json` lists the runs, for every property a wrong version of one mapped
definition that must break it, the lines of the source behind every definition,
the hazards the properties are for, and the theorems.

## 1. Inventory

### Components

| component | source | state | operations |
|---|---|---|---|
| Orders table | `db/repository.py`, `db/schema.sql` | one row per order: status, payment link, gateway reference, `nudge_sent_at` | single conditional UPDATEs: `mark_order_paid`, `mark_order_failed`, `mark_order_fulfilled`, `update_order_payment_link`, `mark_nudge_sent` |
| Order payment lifecycle | `core/commerce_flow.py`, `payments.py`, `core/main.py`, `portal/orders.py` | the row, links at Razorpay, webhook events | checkout's link, paid / failed / expired webhooks, "fulfill" button |
| Abandoned-cart nudges | `reminders/scheduler.py`, `core/main.py` | the run's list of orders | one run per cron call: read the list, then claim and message each |
| Atomic checkout | `db/repository.py` `checkout_cart`, `db/connection.py` | products and orders, the connection and its transaction | conditional decrements, INSERTs, commit, rollback, reconnect-and-retry |
| Conversation state machine | `core/commerce_flow.py` | the session: state and context (language, cart, product, coupon) | one handler per state, `handle_incoming` |
| Message lock, session store | `core/main.py`, `core/history.py` | a lock per (tenant, phone), sessions with a 30-minute timeout, in Redis or in the process | acquire, release, expire; get, set |
| Native catalog orders | `core/commerce_flow.py` `handle_native_order` | none of its own; the cart is in the customer's WhatsApp | the cart's retailer ids are mapped to products and checked out |
| Browsing and pagination | `core/commerce_flow.py` `_send_product_list`, `_handle_shop_list` | `shop_offset` in the session | list pages, "See more", native product lists |
| Prices, coupons, discounts | `db/repository.py`, `portal/coupons.py`, `core/commerce_flow.py` | coupons table | `coupon_validity_error`, `compute_discount`, preview in the cart, price at checkout |
| Portal: products and coupons | `portal/products.py`, `portal/coupons.py` | products, coupons; forms in open pages | add, load and save a form, switch, CSV import |
| Portal: dashboard, orders list, settings | `portal/dashboard.py`, `portal/orders.py`, `portal/settings.py` | tenant row | queries; one settings UPDATE |
| Portal login and sessions | `portal/auth.py`, `portal/session.py` | signed cookie | login, logout |
| Onboarding and wizard | `admin/onboarding.py`, `admin/onboarding_wizard.py` | tenants, products | validate, INSERT a tenant, INSERT and name its products one by one |
| Catalog feed | `catalog/feed.py` | Meta's copy of it | active products as CSV, fetched by Meta |
| WhatsApp client, signatures | `core/whatsapp.py`, `core/main.py` | none | build and send messages, parse webhooks, check HMACs |
| Strings, phone numbers | `core/strings.py`, `core/phone.py` | none | wording, normalisation |
| Database setup and seed | `db/init_db.py`, `db/seed.py` | none | run the schema, insert a demo tenant |
| Shopify converter | `scripts/convert_shopify_export.py` | none | CSV to CSV |

### How they interact

A customer's message reaches `receive_message`, which takes the (tenant, phone)
lock or drops the message, reads the session and dispatches to the handler of
its state. Handlers write the session, query products and send messages;
`_checkout` clears the session, calls `checkout_cart`, asks Razorpay for a
payment link and stores it on the order. From then on the order belongs to three
parties that know nothing of each other: Razorpay's webhooks, the merchant's
button and the cron job. What they share is the order row, and each changes it
through one conditional UPDATE, so the WHERE clauses carry the whole protocol.
The merchant's edits of products and stock run beside all of it.

Products reach WhatsApp's own catalog by another way: the wizard, the "new product"
form or a CSV import INSERTs a row, a second statement gives it its retailer id, Meta
fetches the feed when it likes, a customer fills a cart from Meta's copy and may send
it days later, and `handle_native_order` looks the ids up again.

### What is hard

* **Ordering and redelivery.** Razorpay delivers each event at least once, in any
  order; Meta redelivers messages; old WhatsApp buttons and old portal pages stay
  clickable forever.
* **Interleaving at awaits.** Handlers run on one event loop and suspend in sends
  of up to 30 seconds; the lock meant to keep a customer's handlers apart lasts 15.
* **Partial failure.** The process can die between the capture and the UPDATE,
  between the claim and the send, between clearing the session and creating the
  order; `checkout_cart` can fail anywhere, and a lost connection is replaced by
  an autocommitting one in the middle of a transaction.
  So can it between a product's INSERT and the UPDATE that names it, and a statement
  whose answer was lost runs a second time.
* **Stale reads.** The nudge list, `shop_offset`, the stock figure in an open form,
  Meta's copy of the feed and the carts filled from it.

### What makes each component correct

* Orders: shipped or counted as revenue only if paid for; before the shipment never two
  links that take money; money taken is recorded at least once; one confirmation for
  each shipment, with the right receipt.
* Nudges: at most one per order, oldest first, and everyone's turn comes, but for one
  order with each run that dies.
* Checkout: stock and orders agree, no oversale, no half order, and it ends.
* Conversation: a state has the context its handler reads; a cart is sold once.
* Lock: nothing done under it is overwritten; nobody is locked out for good.
* Browsing: no page over Meta's limits, every product can be reached, no category inside
  another.
* Products: each confirmed one can be listed, an id names one product for good, Meta
  ends up with what the merchant shows, and the stock sold was entered.
* Prices: who gets the whole cart pays what the cart message said unless price, coupon
  or day changed, every order can be recomputed from what it stores, and no coupon makes a
  total negative.

`PROJECT.json` lists every hazard at the line where it bites.

## 2. Modules

| module | models | composed with |
|---|---|---|
| `OrderRows` | the statements on one order row, as guard (WHERE) and effect (SET) | extended by `OrderLifecycle`, `NudgeJob` |
| `OrderLifecycle` | handlers around an order, Razorpay, the fulfil button, crashes | `OrderRows` |
| `OrderLifecycleProofs` | its theorems, the refinement of `OrderContract` among them | `OrderLifecycle` |
| `OrderContract` | what customer, merchant and bank may rely on | abstract, implemented by `OrderLifecycle` |
| `NudgeJob` | overlapping runs of the nudge job beside arbitrary order updates | `OrderRows` |
| `NudgeJobProofs` | its theorems | `NudgeJob` |
| `StockLedger` | what `checkout_cart` promises: a sale is one indivisible step | abstract |
| `Checkout` | `checkout_cart` statement by statement, row locks, faults | implements `StockLedger` |
| `CheckoutProofs` | its theorems | `Checkout`, `FiniteSums` |
| `MCCheckout` | carts and quantities for the runs | `Checkout` |
| `Storefront` | message lock, session store, state machine | |
| `StorefrontProofs` | its theorems | `Storefront` |
| `Catalog` | pagination over a catalog that is being edited | |
| `CatalogProofs` | its theorems | `Catalog`, `FiniteSums` |
| `Pricing` | cart messages, coupons, the price at checkout | |
| `MCPricing` | prices for the run, one of them negative | `Pricing` |
| `PricingProofs` | its theorems | `Pricing`, `FiniteSums` |
| `FiniteSums` | lemmas about finite sets and the sums over them | |
| `ProductRows` | the statements on the products table of all tenants | extended by the next two |
| `Onboarding` | wizard, "new product" and CSV import, statement by statement, with faults | `ProductRows` |
| `Listing` | feed, WhatsApp carts and native orders, edit forms, switches | `ProductRows` |
| `Merchant` | the two together, and their properties | `Onboarding`, `Listing` |
| `MerchantProofs` | its theorems | `Merchant` |

`OrderLifecycle.PlaceOrder` stands for the transaction that `Checkout` models, and
`Storefront.CreateOrder` for checkout and link together, so the three fit end to
end: a cart is sold at most once (`Storefront`), a sale is atomic (`Checkout`), a
sold order is charged once and shipped only when paid (`OrderLifecycle`).

### Correspondence

**OrderRows.** `CanX(row)` is the WHERE clause of `X`, `X(row)` its SET clause. Links
are numbered per order, 0 is NULL. `payment_gateway_reference` is abstracted to
what it names: nothing, a `plink_` or a `pay_` id. Money, timestamps,
`payment_method` and language are left out. `mark_order_paid`'s COALESCE is the
assignment of a `pay_` id: a paid event carries one.

**OrderLifecycle.** A worker is a handler execution; `pc` is its next statement: `mark`
(the conditional UPDATE), `create` (`create_payment_link`), `store`
(`update_order_payment_link`), `send`. `Deliver` is `receive_payment_webhook` up to
`get_order`; `events` is what Razorpay may still deliver, in any order and again and
again. Taking an event up does not remove it. `Answer` does: a handler of a payment that
ran to its end is answered with a 200, which gets through, and the event is gone, or is
lost. A death, or a statement that raises, answers nothing. Of failed and expired events
the model keeps the possibility forever, which is more than Razorpay does. `LinkRefused` is every way `create_payment_link` can raise, the
lost answer that leaves an unknown link included. External: a link is payable
until paid or expired, and only links written to the row are ever shown to the
customer. A link does not expire in the instant between its creation and the
statement that stores it (`BeingStored`): links live for days.

**OrderContract.** Five sets and six steps: an order is placed, charged, recorded as
paid, confirmed, shipped, and its payment may lapse from the books after shipment.
`OrderLifecycle.Contract` gives the mapping: the row is `placed`, the paid links are
`receipts`, `paid` or `fulfilled` is `recorded`. Workers, events, links not paid and
retries disappear, so that a guard such as "no second charge before shipment" has to
follow from all of them.

**NudgeJob.** `queue[j]` is what is left of the list that run `j` read, a set that
is worked through smallest, hence oldest, first (`IsNext`, the ORDER BY).
`NudgeNext` is one turn of the loop up to the await, `SendReturns` the end of the
await. `ClaimAnswerLost` is the claim whose answer the connection took with it: the
repeated UPDATE matches nothing, and the run believes that somebody else claimed the
order. `nudges` counts messages, not claims: it grows when the send ends, and under a
`Crash` the message may have gone out or not. `PassedOver` are the orders that were
claimed and whose message never went out nor will. Between any two steps anything may
happen, as with several processes; what one process can do is among that.

**Checkout.** `Take` is one turn of the cart loop, `InsertOrder` and `InsertItem` the
INSERTs, `Commit` and `Fail` the two exits of the `with` block. `held` are the row
locks of READ COMMITTED; a decrement that matches waits for the lock and is then
judged again. `Reconnect` is the `OperationalError` branch of
`_PGConnection.execute`. `_Transaction` keeps the old connection, so its `__exit__`
meets an aborted (`DeadlockVictim`) or closed (`LoseConnection`) one.

**Storefront.** The operators `Handle...` map a session and a message to the outcomes
their handler may decide on: the session it writes now, the one it writes after
its send (`later`; only `_start_shop` and `_start_orders_list` do), and the basket
it checks out. `Receive` is a delivery up to its first await, `CreateOrder` the
order after the session was cleared, `SendReturns` the rest with the release of
the lock.

**Catalog.** `Flat` is the category-grouped list, `ListPage` and `NativePage` are the two
messages, `Show` is `_send_product_list`, `NextOffset` the arithmetic of "See more".
`walk` and `intact` record an uninterrupted walk through the pages.
`ChooseProduct` lets any existing product be tapped, older list messages
included, and `AWAY` stands for every state that keeps `shop_offset`.

**Pricing.** Amounts are in hundredths. `SendCart` is `_send_cart`, `Discount` the coupon
branch it shares with `checkout_cart`, `Usable` is `coupon_validity_error` finding
nothing, `ComputeDiscount` is `compute_discount` with Decimal's rounding half to even.
`told` is the total of the last cart message, `current` whether prices, coupons and day
are still those of that message; a product that is switched off or sold out, to this
customer or another, does not end it (`SetSellable`). Prices may be negative: the form in
the portal refuses one, the wizard and the CSV import do not, nor does the schema.
`SHOP_LIST` stands for the product detail too.

**ProductRows, Onboarding, Listing, Merchant.** A retailer id, the text
`t<tenant>-p<product>`, is the pair of the two; what matters of the text is that it
determines both. `request[r]` is a handler of the wizard or the portal, `pc` its next
statement: `tenant` (`create_tenant`), `insert` and `assign` (the INSERT and the UPDATE
of `create_product`). `LoseAnswer` is the `except` branch of `execute`: the server ran
the statement, and it will run again; a second wizard statement on an existing tenant
is then its own `IntegrityError`. `Die` is a crash or a statement that raises.
`FetchFeed` is a fetch by Meta, which replaces its copy, `FillBasket` a customer in
WhatsApp (external), `SendOrder` and `CheckoutOrder` are `handle_native_order` before
and in `checkout_cart`; the latter is one step here because `Checkout` takes it apart.
`LoadForm` and `SaveForm` are the edit form's GET and POST, which writes back every
column. `sold`, `supplied`, `unseen` and `confirmed` are history.

A definition followed, or preceded, by one with a longer name
(`CanMarkFailedAgain`, `NextOffsetLate`) is a mistake somebody could have made in
that code. Nothing uses it; it is there to be put in place of the real one and be
rejected.

## 3. Runs

`pass` runs, with their bounds and why those are enough:

* **OrderLifecycle**: one order, two workers, three links, two shipments, one crash,
  a gateway that may fail. Orders share nothing but workers, so one order shows
  every interference between its own handlers. Two workers are needed for a race
  and a third only adds overtaking, which redelivery already gives. Three links
  are the first, its replacement and the replacement's. Two shipments let paid →
  fulfilled → paid happen.
  `PaidMeansCaptured`, `OneChargePerOrder`, `ConfirmedOncePerShipment`, `ReceiptKept`,
  `PaidIsOnlyFulfilled` (action), `CaptureIsRecorded` (liveness), `ContractSpec` (every
  behaviour is one of `OrderContract`).
  `CaptureIsRecorded` says that the order becomes paid at least once, although Razorpay
  stops at the first 200 that reaches it. It does not say for good: paid → fulfilled →
  a late failed or expired event leaves a captured order `failed`, and if the 200 has got
  through nothing brings it back (NoDowngradeAfterPayment below).
* **NudgeJob**: three orders, two overlapping runs, two faults: a run dies, or the answer
  to a claim is lost. Three orders are the one being nudged, an older and a younger
  one, and one more than the faults, so that two faults cannot excuse every order; both
  runs can die, or one twice. `NudgedAtMostOnce`, `OldestFirst`, `FaultsCostOneNudge`,
  `SettledIsLeftAlone` (action), `AbandonedIsNudged` (liveness). The claim comes before
  the send, so a death in between, or a claim whose answer is lost, costs its order the nudge
  for good. `FaultsCostOneNudge` bounds that: one order for each fault, however much the
  run still had on its list. `AbandonedIsNudged` says that every other order that stays
  unpaid gets its message.
* **Checkout**: three checkouts of two products, two of them in opposite orders, so that
  they deadlock, with failures anywhere; four events shared among checkouts begun,
  edits by the merchant and lost connections, so one edit and one lost connection are
  left when two checkouts run, or a third checkout. `StockConserved`: units go missing
  only for products of a checkout that reconnected. `OrdersAreWhole`, with the same
  exemption: no order row without its items unless its checkout reconnected. `CheckoutEnds`
  (liveness), and `LedgerSpec`: as long as no checkout has to connect anew, every step
  is one of `StockLedger`.
* **Storefront**: one customer, two deliveries at a time, one product, two units, two
  lock expiries, a restart. Sessions and locks are per customer, so one customer
  suffices; two deliveries are a message and what overtakes it. `ContextFits`,
  `SoldOnce`, `LateWriteLosesNothing`, `LockIsFreed` (liveness).
* **Catalog**: four products in two categories, pages of two rows, so up to three
  pages; native messages of two cards in one section, so both caps bind; two
  edits. Ten rows and thirty cards would only make the numbers bigger: the
  arithmetic is the same in `MaxRows`. `PageFits`, `EveryProductReachable`,
  `CategoriesStayTogether`, `MoreIsNeverEmpty` (action). `CategoriesStayTogether` is about
  what comes in between: a page end may well split a category (section 5).
* **Pricing**: two products, one unit of each, at -4, 4 or 12 (hundredths); one code; 12.5%,
  100% or 8 off, so halves round both ways, flat discounts lie below, at and above
  the subtotal, and subtotals below, at and above zero; two days; two edits.
  `OrderAddsUp`: an order explains itself, and its total is negative only without a coupon,
  of negative prices. `ChargedAsTold` (action): exact for a cart that is charged whole; for
  one of which something drops out only an upper bound, and that only if no price is
  negative. `CouponCountsToItsLastDay` (action).
* **Merchant**: two tenants, three products between them, two requests at a time of up
  to two products, one customer, one open form; four events shared among requests,
  faults, carts, loaded forms and switches. The wizard always is the first event, so
  three are left: enough for an import or the other tenant's wizard with a fault
  in each request, for a feed fetched around a switch or a request, for a cart sent after a
  switch and an import, or for a form loaded before and saved after a checkout. Two
  requests are what can come between an INSERT and its UPDATE, and two tenants what
  could share an id. `ConfirmedIsListable`, `FaultsLeaveNoId`, `StockBacked`,
  `CartsStayValid` (action), `FeedFollows` (liveness).

`violation` runs, each a sentence of the repository that the code does not keep:

* **ConfirmedOnce**: a paid event redelivered after the order was fulfilled passes
  `status != 'paid'`, takes the order back to `paid` and confirms again. What does
  hold is `ConfirmedOncePerShipment`.
* **NoDowngradeAfterPayment**: a late failed or expired event takes a fulfilled, hence
  paid, order to `failed`. What does hold is `PaidIsOnlyFulfilled`.
* **ExpiryGetsFreshLink**: when a link that had a failed attempt expires, the expiry
  is dropped as a duplicate, and the unpaid order keeps a dead link.
* **CompletedSalesConserved**: two checkouts with crossed carts and nothing else;
  after a deadlock the victim goes on in autocommit mode and its first decrements are
  gone, its order lists the items all the same, and no error was raised. The
  hazard needs more than one service process.
* **NoTwinOrders**: a send that outlasts the lock lets a redelivered native order in;
  two orders from one cart.

Three of the order runs use one worker, no crash and a gateway that always
answers: these need no race at all.

### Fairness

* Weak fairness of a handler's own steps: the event loop goes on with whatever is
  runnable, and sends and gateway calls have timeouts.
* Strong fairness of delivering a paid event that is still in `events`: Razorpay repeats
  a webhook until it gets a 200, and then the event is gone. All workers may be busy at
  any one attempt, so weak fairness would not do. Nothing is assumed about failed and
  expired events.
* Weak fairness of starting and continuing nudge runs: cron keeps calling.
* Weak fairness of a checkout's steps: PostgreSQL grants a free lock and resolves
  deadlocks. Each checkout runs once, so starvation cannot arise in the model.
* Weak fairness of lock expiry: the lock has a TTL in Redis and a deadline in memory.
* Weak fairness of `FetchFeed`: Meta fetches every feed on a schedule. `FeedFollows` says
  nothing of requests that stand still, and needs no fairness of theirs.

No fairness is assumed of customers, merchants, failures or crashes. `Catalog` and
`Pricing` have only safety properties and no fairness.

`CHECK_DEADLOCK FALSE` appears in the runs Checkout, CompletedSalesConserved and
Merchant: when every checkout or request has ended and the events are used up,
nothing is left to do. It appears in OrderLifecycle, ConfirmedOnce and
NoDowngradeAfterPayment too: an order that was paid and answered for, and shipped as often
as the bound allows, has nothing left to happen to it.

## 4. Proofs

`OrderLifecycleProofs` proves, for any sets of orders and workers, any numbers of
links, shipments and crashes, and a gateway that may or may not fail:

* `TypeCorrect`: `Spec => []TypeOK`
* `PaidMeansCapturedAlways`: `Spec => []PaidMeansCaptured`
* `OneChargePerOrderAlways`: `Spec => []OneChargePerOrder`
* `ReceiptKeptAlways`: `Spec => []ReceiptKept`
* `PaidStaysPaid`: `Spec => PaidIsOnlyFulfilled`

The assumptions are `MaxLinksAssumption` (a positive bound) and
`LifecycleAssumption` (an idle worker's order is no order; bounds are naturals);
TLC evaluates both in the OrderLifecycle run.

None of the properties is inductive by itself. The invariant `IInv` is

* `TypeInv`: `TypeOK` and `HandlerShapes`, which kind of handler is ever at which
  `pc`. Without it `DoStoreLink` could run in a paid handler.
* `EventsTrue`, `HandlersTrue`: an event, and a handler that has just taken one up,
  reports something Razorpay really did, and Razorpay never takes back a payment
  or an expiry. This carries `PaidMeansCaptured` from the event to the row.
* `StoredWereMade`: a row holds only links that exist.
* `PaidMeansCaptured` itself, inductive given the above.
* `UnshippedInv`: for each order not yet shipped, `OrderInv`: a pending order has
  at most one link ever made (`OneLinkMade`), at most one link can take or took
  money (`OneLinkLive`), the receipt names a capture (`ReceiptInv`), and at most one
  handler is making a link, and then no other live link exists (`MakersInv`).

The heart is `MakersInv`. Two expiry handlers cannot both make a link, since
`mark_order_failed` lets only the first one through and the status never leaves
`failed` but for `paid` or `fulfilled`; a handler that passed it took the order from
pending, when there was one link, and that link had expired. So the new link is
the only live one. The lemmas follow that argument, one per action
(`PlaceOrderInv`, `MarkPaidInv`, `MarkFailedInv`, `CreateLinkInv`, `LinkRefusedInv`,
`StoreLinkInv`, `GatewayInv`), with `OrderUntouched` and `OtherOrders` for what a step
leaves alone. "Not yet shipped" is essential: after a shipment a late failure can
reopen the order, which is the NoDowngradeAfterPayment run.

`OrderLifecycleProofs` goes on from that invariant, with the same assumptions:

* `ImplementsContract`: `Spec => ContractSpec`
* `ConfirmedOncePerShipmentAlways`: `Spec => []ConfirmedOncePerShipment`

For the refinement every action is shown to be one step of the contract or none that
shows (`Invisible`). Two guards of the contract need more than the action's own: a
payment before shipment meets no earlier receipt (`PayCharges`, from
`OneLinkLive`), and a confirmation sent after its UPDATE still knows
of a capture (`PaidHandlersTrue`, which follows a handler to its last step). For the
confirmations the invariant counts: those sent plus the handlers about to send are at
most the shipments, plus one while the row reads `paid` (`ConfirmInv`, by cardinality).
That an answer may take an event away disturbs none of this: fewer events are true when
more are (`AnswerEvents`).

`NudgeJobProofs` proves, for any number of orders, any set of runs and any number of
faults, from `MaxLinksAssumption` and `NudgeAssumption` (bounds are naturals):

* `TypeCorrect`: `Spec => []TypeOK`
* `NudgedAtMostOnceAlways`: `Spec => []NudgedAtMostOnce`
* `SettledIsLeftAloneAlways`: `Spec => SettledIsLeftAlone`
* `OldestFirstAlways`: `Spec => []OldestFirst`
* `FaultsCostOneNudgeAlways`: `Spec => []FaultsCostOneNudge`

A count of at most one is not inductive: nothing in it says when a further nudge is
impossible. The invariant adds that `nudge_sent_at` is set whenever the one nudge
went out (`NudgesRecorded`), and that a run only ever awaits the nudge of an order that is
claimed and has had no message yet, each at most one run (`SendersClaimed`). `RowFacts` shows that no
other statement on a row touches that mark, `NudgeNextIInv` that the claim, a
conditional UPDATE, is what makes the count stop.

`OldestFirst` speaks of what happened, and needs to know what will: that orders grow
old in the order of their numbers (`AgesInOrder`), and that a run which still has an
order to nudge also has every older one that waits (`ListsAreComplete`). Then the run
that takes the smallest of its list overtakes nobody, whatever the other runs do; what it
takes is claimed before anything younger is (`ClaimedInOrder`).

`FaultsCostOneNudge` counts: a death or a lost answer adds at most the one order its run was
about to `PassedOver` (`FaultCosts`), every other step adds none, since a send that ends
leaves a message behind and nothing but a claim sets the mark (`NothingCost`).

`MerchantProofs` proves, for any tenants, customers, pages, bounds and any finite set of
concurrent requests, from `ProductAssumption`, `OnboardingAssumption` and
`ListingAssumption` (bounds are naturals, no tenant is `NoTenant`; TLC evaluates all three
in the Merchant run):

* `TypeCorrect`: `Spec => []TypeOK`
* `ConfirmedIsListableAlways`: `Spec => []ConfirmedIsListable`
* `StockBackedAlways`: `Spec => []StockBacked`
* `CartsStayValidAlways`: `Spec => CartsStayValid`
* `FaultsLeaveNoIdAlways`: `Spec => []FaultsLeaveNoId`

`TypeOK` is not inductive alone: `unseen` stays a natural number only because no form
has seen more sales than there were. The invariant `IInv` adds

* `NamesRight`: an id in the table is that of its own row, hence unique
  (`RetailerIdInjective`), and no statement changes it (`NamesStay`);
* `RequestsRight`: of the rows a request made, all are named but the one it is about
  to name, so that those it confirms are (`ConfirmedRight`);
* `CatalogsRight`, `BasketsRight`: an id that left the table for Meta or a cart is still
  that of a row;
* `FormsRight`, `OnlyKnownSold`: the figure in an open form was backed when it was loaded,
  and what was sold since is exactly what saving it adds to `unseen`; without them
  `StockBacked` would not survive `SaveForm`.

`FaultsLeaveNoId` counts. `Orphans` are the rows without an id that no request is about
to name: an insertion hands its row to the request, naming takes it back, and only
`LoseAnswer` or `Die` add an orphan, one each (`OrphanStep`). A row without an id is an
orphan or the `last` of a request at `assign`, which gives the bound.

`CheckoutProofs` proves, for any products, carts, numbers of checkouts, failures and lost
connections, from `CheckoutAssumption` (a cart is not empty and names a
product once, quantities are positive; TLC evaluates it in the Checkout run):

* `TypeCorrect`: `Spec => []TypeOK`; stock is a natural number, so nothing is oversold
* `OrdersAreWholeAlways`: `Spec => []OrdersAreWhole`, for checkouts that did not connect anew
* `ImplementsLedger`: `Spec => LedgerSpec`
* `StockConservedAlways`: `Spec => []StockConserved`

`IInv` says that a row lock has one holder (`Exclusive`) and that what its holder would
commit is there (`HeldBacked`), and follows each checkout from statement to statement
(`CheckoutRight`): where it can be (`PlaceRight`), which rows it holds and what it has
changed in them (`LocksRight`), how much of its order is written (`OrderRight`). Stock
cannot go below zero because the decrement is judged under the lock it takes
(`TakeIInv`). For the refinement, `CommitSells` shows that a commit is the ledger's sale
of exactly the lines taken, which exclusive locks make independent of the other
checkouts' uncommitted changes; every other step shows nothing to the ledger
(`LedgerStep`), until a checkout has to connect anew, from when `LedgerSpec` claims
nothing.

`StockConserved` is about a sum over all orders that list a product. `StockInv` adds to
`IInv` that an order lists only what its cart asked for (`OrdersAsked`) and that only
finitely many orders list a product (`BuyersFinite`), however many checkouts there are.
A commit takes the units of one cart out of stock and adds one buyer to the sum
(`CommitAccounted`, by `SumRemove`); an order rewritten by a statement outside any
transaction belongs to a checkout that connected anew, of whose products the property
says nothing (`OutsideKeeps`, `ConnectionsOnlyLost`).

`StorefrontProofs` proves, for any products, any number of concurrent deliveries, units,
lock expiries and restarts, from `StorefrontAssumption`:

* `TypeCorrect`: `Spec => []TypeOK`
* `ContextFitsAlways`: `Spec => []ContextFits`
* `SoldOnceAlways`: `Spec => []SoldOnce`
* `LateWriteLosesNothingAlways`: `Spec => []LateWriteLosesNothing`

What a message may do is one predicate, `OutcomeRight`: the session it writes at once fits
its state, the one it may write after its sends is the beginning of a list, and the cart
is kept, emptied, grown by the unit just added, or handed over for sale. It is proved for every handler
(`IncomingHandled`), so the step lemmas need not look at handlers again. `IInv` adds
that a suspended handler remembers such an outcome (`HandlerRight`), that at most one
handler is between clearing the session and creating the order (`OneSells`), which is
what makes `SoldOnce` inductive, and that without an expired lock at most one handler
is at work (`LockKeepsApart`), which `LateWriteLosesNothing` rests on.

`FiniteSums` holds what the proofs about figures share. What a sum or a greatest element
is, is defined by recursion or choice, and the library's induction theorems cannot be
used here. `SmallestSubset` does their work: by `WFMin` on the subsets of a finite
set, a statement that fails for some subset fails for one whose proper subsets are all fine.
From it follow that a finite set of integers has a greatest and a least element, that
the function behind `SumFunctionOnSet` exists and satisfies its equation, and that sums are
integers, grow with their terms, and change by one term with one element.

`PricingProofs` proves, for any finite set of products, any prices, negative ones too, and any
coupons, days and edits, from `PricingAssumption` (percentages lie between zero and a
hundred and flat discounts are not negative, as `coupon_new_submit` demands; TLC evaluates
it in the Pricing run):

* `TypeCorrect`: `Spec => []TypeOK`
* `OrderAddsUpAlways`: `Spec => []OrderAddsUp`
* `ChargedAsToldAlways`: `Spec => ChargedAsTold`
* `CouponCountsAlways`: `Spec => CouponCountsToItsLastDay`
* `DiscountWithinSubtotal`: for every subtotal and coupon, the discount is never more than
  the subtotal, and not negative when the subtotal is not

The last two need the types of coupons, day and session only (`IInv`), that only a checkout
places an order (`PlacedByCheckout`), and that rounding half to even never leaves the
interval (`QuantizedBounds`). The others need `ChargeInv`:

* `NamedExists`: the coupon an order names stays in the table, and with `CreateCoupon`
  refusing a code twice it stays the same, so the discount can be recomputed later
  (`OrderAddsUp`, with `QuantizedIsPart` for the nearest hundredth);
* `ToldRight`: in the states from a cart message to the checkout (`Deciding`), unless something
  changed, the total told is that of the session's cart and coupon. It is what makes
  the action property follow from single steps.

"No more when an item drops out" is a fact about rounding (`NetGrows`): the smaller
subtotal also has the smaller discount, and what is left must not grow all the same. It
needs prices that are not negative, as the property does: a cart that loses an item of
negative price costs more. For a
percentage below a hundred, `PercentageNet` shows it from the bounds on rounding to both
sides: unrounded, the discount grows by less than the subtotal does, and rounding both
cannot add a whole hundredth to that.

`CatalogProofs` proves, for any number of products, categories and edits, any page size of
at least two rows and any caps, from `CatalogAssumption` (TLC evaluates it in the
Catalog run):

* `TypeCorrect`: `Spec => []TypeOK`
* `PageFitsAlways`: `Spec => []PageFits`
* `EveryProductReachableAlways`: `Spec => []EveryProductReachable`
* `CategoriesStayTogetherAlways`: `Spec => []CategoriesStayTogether`
* `MoreIsNeverEmptyAlways`: `Spec => MoreIsNeverEmpty`

The list is defined without sorting: a product's place in it is the number of products that
come before. `Before` is a strict total order of the active products (`BeforeIsOrder`), since
two categories with the same first product are one (`SameFirst`), so places are a
bijection with `1 .. Cardinality` (`PlacesTaken`) and a part of the list names nothing twice
(`PartFacts`). The reachability is not inductive: nothing in it ties the walk to the
offset. `WalkRight` does: a walk that nothing broke is the list from its first row to the
end of the page at the offset, and the page on the screen, if one of the list, is that
page. `PageHonest` says only list pages offer "See more". `PageFits` needs no history
but does need every offset, however stale, to give a page within limits (`ListPageFacts`).

Only model-checked: liveness (`CaptureIsRecorded`, `AbandonedIsNudged`, `CheckoutEnds`,
`LockIsFreed`, `FeedFollows`), which is out of the prover's reach. A refinement is proved
for the safety part of a specification only, which is all `OrderContract` and `StockLedger`
have.

## 5. Not modelled, and why

* More than one tenant, but for `Merchant`: every statement carries the tenant id, and
  sessions and locks are keyed by it.
* Validation of forms and CSV files, which happens before the first statement (a
  negative stock figure, which the CSV import takes, sells like zero); the columns of the
  feed other than the id, and the 404 and 500 it gives for an unknown tenant or without
  `PUBLIC_BASE_URL`; a tenant's settings and password, each
  overwritten by one UPDATE. A stock figure typed by the merchant is the one shown or
  one unit more.
* Several processes in `Storefront`: `railway.toml` starts one. `OrderLifecycle`,
  `NudgeJob`, `Checkout` and `Onboarding` do allow several.
* Lines of a native order whose quantity is no positive number: the handler drops them.
* Converter, seed, wording, phone numbers, signatures, login: pure functions
  over text, or sequential code without shared state.
* `create_order` and `update_order_status`, which no handler calls; the message
  history, which nothing reads back.

Seen on the way and stated by no run:

* With a stale `shop_offset` past the end, the refresh (not "See more") sends a list
  without rows, which Meta rejects: the customer hears nothing.
* Only `_start_shop` looks at `_send_product_list`'s result: when the last product is
  deactivated while a customer browses, the other callers answer with silence.
* `_send_cart` goes through `get_product`, which ignores `is_active` and stock: a product
  switched off or sold out stays in the cart shown and drops out at checkout. So the total
  shown is not the one charged, although `compute_discount`'s docstring says it "always
  matches what checkout_cart actually charges" and `_send_cart`'s has a cart of deactivated
  products come out empty.
* `_send_product_list`'s docstring has "See more" pages keep a category together "rather
  than splitting one down the middle". Rows are cut by number: twelve products of one
  category come as nine and three.
* The wizard and the CSV import (`onboarding_wizard.py`) take a negative price, which the
  product form refuses. A cart of such a product has a negative total, unless a
  coupon applies: a discount of more than the subtotal is cut to it, which makes it zero.
* A nudge that WhatsApp refuses is logged and not tried again, and one that was
  claimed by a run that died is never sent.
* A captured payment can end on a `failed` order: paid, fulfilled, then a late failed or
  expired event, with no redelivery of the paid event left to come.
* An order that is paid while the nudge job awaits an earlier message is still asked
  to pay: `mark_nudge_sent` does not look at the status.
* A coupon worth the whole subtotal makes an order of amount zero, for which there can
  be no payment link.
* A failed order keeps the units it took.

## 6. Plan

Done: every component that keeps state two actors share, the contracts of an order and
of the stock, and the theorems of section 4. What could still be added:

1. The conversation on top of `Listing`'s table, so that a cart filled in the chat meets
   the same edits as one filled in WhatsApp.
2. The wizard's pages that overwrite a tenant, beside requests of that tenant.
