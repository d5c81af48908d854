# A verification of the commerce order management platform

TLA+ models of the platform's catalog, carts, order path, reviews and sessions,
model-checked with TLC, and theorems about them checked by TLAPS. Paths of the form `src/...` are the repository's
service code (NestJS, TypeORM on PostgreSQL, Redis); every definition's source
lines are listed under `map` in `PROJECT.json`.

## 1. Inventory of the system

| Component | State it keeps | Operations that change it | What makes it correct |
|---|---|---|---|
| Inventory (`src/inventory`) | `inventories` (available, reserved per product), `inventory_movements` | `reserveInventory`, `releaseInventory`, `deductInventory`, `adjustInventory` | no lost update, no deadlock, all items or none, every unit accounted for by movements |
| Orders (`src/orders`) | `orders`, `order_items`, `idempotency_keys`; empties `cart_items` | `checkout` and its catch block | one order per key, an order holds its stock, a failed checkout leaves nothing behind, a response never changes |
| Payments (`src/payments`) | `payment_events`, `orders.status` | `handleWebhook` | an event has side effects at most once, status and processed events agree, a paid order stays paid |
| Shipping (`src/shipping`) | `shipments`, `shipment_events` | `handleOrderPaidEvent`, `dispatchShipment`, `markDelivered` | one shipment per paid order, statuses only advance |
| Notifications (`src/notifications`) | `notifications` | `handleOrderPaid`, the 10-second poll | every paid order is confirmed, once |
| Cart, pricing, coupons (`src/cart`, `src/coupons`) | `carts`, `cart_items`, `coupons` | add, update, remove item; apply, remove coupon; totals; an administrator's create, update, remove of coupons | a user who waits for answers has an atomic cart; nothing is counted twice; total = subtotal - discount >= 0; coupons in use exist |
| Catalog (`src/catalog`) | `products`, `categories`; a cached answer of GET /products | create, update, remove; list | references hold, every product has an inventory row, what is removed stays removed and leaves the listing |
| Auth (`src/auth`, `src/users`, `src/redis`) | `users`, `user_roles`, one refresh token per user in Redis | register, login, refresh, logout | one account per address, an exchanged token is dead, no refresh after logout, nothing new for a disabled user, every token ends (if it is given a time) |
| Reviews (`src/reviews`) | `reviews` | create, approve | each is a verified purchase; one per user and product unless requests overlap |
| Guards, filters, audit, health, seeds | - or append-only | - | stateless or pure I/O, not modelled |

Interactions. `checkout` calls the cart service, `InventoryService` (its own
database transactions) and then runs the order transaction; payments emits
`order.paid` in memory, to which shipping and notifications listen; reviews read
the status of orders; carts refer to products and coupons, which administrators
edit at any moment, as they do the stock. Every HTTP
request runs in one node process whose event loop switches at each `await`;
several processes may share the database.

Hard behaviours, in short (the full list, each at its line, is `hazards` in
`PROJECT.json`): row locks taken one at a time by concurrent transactions;
read-modify-write across awaits; repeated and overlapping requests under one
idempotency key; compensation by a catch block that can fail, or run for work
that was committed; process crashes between two commits; webhooks delivered
twice or out of order; in-memory events emitted before a commit; overlapping
cron polls; entities saved whole, long after they were read; references that
are checked long before the row they protect is deleted; a cache that nothing
invalidates; tokens that expire, are exchanged and revoked while requests with
them are under way.

## 2. The plan

| Order | Modules | State |
|---|---|---|
| 1 | `Stock`: what `InventoryService` promises, each call at one instant | done |
| 2 | `Inventory`, `MCInventory`: the row-locking transactions, shown to implement `Stock` | done |
| 3 | `InventoryProofs`, `SumTheorems`: six theorems, the refinement among them, and the sums that three of the modules need | done |
| 4 | `Checkout`, `MCCheckout`: checkout, idempotency keys and carts over `Stock` | done |
| 5 | `CheckoutProofs`: ten theorems | done |
| 6 | `Fulfilment`, `MCFulfilment`: webhooks, order status, shipments, notifications, the in-memory event between them | done |
| 7 | `FulfilmentProofs`: six theorems | done |
| 8 | `Catalog`, `Pricing`, `Cart`, `CartPromise`, `MCStorefront`: catalog, coupons, carts, and what a customer is promised | done |
| 9 | `Sessions`, `MCSessions`: registration, login, refresh, logout | done |
| 10 | `Reviews`, `MCReviews`, `ReviewsProofs`: reviews over the orders of `Fulfilment`, three theorems | done |
| 11 | `CatalogProofs`, `CartProofs` (the refinement of `CartPromise` among them), `SessionsProofs`: every safety property of their runs | done |
| 12 | Composition theorems: `CheckoutCallsStock`, `CheckoutKeepsProtocol`, `ReviewersOnlyRead`, `StoreHasCatalog` | done |
| 13 | An abstract order life cycle (created, paid, shipped) over `Checkout` and `Fulfilment` | next |

Abstract specifications: `Stock` for `Inventory`, `CartPromise` for `Cart`; an
order's life cycle is left.

Composition: `Checkout` EXTENDS `Stock` and uses its operations as the atomic
calls of the service; `Inventory` instantiates `Stock` under a refinement
mapping. What is shown of `Checkout` therefore rests on `Inventory!ImplementsStock`,
which assumes a protocol of the callers; `CheckoutKeepsProtocol` shows that checkouts keep it.
`Fulfilment` starts where `Checkout` ends: its orders are created and unpaid. It
composes payments, shipping and notifications, which share no table except
through the event `order.paid`. `Reviews` EXTENDS it: every step of either may
come between two of the other. `Cart` EXTENDS `Catalog` and `Pricing` in the same
way: administrators, visitors and customers interleave. `Sessions` shares no
state with the rest.

## 3. Modules and code

### Stock
`stock[p]` is a row of `inventories`. `hold[o]` is no column: it is what the
movements say order `o` has reserved and not yet released or deducted.
`Reserve`, `Release`, `Deduct`, `Adjust` are the four methods, each taking
effect at once on all the order's products or not at all.

### Inventory
One TLA+ step is one row of one transaction. `Begin...` opens a transaction on a
pool connection; `TakeRow` is one iteration of a method's loop (lock, check,
save the row, insert the movement); `RejectRow` is an exception thrown in it;
`Fail` a connection or statement that breaks; `Commit` the end of the callback.
`done` is the set of rows a transaction has saved and `wrote` what it saved there;
nobody else sees either (READ COMMITTED). In the code as it is, `done` is exactly
what the transaction has locked: the proofs show it, and the mutant that reads
rows without a lock (`LockIgnored`) breaks it.
Finer steps would add nothing: between its lock and its commit a row cannot be
read for update or written by anybody else. `ledger[p][m][r]` is the sum of the
quantities of the movements of product `p`, type `m`, reference `r`.

- `IsNext` is the sort by product id; products are their ranks in
  `localeCompare` order.
- `CheckViolated` is the CHECK constraint of `inventory.entity.ts`.
- `InitInventory` is the row that creating a product inserts; before it,
  reservations and adjustments end in 404.
- `phase` is the callers' protocol: `checkout` reserves once under a fresh random
  id and its catch block releases at most once. Nobody calls `deductInventory`
  yet; it is taken to be the other way to settle an order, used at most once in
  all. The methods themselves would settle an order again and again: that is the
  mutant `SettledAgain`, and `Checkout!CallersProtocol` is what the one real caller
  does about it.
- A reference id of an adjustment is never an order id. The code would accept
  one; see `hazards`.

### Checkout
One TLA+ step is what runs between two awaits of `checkout`: a statement of the
repository or a whole order transaction (its effects are committed at one
instant). `pc[r]` says where request `r` stands; a request is named by the order
id it draws, so `orders[r]` is the order it created. `keys[u][k]` is the row of
`idempotency_keys`: absent, in progress, or with the order as its response.

- `SelectKey`, `InsertKey`: TypeORM's `save()` of an entity with a given primary
  key selects the row and inserts it only if it is missing. If it is there
  nothing differs, so the call succeeds and the request goes on.
- `ReserveStock`/`ReserveThrows` are outside the `try`, everything from
  `CreateOrder` to `CompleteKey` is inside, `ReleaseStock` and `RemoveKey` are
  the `catch` block, and each of these may throw.
- `CreateOrder` deletes the cart rows that were read (their key is cart and
  product, so a changed or re-added row goes too). Deleting rows that are gone
  is silent. The save of the cart with a stale list of items may fail; that, like
  any failing statement of the transaction, is the fault `"order"`.
- `FetchCart` may refuse any cart (inactive product, expired coupon).
- `EditCart` and `Restock` are other requests at work meanwhile.
- `Faults` says which calls may throw (or that the process may die), `Overlap`
  whether a client may send a key again before the earlier attempt was answered
  or died. The runs and the theorems differ in these two.
- The user id is the one the controller passes to the service, taken to be the
  user's. The controllers of orders, carts and reviews read it from
  `req.user.id`, and the end-to-end tests put it there; the guard itself
  (`jwt-auth.guard.ts:29`) leaves the token's payload, where the id is called
  `sub` (`auth.service.ts:138`).
- Amounts and the coupon of the order are in `Cart`; the address is left out.

### Fulfilment
Again a step is what runs between two awaits that others can see.

- `hook[w]` is one webhook request. `Receive` inserts the event row on its own,
  before the transaction; its unique `provider_event_id` is the guard
  (`IsDuplicate`). `ReadOrder` finds the order without a lock. `SaveOrder` is the
  two saves and the emit, `CommitPayment` the commit. TypeORM's `save` compares
  the entity with the committed row and writes only what differs: `rows` is what
  the transaction has updated, and thereby locked, until it ends.
- `HookFails` rolls the transaction back but leaves the event row `PROCESSING`:
  the provider's next attempt is then a duplicate.
- `emit` does not wait for its listeners, and they query through the pool, not
  in the transaction: `shipping` and `confirming` hold the events whose
  listener is under way. A set is enough, for there is no order between them;
  `ListenerFails` takes one out, as a failing query or the end of the process
  does. The end of a process is several of these individual breaks.
- `CreateShipment` changes nothing for an order that has a shipment: the
  service does not look for one, but `order_id` is unique (`@OneToOne`,
  `@JoinColumn`), so the insert fails, and its transaction is rolled back before
  the event row (`HasShipment`).
- `ReadShipment`/`SaveShipment` are `dispatchShipment` and `markDelivered`: a
  check without a lock, then a save. The tracking number is left out.
- `StartPoll`, `SendNext` (one `SendRow`), `PollFails` are the cron job; `batch[p]` is
  what the run has read and not yet dealt with. What is sent is left out.
- `shipments` and `notifications` have entities but no migration; columns and
  constraints are those of the entities.

Where one failure or overlap breaks what the documents promise, the passing runs
check what holds nevertheless: `EffectsAreExplained` allows a shipment or a
confirmation whose payment was rolled back after the emit, and `ShipmentLifeCycle` is
run with one clerk; `fulfilment_undelivered` shows that two refute it.

### Reviews
`reviews[x]` counts the rows of one customer for product `x` by status; rating and
text are left out. `LookForReview`, `VerifyPurchase` and `InsertReview` are the
three queries of `createReview`, any step of `Fulfilment` may come between them,
and no constraint concerns the table. `ApproveReview` reads a row and saves it; as
nothing else writes a review's status, it is one step. Nothing ever rejects a
review.

### Catalog
A task is one administrator's request; a step ends where it awaits the database.

- TypeORM's `save()` of an entity with a primary key selects the row as it is
  *now*, compares it with the entity in memory and writes every column that
  differs; if the row is gone it inserts it. So `SaveProduct` undoes a removal
  (and any other update) that came after `ReadProduct`. A loaded list of children
  or products is compared with the rows that refer to the category now: those
  of the list are made to refer to it, others lose the reference (a child
  becomes a root; a product cannot, so the statement fails).
- The entity that `update` saves has both its loaded category and the new
  `category_id`; which of them TypeORM writes depends on its version, so
  `ReadProduct` and `ReadCategory` leave it open.
- `Referenced` and `CategoryHolds`, `ParentHolds` are the foreign keys of the
  migration (`ON DELETE NO ACTION`). A removed product keeps its row, and so its
  reference, but `findOne`'s relations do not show it: `FindCategory` passes and
  `DeleteCategory` is then refused by the database.
- A check of a name, slug or SKU can only refuse a request: `TaskFails`.
- Categories may become their own ancestors, one at a time or in turns:
  nothing checks `parent_id`.
- `AskCache`, `QueryProducts`, `StoreAnswer` are GET /products behind its cache
  interceptor. One key holds the last stored answer whatever the query was
  (`cached` is that answer, or empty); a query's filters and page select any part
  of the products on sale. Whether the store is Redis or memory is a matter
  of the cache library's version: all the model needs is that an answer may
  vanish (`CacheExpires`). A visitor asks again and again and keeps the last
  answer. `ListsOnlyOnSale` is what the documents want of it, and the code does not
  keep it (finding 5). How long an answer stays stale is not stated: there is no clock here.

### Pricing
`Discount` is the coupon arithmetic. JavaScript computes
`subtotal * (amount / 100)` in binary floating point and floors it, and only a
product that should be a whole number can fall short of it; `RoundedDown` lists
the pairs of which that is true. Those of the run are computed in IEEE double
precision: 58 percent of 50, 100, 200 and 400 all lose a unit (28 for 29, ...).
`used` is the column `times_used`, which nothing assigns, so a usage limit never
refuses anything.

### Cart and CartPromise
`items[u][p]` is the quantity of a row of `cart_items`, 0 for none. Each method
begins with `getCartAndPricing` (`Begin`, with the insert of a missing cart as
`CreateCart`), which throws if anything in the cart cannot be priced, whatever
the request is about (`CannotPrice`); the pricing of the answer changes nothing and is
left out. What `checkout` read and priced is kept in `quote[r]` until `PlaceOrder`,
its transaction; keys and stock, which may refuse it, are `Break`. `SaveCoupon`
inserts a removed coupon again, as any `save()`. Saving the cart with an outdated
list of items may fail: `Break` as well.

`CartPromise` is the promise to a user who waits for each answer: every request
takes effect at one instant on what the cart then holds, or changes nothing.
`Patient` are the users who wait; `ImplementsPromise` maps their part of `Cart` to
it while everybody else overlaps at will. A request whose write is committed counts
as granted, also when pricing the cart for its answer then fails, as it does if a coupon
has expired meanwhile: the customer sees an error, and the change stays.

### Sessions
A refresh token is a signature over the user and the second in which it was
made, so a token is that second; `session[u]` is the Redis key with its seconds to
live. Steps end at each await of PostgreSQL, bcrypt or Redis. `StoreToken` may
store the token and lose the answer. `second` counts only seconds in which
something was signed, which bounds it; `left` counts all of them.
`SwitchUser` is an operator at the database: nothing in the code assigns
`is_active` after registration. Access tokens are verified by signature alone,
keep their permissions until they expire, and are left out. A registration that
breaks off between its two inserts leaves an account without a role, which keeps
the address.

`Expiration.amount` is what `parseInt` makes of `JWT_REFRESH_EXPIRATION`, which
nothing validates: any integer. `"0d"` and `"0.5d"` give 0 and `".5d"` gives NaN, for which 0
stands too: `RedisService.set` omits `EX` for both, and the token stays for ever
(divergence 15). Redis refuses a negative time, so nothing is stored then. The token
itself is signed with an expiry, but `refreshTokens` only compares it with the
stored one and never verifies it. `EveryTokenEnds` therefore says nothing of a time to
live of 0; the theorem `TokensLiveAsConfigured` says what happens for every integer.

## 4. Runs

| Run | Asks | Bounds |
|---|---|---|
| `inventory` | types, fresh writes, no deadlock, settlement, the ledger, the refinement of `Stock`, the end of every transaction | 2 orders, 2 adjustments of any type by +1 or -2, 2 connections, 2 products with 2 units, one of them still without a row; baskets with both products, with one, and with a non-positive quantity |
| `checkout_serial` | one order per key, stock held, keys registered, final responses | 3 requests, 2 users, 1 key each, crashes, all faults but `"complete"`; 1 product with 3 units and baskets of 1 or 2, so that two requests exhaust it |
| `checkout_overlap` | answers, releases, reserved quantities and the protocol of calls to the stock, with everything failing | the same with overlapping requests and all faults |
| `fulfilment` | side effects once, status and events, no effects without a payment behind them, verified reviews, no late review | 1 order of one of 2 products, 2 events that pay it and 1 that denies it, 3 handlers, 1 clerk, 2 reviews; all faults. Poll runs are left to the next run |
| `notification_polls` | every queued confirmation is tried; a shipment advances, and its event rows are its history | the same events with 1 handler, 1 clerk, and 2 poll runs with batches of 1, all faults |
| `fulfilment_out_of_order` | a property a document states and the code violates | 1 handler, no faults |
| `fulfilment_undelivered` | the same | 1 handler, 2 clerks, no faults |
| `checkout_duplicates`, `checkout_unbacked_order` | properties the documents state and the code violates | 2 requests |
| `storefront` | references, stocked products, nothing counted twice, coupons in use, sums of orders, removal is final, the refinement of `CartPromise` | 2 categories, 2 products, 2 prices, 2 coupon terms for one coupon, 2 users (one waits), 1 visitor, and four scenes: 2 administrators' tasks from an empty or the seeded catalog; 1 change of a product, 1 coupon errand and 2 requests of a customer; 3 requests of a customer; 2 changes of a product and the visitor |
| `catalog_stale_listing` | a property a document states and the code violates | 1 product, 2 categories, 2 administrators' tasks, 2 visitors who ask for ever |
| `sessions` | one registration, exchanged tokens are dead, signed out stays, disabled gets nothing, every token ends | 4 requests of one user, who waits or does not, in every combination of the four operations up to order; an expiration of 2 hours of one tick |

`catalog_stale_listing` checks `Catalog` itself, with the constants of its cfg; the other
modules have an `MC` module for the values that a cfg cannot write.

Why the bounds suffice: transactions conflict in pairs on rows; a third one or a
third product adds only rings of three, and `DeadlockFree` excludes those for any
number. Under one key a
third request allows "fail, retry, repeat". Products, users and keys beyond the
bound are independent rows; the theorems below hold for any number. `MaxStock`
bounds restocking. Requests, users, tasks, handlers, clerks and reviewers are
symmetric where a run checks no liveness. Deadlock checking is off: all
requests may be answered and all transactions ended.
In `fulfilment` orders share nothing, so one is enough; three handlers hold its
three events at once. One clerk is enough where requests on one shipment would
overlap: what two do is `fulfilment_undelivered`.
In `storefront` the scenes are initial states (`MCInit`): each puts on stage those
whose steps can meet on a row, for a cart meets a product and a coupon,
and two tasks already meet in every order. Two requests overlap a
change, three allow "add, add, check out". In `sessions` users share no row, so
one at a time is enough.

Fairness in `inventory`: weak fairness of a connection's next row,
rejection and commit. PostgreSQL grants a row lock in queue order and node
resumes a callback whose promise settled; nothing is assumed about failures. No
order has a third party that keeps reserving for ever, so weak fairness is enough.

Fairness in `sessions`: time passes (`WF` of `Tick`). No request
has to be made or to proceed: `EveryTokenEnds` rests on the expiry alone.

Fairness in the fulfilment runs (`FairSpec`): weak fairness of starting a run of the job
(the cron job starts for ever), and strong fairness of a run's next row: a run may die,
and so disable the step, but not every run dies before its first row. No webhook has
to arrive, no listener to end, and no clerk to do anything.

Fairness in `catalog_stale_listing`: the cache keeps its time to live (`WF` of
`CacheExpires`). Nobody has to ask, and an answer may be stored late or never.

### What the code does against its documents

Shown by a run that ends in a violation (`findings`):

1. Two overlapping requests with one key create two orders
   (`orders.service.ts:59` against `invariants.md:18`).
2. If only the storing of the response fails, the stock of a committed order is
   released and its key deleted (`orders.service.ts:128` against
   `invariants.md:27`).
3. A `payment.failed` that arrives after the success turns a paid, possibly
   shipped, order into `PAYMENT_FAILED`: only the success checks the present
   status (`payments.service.ts:68` against `state-machines.md:3`).
4. Overlapping dispatches take a delivered shipment back to `SHIPPED`
   (`shipping.service.ts:40` against `invariants.md:30`, `domain-model.md:43`).
5. The cached listing shows products that are no longer on sale
   (`products.controller.ts:35` against `ADR-003-redis-caching.md:19`, F-CAT-02).

The following are behaviours of the models, and of the code, as well. Each follows
from the step named with it, and none has a run of its own; `hazards` has them
with what the documents say:

6. Insufficient stock leaves the key in progress for good, because the
   reservation is outside the `try` (`ReserveThrows`; `orders.service.ts:68` against
   `idempotency.md:28`). The e2e test's second 409 is that stuck key.
7. A database failure during the order transaction may also fail the compensating
   release; nothing retries it (`ReleaseThrows`; `orders.service.ts:133` against
   `failure-modes.md:30`).
8. A webhook whose transaction fails has its event row already; every redelivery
   is a duplicate, and the payment is lost (`HookFails`; `payments.service.ts:36` against
   `edge-cases.md:32`, `acceptance-criteria.md:81`).
9. `order.paid` lives in memory: a failing listener or a crash loses the shipment or
   the confirmation of a paid order (`ListenerFails`; `shipping.service.ts:18`,
   `notifications.service.ts:17` against `notifications.md:20`, `payments.md:38`).
10. `order.paid` goes out before the commit: if that fails, an unpaid order is shipped
    and confirmed (`SaveOrder`, `HookFails`; `payments.service.ts:66` against
    `state-machines.md:17`, `invariants.md:27`).
11. Overlapping runs of the job send one confirmation twice
    (`SendRow`; `notifications.service.ts:34` against `invariants.md:14`).
12. A creation that breaks off between its inserts leaves a product without stock
    row (`TaskFails`; `products.service.ts:52` against `domain-model.md:19`).
13. An update that read a product before its removal brings it back
    (`SaveProduct`; `products.service.ts:169` against `domain-model.md:13`, `invariants.md:30`).
14. A customer cannot take out of the cart a product that has gone off sale, nor
    anything else: `removeItem` prices the cart first (`Begin`; `cart.service.ts:46`
    against F-CART-01).
15. A refresh expiration that parses to 0 or to no number stores tokens for ever
    (`NewSession`; `auth.service.ts:165` against the full documentation, 1214-1216).

## 5. Theorems

All are for any sets of products, orders, users, keys, connections and baskets;
the only assumptions on constants are the ASSUMEs of the modules, and, where
something is added up or compared over a whole set, that the set is finite. Tables and
processes are: such a hypothesis says so where it is used, and nothing else.

`InventoryProofs`. The inductive invariant `IInv` adds to the checked properties
what each open transaction is in the middle of (`Shapes`: which rows it has, that
its quantities are those the ledger recorded), that one transaction works on a
reference id (`OneTransactionPerReference`), that a locked row belongs to an open
transaction which leaves it non-negative (`LocksAreHeld`) and has locked what it
saved (`SavedRowsAreLocked`), the lock order, and
what the callers' phase says about the ledger. Without `LocksAreHeld` a commit
could write a negative row; without the shapes a release could return something
else than was reserved.

- `TypeCorrect`, `NoLostUpdate`, `NoDoubleSettlement` follow from `IInv`.
- `DeadlockFree` needs finitely many products (a bound on their ranks): in a set
  of waiting transactions the one that waits for the largest row waits for
  nobody, because the holder of that row would have to wait for a larger one.
  The descent is the library's well-founded order on numbers.
- `Refinement`: a commit is one operation of `Stock`, every other step a stutter.
- `LedgerIsComplete` (finitely many orders and adjustments): the sums of movements
  change only at a commit, which adds for each row it writes exactly the movement
  that explains the row's change (`CommitIsExplained`).

`SumTheorems` has what these and other proofs need of sums over finite sets: that
a changed entry changes the sum by the difference, that sums of equal functions are
equal, that adding a member adds its value. The library defines a sum by recursion
over the set; induction is not available (no prover instantiates the library's
induction theorems), so each fact is proved of a smallest counterexample, a set
whose size no other counterexample falls below (`SmallestSet`, from the library's
`WFMin` on the natural numbers, which is a plain quantified fact).

`CheckoutProofs`. `KeyInv` (any faults, any overlap): a request before its
reservation holds nothing and has no order; the request at `"complete"` has its
order; a stored response is an order of that user and key. `HoldsWhatItRead`
(any faults): between its reservation and its release a request holds exactly
what it read. `StockInv` needs that storing the response cannot fail: then the
catch block never sees an order. `SerialInv` needs, besides, that requests under
one key do not overlap: the key's row then tells how far the one attempt has come.

- `CheckoutTypeCorrect`, `AnswersAreOwnOrders`, `ReleasesAreOwn`: unconditional.
- `OrdersHoldTheirStock`: if storing the response cannot fail (finding 2 shows
  that it must be assumed).
- `NoDuplicateOrders`, `KeysAreRegistered`, `ResponsesAreFinal`: if, besides,
  requests do not overlap (finding 1 shows that it must be assumed); crashes and
  all other failures are allowed.
- `ReservedIsAlwaysHeld` (finitely many requests, any faults, any overlap): every
  step that moves a reserved quantity moves the same quantity of one holding.
- `CheckoutCallsStock` (if a caller may ask the service for any quantities):
  `CheckoutSpec` implies `StockSpec`. The hypothesis `Baskets = [Products -> Nat]` is
  needed because rows that were deleted by another order leave a cart that is none
  of the baskets somebody chose.
- `CheckoutKeepsProtocol` (any faults, any overlap): the assumption that `Inventory` makes
  in its variable `phase`, from `HoldsWhatItRead` and the order of the statements.

`FulfilmentProofs`. `PaymentInv` (any faults): a handler past the insert is alone
with its event, whose row is `PROCESSING` (`HandlersOwnEvents`); an event has
emitted nothing before its handler saves (`EmissionsFollowHandlers`); and a handler
with nothing to update found the order no longer unpaid (`UnwrittenIsSettled`),
without which `StatusMatchesEvents` would not survive its commit. `ShipmentInv`:
a clerk at work has an order with a shipment, and one who delivers, one that was
dispatched (`ClerksFollow`).

- `FulfilmentTypeCorrect`, `SideEffectsOnce`, `StatusIsExplained`: unconditional.
- `EffectsComeFromPayments`: unconditional. An event with an effect has been emitted by a
  handler that is at its commit, has committed, or is gone and leaves the row
  at `PROCESSING` for good, since no delivery passes the insert again.
- `ShipmentsAdvance`, `HistoriesAreComplete`: of behaviours with `[]OneClerkEach`, in which
  no two requests for one shipment are at work together; faults, overlapping
  webhooks and repeated `order.paid` are allowed. The invariant `ClerksAreCurrent`, that what a
  clerk has read is still so, needs it, and finding 4 shows that it must be assumed.

`ReviewsProofs` builds on `PaymentInv`: `PurchaseIsReported` takes a status `PAID` to a
processed event with `StatusMatchesEvents`, `ProcessedStays` keeps it, whatever
the order's status becomes.

- `ReviewsTypeCorrect`, `PurchasesAreVerified`, `OneReviewUnlessOverlapping`:
  unconditional.
- `ReviewersOnlyRead`: `ReviewsSpec` implies the `Spec` of `Fulfilment`, so that the theorems of
  `FulfilmentProofs` hold in the run `fulfilment`, where reviewers are at work too.

`CatalogProofs`. `CatalogInv` adds to the types and the two foreign-key properties what a
task knows when it is about to write (`TasksHold`): what it has read is a row that was
there, and rows of products never go (a removal only marks them), so that a
late save meets an existing row. `ProductsAreStocked` needs the same.

- `CatalogTypes`, `ForeignKeysHold`, `EveryProductHasStock`: parts of the invariant. The
  last one allows a creation that is under way or broke off (12 above).
- `RemovedForGood`: an action property, from the steps that write `deleted_at`. It allows
  an update that read the product before (13 above).

`CartProofs` extends `CatalogProofs`; an administrator's step of the catalog preserves
`CatalogInv` by its lemmas. `CartInv` adds what errands and requests have read
(`ErrandsHold`, `RequestsHold`: a request stands only where its operation can lead it,
and a quote that is about to become an order adds up) to `CouponsInUseExist`.
The lemmas about prices show that no total is negative: `Percentage` may lose a unit
only where there is one to lose, and a discount is cut off at the subtotal.

- `CartTypes`, `CouponsAreNeverDangling`, `OrdersStayRight` (finitely many products,
  because a subtotal adds them up).
- `CartsHoldWhatWasPutIn` (finitely many requests and starting carts, too):
  `OnceInv` says of a cart *and* of what an addition has read of it that it is no more
  than was put in; without the second half a late write could count twice.
- `CartKeepsItsPromise`, the refinement of `CartPromise`: `PatientInv` says that a user
  who waits has one request under way (`Alone`), and that what it has read is what the cart
  still holds (`UpToDate`), whatever other users and administrators do. Then the one
  step that writes is the instant at which the request takes effect (`ItemEffect`,
  `CouponEffect`, `OrderEffect`), an answer without a write is `Grants` of a reading or
  `Denies`, and everything else, all steps of users who do not wait among it, is a
  stutter (`Stutters`).
- `StoreHasCatalog`: `CartSpec` implies `CatalogSpec`, so that all theorems of
  `CatalogProofs` hold in the store, where `storefront` checks the properties.

`SessionsProofs`. `SessionsInv`: a request stands where its operation leads it (`Way`), one
registration owns an account from its insert on (`OneOwner`), whoever waits has one
request under way (`OneAtATime`), and no token is newer than the clock or, for whoever
waits, older than one already issued when it is about to be stored (`TokensInOrder`,
without which `NewestOnly` is not inductive).

- `SessionsTypes`, `OneRegistration`, `OldTokensAreDead` (of users who wait): parts of the
  invariant or consequences of it.
- `SignedOutForGood`, `DisabledUsersGetNothing`: action properties, one case for each
  step that touches a session or a token.
- `TokensLiveAsConfigured`: for every integer that `JWT_REFRESH_EXPIRATION` may parse to, a
  stored token has no more time than that, is kept for ever exactly if it is 0, and is not
  stored if it is negative. It is the safety core of `EveryTokenEnds`, and of divergence 15.

## 6. Only model-checked, and not modelled

Only model-checked: `TransactionsEnd`, `EveryNotificationIsTried` and `EveryTokenEnds`,
which are liveness under fairness, out of the prover's reach. Every safety property,
action property and refinement of a passing run is a theorem; the
properties of the runs that end in a violation are false, of course, and their
counterexamples are TLC's.

Not modelled, besides what `PROJECT.json` marks so with its reason:

- Guards, decorators, the exception filter: functions of one request. (What the
  guard leaves in `req.user`, see Checkout above.)
- The audit service and the health controller: one insert that nobody calls, and a
  constant answer.
- `src/generate_entities.js` writes the entity files and is no part of the running
  program; `dist/` is generated; the migrations and the seed script are run once.
- Of the modelled parts: `getMovements`, `findAll` and `findOne` of the
  administrators (reads only), search, sort order and page arithmetic, names,
  slugs, SKUs and coupon codes, addresses, passwords, permissions; the 32-bit range
  of quantities and amounts (PostgreSQL rejects what does not fit: a failing
  statement); the detection of deadlocks by PostgreSQL (there are none to detect);
  a commit whose acknowledgement is lost.
- Stated by documents, and not by a property, because the code plainly has
  nothing that could keep it: usage limits of coupons (`times_used` is never
  assigned), filters and pages of a cached listing (see `hazards`).
