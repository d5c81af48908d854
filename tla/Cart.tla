-------------------------------- MODULE Cart --------------------------------
(***************************************************************************)
(* CartService and CouponsService (src/cart, src/coupons): customers'      *)
(* requests on their carts, the administrators' coupons, and the part of a *)
(* checkout that concerns the cart, over the products of Catalog, which    *)
(* administrators change meanwhile.                                        *)
(*                                                                         *)
(* A step ends where the code awaits the database.  Every request reads    *)
(* and prices the cart first, and again for its answer; the second time    *)
(* changes nothing and is left out.                                        *)
(***************************************************************************)
EXTENDS Catalog, Pricing

CONSTANTS
    Users,
    Patient,       \* users who wait for the answer to a request
    Requests,      \* customers' requests, each made once
    Wishes,        \* what they may ask for
    Coupons,       \* ids that coupons.id may get
    Errands,       \* administrators' requests about coupons, each made once
    StartingCarts, \* quantities that carts may hold to begin with
    NoCoupon, NoQuote

VARIABLES
    coupon,    \* coupons
    errand,    \* requests to CouponsService
    opened,    \* users with a row in carts
    items,     \* cart_items: a quantity, or 0 for no row
    picked,    \* carts.coupon_id
    pc,        \* where a request stands
    wish,      \* what it asks for
    found,     \* the quantity of the cart_items row that it has read
    quote      \* the cart as checkout read and priced it, and so the order

couponVars == <<coupon, errand>>
cartVars == <<opened, items, picked>>
requestVars == <<pc, wish, found, quote>>
storeVars == <<catalogVars, couponVars, cartVars, requestVars>>

Baskets == [Products -> Nat]
NothingIn == [p \in Products |-> 0]

AllWishes ==
    [user : Users, product : Products, coupon : Coupons, quantity : Nat \ {0},
     op : {"get", "add", "set", "drop", "apply", "unapply", "checkout"}]

Quotes == [items : Baskets, price : [Products -> Nat], coupon : Coupons \cup {NoCoupon},
           subtotal : Nat, discount : Nat, total : Nat]

ASSUME CartAssumption ==
    /\ Patient \subseteq Users
    /\ Wishes \subseteq AllWishes
    /\ StartingCarts \subseteq Baskets
    /\ NoCoupon \notin Coupons /\ NoQuote \notin Quotes /\ Absent \notin CouponRows

InFlight == {"create", "product", "item", "write", "coupon", "place"}

CartTypeOK ==
    /\ CatalogTypeOK
    /\ coupon \in [Coupons -> CouponRows \cup {Absent}]
    /\ errand \in [Errands -> [step : {"idle", "save", "delete", "done"},
                               id : Coupons \cup {NoCoupon}, row : CouponRows \cup {Absent}]]
    /\ opened \in SUBSET Users
    /\ items \in [Users -> Baskets]
    /\ picked \in [Users -> Coupons \cup {NoCoupon}]
    /\ pc \in [Requests -> {"idle", "never", "done", "refused"} \cup InFlight]
    /\ wish \in [Requests -> Wishes]
    /\ found \in [Requests -> Nat]
    /\ quote \in [Requests -> Quotes \cup {NoQuote}]

NewErrand == [step |-> "idle", id |-> NoCoupon, row |-> Absent]

(* Carts may be left over from earlier; those who have none hold nothing.  *)
(* Some of the requests may never be made.                                 *)
CartStart ==
    /\ coupon \in [Coupons -> {Coupon(terms, FALSE) : terms \in Terms} \cup {Absent}]
    /\ errand \in [Errands -> {NewErrand, [NewErrand EXCEPT !.step = "done"]}]
    /\ opened \in SUBSET Users
    /\ items \in [Users -> StartingCarts \cup {NothingIn}]
    /\ \A u \in Users, p \in Products :
         items[u][p] > 0 => u \in opened /\ product[p] # Absent
    /\ picked = [u \in Users |-> NoCoupon]
    /\ pc \in [Requests -> {"idle", "never"}]
    /\ wish \in [Requests -> Wishes]
    /\ found = [r \in Requests |-> 0]
    /\ quote = [r \in Requests |-> NoQuote]

CartInit == CatalogInit /\ CartStart

-----------------------------------------------------------------------------
(* Requests on a cart                                                      *)

User(r) == wish[r].user
Item(r) == items[User(r)][wish[r].product]

Goto(r, label) == pc' = [pc EXCEPT ![r] = label]

(* calculateTotal throws for an item that is not on sale (a removed one    *)
(* comes without its product) and for a coupon that is not valid any more. *)
CannotPrice(u) ==
    \/ \E p \in Products : items[u][p] > 0 /\ ~OnSale(p)
    \/ picked[u] # NoCoupon /\ Invalid(coupon[picked[u]])

Quote(basket, price, c) ==
    LET subtotal == Subtotal(basket, price)
        discount == IF c = NoCoupon THEN 0 ELSE Discount(coupon[c].terms, subtotal)
    IN  [items |-> basket, price |-> price, coupon |-> c,
         subtotal |-> subtotal, discount |-> discount, total |-> subtotal - discount]

PriceNow == [p \in Products |-> IF product[p] = Absent THEN 0 ELSE product[p].price]

(* Where a request goes on once it has the cart.                           *)
Then(op) ==
    CASE op = "get" -> "done"
      [] op = "add" -> "product"
      [] op \in {"set", "drop"} -> "item"
      [] op = "apply" -> "coupon"
      [] op = "unapply" -> "write"
      [] op = "checkout" -> "place"

(* getCartAndPricing, with which every method begins.  checkout refuses    *)
(* an empty cart.                                                          *)
Begin(r) ==
    /\ pc[r] = "idle"
    /\ User(r) \in Patient => \A s \in Requests : User(s) = User(r) => pc[s] \notin InFlight
    /\ LET u == User(r)
           op == wish[r].op
           empty == op = "checkout" /\ items[u] = NothingIn
       IN
       IF u \notin opened THEN Goto(r, "create") /\ UNCHANGED quote
       ELSE IF CannotPrice(u) \/ empty THEN Goto(r, "refused") /\ UNCHANGED quote
       ELSE /\ Goto(r, Then(op))
            /\ quote' = [quote EXCEPT ![r] = IF op = "checkout"
                           THEN Quote(items[u], PriceNow, picked[u]) ELSE NoQuote]
    /\ UNCHANGED <<catalogVars, couponVars, cartVars, wish, found>>

(* The user has no cart: it is inserted, unless another request has        *)
(* inserted it meanwhile (carts.user_id is unique).  It is empty.          *)
CreateCart(r) ==
    /\ pc[r] = "create"
    /\ opened' = opened \cup {User(r)}
    /\ Goto(r, IF User(r) \in opened \/ wish[r].op = "checkout" THEN "refused"
               ELSE Then(wish[r].op))
    /\ UNCHANGED <<catalogVars, couponVars, items, picked, wish, found, quote>>

(* addItem looks the product up.                                           *)
FindItsProduct(r) ==
    /\ pc[r] = "product"
    /\ Goto(r, IF OnSale(wish[r].product) THEN "item" ELSE "refused")
    /\ UNCHANGED <<catalogVars, couponVars, cartVars, wish, found, quote>>

(* addItem, updateItemQuantity and removeItem read the row.                *)
FindItem(r) ==
    /\ pc[r] = "item"
    /\ found' = [found EXCEPT ![r] = Item(r)]
    /\ Goto(r, IF wish[r].op # "add" /\ Item(r) = 0 THEN "refused" ELSE "write")
    /\ UNCHANGED <<catalogVars, couponVars, cartVars, wish, quote>>

NewQuantityOnly(r) == wish[r].quantity         \* mutant: "=" for "+="
AddedToRow(r) ==                               \* mutant: the sum is added to the row
    IF wish[r].op = "add" THEN Item(r) + found[r] + wish[r].quantity ELSE wish[r].quantity

(* What save() puts in the row: it updates the one that is there, or       *)
(* inserts the one that is not, whoever removed it meanwhile.              *)
Saved(r) == IF wish[r].op = "add" THEN found[r] + wish[r].quantity ELSE wish[r].quantity

WriteItem(r) ==
    /\ pc[r] = "write"
    /\ wish[r].op \in {"add", "set", "drop"}
    /\ items' = [items EXCEPT ![User(r)][wish[r].product] =
                   IF wish[r].op = "drop" THEN 0 ELSE Saved(r)]
    /\ Goto(r, "done")
    /\ UNCHANGED <<catalogVars, couponVars, opened, picked, wish, found, quote>>

(* applyCoupon looks the coupon up and prices the cart with it.            *)
FindCoupon(r) ==
    LET c == wish[r].coupon IN
    /\ pc[r] = "coupon"
    /\ Goto(r, IF coupon[c] = Absent \/ Invalid(coupon[c]) THEN "refused" ELSE "write")
    /\ UNCHANGED <<catalogVars, couponVars, cartVars, wish, found, quote>>

(* applyCoupon and removeCoupon save the cart; carts.coupon_id references  *)
(* coupons.                                                                *)
WriteCoupon(r) ==
    LET c == IF wish[r].op = "apply" THEN wish[r].coupon ELSE NoCoupon IN
    /\ pc[r] = "write"
    /\ wish[r].op \in {"apply", "unapply"}
    /\ c # NoCoupon => coupon[c] # Absent
    /\ picked' = [picked EXCEPT ![User(r)] = c]
    /\ Goto(r, "done")
    /\ UNCHANGED <<catalogVars, couponVars, opened, items, wish, found, quote>>

PriceAgain(r) ==                 \* mutant: items are ordered at today's price
    [quote[r] EXCEPT !.price = PriceNow]
Ordered(r) == quote[r]

(* checkout's transaction: the order, its items at their prices, the rows  *)
(* that were read removed, the coupon taken off; orders.coupon_id          *)
(* references coupons.                                                     *)
PlaceOrder(r) ==
    LET order == Ordered(r) IN
    /\ pc[r] = "place"
    /\ order.coupon # NoCoupon => coupon[order.coupon] # Absent
    /\ quote' = [quote EXCEPT ![r] = order]
    /\ items' = [items EXCEPT ![User(r)] =
                   [p \in Products |-> IF order.items[p] > 0 THEN 0 ELSE @[p]]]
    /\ picked' = [picked EXCEPT ![User(r)] = NoCoupon]
    /\ Goto(r, "done")
    /\ UNCHANGED <<catalogVars, couponVars, opened, wish, found>>

(* A constraint or a lost connection makes a statement fail, the process   *)
(* dies, or, in checkout, the key or the stock is refused.                 *)
Break(r) ==
    /\ pc[r] \in InFlight
    /\ Goto(r, "refused")
    /\ UNCHANGED <<catalogVars, couponVars, cartVars, wish, found, quote>>

-----------------------------------------------------------------------------
(* Coupons                                                                 *)

SetErrand(a, step, id, row) ==
    errand' = [errand EXCEPT ![a] = [step |-> step, id |-> id, row |-> row]]

(* CouponsService.create: only the code is checked.                        *)
CreateCoupon(a, c) ==
    /\ errand[a].step = "idle"
    /\ coupon[c] = Absent
    /\ \E terms \in Terms, expired \in BOOLEAN :
         coupon' = [coupon EXCEPT ![c] = Coupon(terms, expired)]
    /\ SetErrand(a, "done", NoCoupon, Absent)

(* update and remove read the row first.  What update will write is the    *)
(* entity it has read and the request's new terms and expiry.              *)
ReadCoupon(a, c) ==
    /\ errand[a].step = "idle"
    /\ coupon[c] # Absent
    /\ \/ \E row \in CouponRows : SetErrand(a, "save", c, row)
       \/ SetErrand(a, "delete", c, Absent)
    /\ UNCHANGED coupon

(* save() inserts the row again if it is gone.                             *)
SaveCoupon(a) ==
    /\ errand[a].step = "save"
    /\ coupon' = [coupon EXCEPT ![errand[a].id] = errand[a].row]
    /\ SetErrand(a, "done", NoCoupon, Absent)

IsOrder(r) == wish[r].op = "checkout" /\ pc[r] = "done"
OnOrder(c) == \E r \in Requests : IsOrder(r) /\ quote[r].coupon = c

UsedInOrders(c) == OnOrder(c)    \* mutant: no foreign key from carts
InUse(c) == (\E u \in Users : picked[u] = c) \/ OnOrder(c)

DeleteCoupon(a) ==
    /\ errand[a].step = "delete"
    /\ ~InUse(errand[a].id)
    /\ coupon' = [coupon EXCEPT ![errand[a].id] = Absent]
    /\ SetErrand(a, "done", NoCoupon, Absent)

ErrandFails(a) ==
    /\ errand[a].step \in {"save", "delete"}
    /\ SetErrand(a, "done", NoCoupon, Absent)
    /\ UNCHANGED coupon

(* Time passes a coupon's expires_at.                                      *)
Expire(c) ==
    /\ coupon[c] # Absent
    /\ coupon' = [coupon EXCEPT ![c].expired = TRUE]
    /\ UNCHANGED errand

-----------------------------------------------------------------------------

CartNext ==
    \/ \E r \in Requests :
         \/ Begin(r) \/ CreateCart(r) \/ FindItsProduct(r) \/ FindItem(r)
         \/ WriteItem(r) \/ FindCoupon(r) \/ WriteCoupon(r) \/ PlaceOrder(r)
         \/ Break(r)
    \/ /\ \/ \E a \in Errands : \/ \E c \in Coupons : CreateCoupon(a, c) \/ ReadCoupon(a, c)
                                \/ SaveCoupon(a) \/ DeleteCoupon(a) \/ ErrandFails(a)
          \/ \E c \in Coupons : Expire(c)
       /\ UNCHANGED <<catalogVars, cartVars, requestVars>>
    \/ CatalogNext /\ UNCHANGED <<couponVars, cartVars, requestVars>>

CartSpec == CartInit /\ [][CartNext]_storeVars

-----------------------------------------------------------------------------
(* What can go wrong                                                       *)

(* A user who waits for each answer has an atomic cart, whatever other     *)
(* users and administrators do meanwhile: no addition is lost or counted   *)
(* twice, what was removed stays removed, a checkout orders what the cart  *)
(* holds and empties it.  ("Cart item added or quantity incremented",      *)
(* acceptance-criteria.md.)                                                *)
Outcome(r) ==
    IF User(r) \notin Patient \/ pc[r] \notin {"done", "refused"} THEN "open"
    ELSE IF pc[r] = "done" THEN "granted" ELSE "denied"

Promise == INSTANCE CartPromise WITH
    Users   <- Patient,
    basket  <- [u \in Patient |-> items[u]],
    picked  <- [u \in Patient |-> picked[u]],
    outcome <- [r \in Requests |-> Outcome(r)],
    bought  <- [r \in Requests |-> IF User(r) \in Patient /\ IsOrder(r) THEN quote[r].items
                                                                      ELSE NothingIn]

ImplementsPromise == Promise!PromiseSpec

(* Requests of one user that overlap may undo each other, but a cart never *)
(* holds more than was put in: what it may have held to begin with, and    *)
(* what each request asked for once.                                       *)
PutIn(u, p) ==
    {r \in Requests : /\ pc[r] = "done" /\ wish[r].user = u /\ wish[r].product = p
                      /\ wish[r].op \in {"add", "set"}}

NothingCountedTwice ==
    \A u \in Users, p \in Products :
        items[u][p] <= Max({basket[p] : basket \in StartingCarts \cup {NothingIn}})
                       + MapThenSumSet(LAMBDA r : wish[r].quantity, PutIn(u, p))

(* Carts and orders refer to coupons that exist, although an administrator *)
(* may remove a coupon between the moment a request finds it and the       *)
(* moment that it saves the cart or the order.                             *)
CouponsInUseExist ==
    /\ \A u \in Users : picked[u] # NoCoupon => coupon[picked[u]] # Absent
    /\ \A r \in Requests : IsOrder(r) /\ quote[r].coupon # NoCoupon => coupon[quote[r].coupon] # Absent

(* "An Order's financial and fulfillment data is isolated from future      *)
(* catalog changes" (invariants.md): its amounts are those of its own      *)
(* items at its own prices, and the discount is never more than that,      *)
(* although prices, products and coupons change between the pricing of the *)
(* cart and the order.                                                     *)
OrdersAddUp ==
    \A r \in {s \in Requests : IsOrder(s)} :
        LET order == quote[r] IN
        /\ order.subtotal = Subtotal(order.items, order.price)
        /\ order.total = order.subtotal - order.discount
        /\ 0 <= order.total /\ order.total <= order.subtotal
=============================================================================
