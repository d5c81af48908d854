----------------------------- MODULE CartProofs -----------------------------
(***************************************************************************)
(* Theorems about Cart, for any customers, administrators, products and    *)
(* coupons.  Where amounts are added up, the sets that they are added up   *)
(* over are finite, which is a hypothesis: tables are.                     *)
(***************************************************************************)
EXTENDS Cart, CatalogProofs, SumTheorems

-----------------------------------------------------------------------------
(* Prices                                                                  *)

(* A subtotal is the sum of the items' prices.                             *)
LEMMA SubtotalIsSum ==
  ASSUME IsFiniteSet(Products), NEW basket \in Baskets, NEW prices
  PROVE  Subtotal(basket, prices)
           = SumFunctionOnSet([p \in Products |-> prices[p] * basket[p]], Products)
<1> DEFINE f == [p \in Products |-> prices[p] * basket[p]]
           P(g) == g = [s \in SUBSET Products |->
                          IF s = {} THEN 0
                          ELSE prices[Any(s)] * basket[Any(s)] + g[s \ {Any(s)}]]
<1>1. Subtotal(basket, prices) = (CHOOSE g : P(g))[Products]
  BY DEF Subtotal, MapThenSumSet, MapThenFoldSet, Any, Baskets
<1>2. ASSUME NEW g PROVE P(g) <=> Sums(g, f, Products)
  <2>1. \A s \in SUBSET Products :
           Equation(g, f, s) = IF s = {} THEN 0
                               ELSE prices[Any(s)] * basket[Any(s)] + g[s \ {Any(s)}]
    BY DEF Equation, Any
  <2> QED
    BY <2>1 DEF Sums
<1>3. PICK g : Sums(g, f, Products)
  BY SumsExist
<1> DEFINE k == CHOOSE h : P(h)
<1>4. P(k)
  BY <1>2, <1>3
<1>5. Sums(k, f, Products)
  BY <1>2, <1>4
<1>6. PICK h : Sums(h, f, Products) /\ SumFunctionOnSet(f, Products) = h[Products]
  BY SumIsSums
<1> HIDE DEF f, P, k
<1>7. k[Products] = h[Products]
  BY <1>5, <1>6, SumsAgree
<1> QED
  BY <1>1, <1>6, <1>7 DEF k, f

LEMMA SubtotalTyped ==
  ASSUME IsFiniteSet(Products), NEW basket \in Baskets, NEW prices \in [Products -> Nat]
  PROVE  Subtotal(basket, prices) \in Nat
<1> DEFINE f == [p \in Products |-> prices[p] * basket[p]]
<1>1. \A p \in Products : f[p] \in Nat
  <2> SUFFICES ASSUME NEW p \in Products PROVE prices[p] * basket[p] \in Nat
    OBVIOUS
  <2>1. prices[p] \in Nat /\ basket[p] \in Nat
    BY DEF Baskets
  <2> QED
    BY <2>1
<1> HIDE DEF f
<1>2. SumFunctionOnSet(f, Products) \in Nat
  BY <1>1, SumType
<1> QED
  BY <1>2, SubtotalIsSum DEF f

(* Floating point may take one unit away, but only where there is one.     *)
LEMMA PercentageTyped ==
  ASSUME NEW subtotal \in Nat, NEW percent \in Nat \ {0}
  PROVE  Percentage(subtotal, percent) \in Nat
<1> DEFINE x == subtotal * percent
<1>1. x \in Nat
  OBVIOUS
<1>2. <<subtotal, percent>> \in RoundedDown => x # 0 /\ x % 100 = 0
  <2>1. subtotal # 0 => x # 0
    OBVIOUS
  <2>2. <<subtotal, percent>> \in RoundedDown => subtotal # 0 /\ x % 100 = 0
    BY PricingAssumption
  <2> QED
    BY <2>1, <2>2
<1>3. Percentage(subtotal, percent)
        = IF <<subtotal, percent>> \in RoundedDown THEN (x \div 100) - 1 ELSE x \div 100
  BY DEF Percentage
<1> HIDE DEF x
<1>4. x \div 100 \in Nat /\ (x # 0 /\ x % 100 = 0 => x \div 100 # 0)
  BY <1>1
<1> QED
  BY <1>2, <1>3, <1>4

LEMMA DiscountTyped ==
  ASSUME NEW subtotal \in Nat, NEW terms \in CouponTerms
  PROVE  Discount(terms, subtotal) \in 0..subtotal
<1> DEFINE discount == IF terms.type = "PERCENTAGE" THEN Percentage(subtotal, terms.amount)
                                                    ELSE terms.amount
<1>1. terms.amount \in Nat \ {0}
  BY DEF CouponTerms
<1>2. discount \in Nat
  BY <1>1, PercentageTyped
<1>3. Discount(terms, subtotal) = IF discount > subtotal THEN subtotal ELSE discount
  BY DEF Discount
<1> HIDE DEF discount
<1> QED
  BY <1>2, <1>3

(* The amounts of an order.                                                *)
AddsUp(order) ==
    /\ order.subtotal = Subtotal(order.items, order.price)
    /\ order.total = order.subtotal - order.discount
    /\ 0 <= order.total /\ order.total <= order.subtotal

LEMMA RowTerms ==
  ASSUME NEW row \in CouponRows
  PROVE  /\ row.terms \in CouponTerms /\ row # Absent
         /\ [row EXCEPT !.expired = TRUE] \in CouponRows
<1>1. CouponRows = [terms : Terms, used : {0}, expired : BOOLEAN]
  <2>1. ASSUME NEW c \in [terms : Terms, used : {0}, expired : BOOLEAN]
        PROVE  c \in CouponRows
    <3>1. c = [terms |-> c.terms, used |-> 0, expired |-> c.expired]
      OBVIOUS
    <3>2. c = Coupon(c.terms, c.expired) /\ c.terms \in Terms /\ c.expired \in BOOLEAN
      BY <3>1 DEF Coupon
    <3> QED
      BY <3>2 DEF CouponRows
  <2>2. ASSUME NEW c \in CouponRows
        PROVE  c \in [terms : Terms, used : {0}, expired : BOOLEAN]
    <3>1. PICK terms \in Terms, expired \in BOOLEAN : c = Coupon(terms, expired)
      BY DEF CouponRows
    <3> QED
      BY <3>1 DEF Coupon
  <2> QED
    BY <2>1, <2>2
<1>2. row \in [terms : Terms, used : {0}, expired : BOOLEAN]
  BY <1>1
<1>3. [row EXCEPT !.expired = TRUE] \in [terms : Terms, used : {0}, expired : BOOLEAN]
  BY <1>2
<1>4. Terms \subseteq CouponTerms
  BY PricingAssumption
<1>5. row.terms \in CouponTerms
  BY <1>2, <1>4
<1>6. row # Absent
  BY CartAssumption
<1> QED
  BY <1>1, <1>3, <1>5, <1>6

LEMMA QuoteTyped ==
  ASSUME IsFiniteSet(Products), NEW basket \in Baskets, NEW prices \in [Products -> Nat],
         NEW c \in Coupons \cup {NoCoupon}, c # NoCoupon => coupon[c] \in CouponRows
  PROVE  /\ Quote(basket, prices, c) \in Quotes
         /\ AddsUp(Quote(basket, prices, c))
         /\ Quote(basket, prices, c).items = basket
<1> DEFINE subtotal == Subtotal(basket, prices)
           discount == IF c = NoCoupon THEN 0 ELSE Discount(coupon[c].terms, subtotal)
           order == [items |-> basket, price |-> prices, coupon |-> c,
                     subtotal |-> subtotal, discount |-> discount, total |-> subtotal - discount]
<1>1. subtotal \in Nat
  BY SubtotalTyped
<1>2. discount \in 0..subtotal
  <2>1. CASE c = NoCoupon
    BY <1>1, <2>1
  <2>2. CASE c # NoCoupon
    <3>1. coupon[c].terms \in CouponTerms
      BY <2>2, RowTerms
    <3>2. Discount(coupon[c].terms, subtotal) \in 0..subtotal
      BY <1>1, <3>1, DiscountTyped
    <3> QED
      BY <2>2, <3>2
  <2> QED
    BY <2>1, <2>2
<1>3. Quote(basket, prices, c) = order
  BY DEF Quote
<1>4. subtotal = Subtotal(basket, prices)
  OBVIOUS
<1> HIDE DEF subtotal, discount
<1>5. order \in Quotes
  BY <1>1, <1>2 DEF Quotes
<1>6. AddsUp(order)
  BY <1>1, <1>2, <1>4 DEF AddsUp
<1>7. order.items = basket
  OBVIOUS
<1> QED
  BY <1>3, <1>5, <1>6, <1>7

LEMMA PricesTyped ==
  ASSUME CatalogTypeOK
  PROVE  PriceNow \in [Products -> Nat]
<1>1. ASSUME NEW p \in Products, product[p] # Absent PROVE product[p].price \in Nat
  <2>1. product[p] \in ProductRows
    BY <1>1, RowsTyped
  <2> QED
    BY <2>1, CatalogAssumption DEF ProductRows
<1> QED
  BY <1>1 DEF PriceNow

-----------------------------------------------------------------------------
(* The invariant                                                           *)

ErrandsHold ==
    \A a \in Errands :
        /\ errand[a].step = "save" => errand[a].id \in Coupons /\ errand[a].row \in CouponRows
        /\ errand[a].step = "delete" => errand[a].id \in Coupons

(* A request stands where its operation can lead it; a checkout that is    *)
(* about to place its order, and an order, have amounts that add up.       *)
RequestsHold ==
    \A r \in Requests :
        /\ pc[r] = "coupon" => wish[r].op = "apply"
        /\ pc[r] = "place" => wish[r].op = "checkout"
        /\ pc[r] = "place" \/ IsOrder(r) => quote[r] \in Quotes /\ AddsUp(quote[r])

CartInv == CatalogInv /\ CartTypeOK /\ ErrandsHold /\ RequestsHold /\ CouponsInUseExist

Labels == {"idle", "never", "done", "refused"} \cup InFlight

LEMMA Goes ==
  ASSUME CartTypeOK, NEW r \in Requests, NEW label \in Labels, Goto(r, label)
  PROVE  /\ pc' \in [Requests -> Labels]
         /\ pc'[r] = label
         /\ \A s \in Requests \ {r} : pc'[s] = pc[s]
BY DEF Goto, CartTypeOK, Labels

LEMMA WishTyped ==
  ASSUME CartTypeOK, NEW r \in Requests
  PROVE  /\ wish[r] \in Wishes
         /\ User(r) \in Users /\ wish[r].user \in Users /\ wish[r].product \in Products
         /\ wish[r].coupon \in Coupons /\ wish[r].coupon # NoCoupon
         /\ wish[r].quantity \in Nat \ {0}
         /\ wish[r].op \in {"get", "add", "set", "drop", "apply", "unapply", "checkout"}
<1>1. wish[r] \in Wishes /\ wish[r] \in AllWishes
  BY CartAssumption DEF CartTypeOK
<1> QED
  BY <1>1, CartAssumption DEF AllWishes, User

-----------------------------------------------------------------------------
(* Requests' steps                                                         *)

LEMMA CatalogStands == ASSUME CatalogInv, UNCHANGED catalogVars PROVE CatalogInv'
BY CatalogKeeps

(* What a request may do to the carts and to its own quote.                *)
LEMMA RequestKeeps ==
  ASSUME CartInv, NEW r \in Requests, NEW label \in Labels, Goto(r, label),
         UNCHANGED <<catalogVars, couponVars, wish>>,
         opened' \in SUBSET Users, items' \in [Users -> Baskets],
         picked' \in [Users -> Coupons \cup {NoCoupon}], found' \in [Requests -> Nat],
         quote' \in [Requests -> Quotes \cup {NoQuote}],
         \A s \in Requests \ {r} : quote'[s] = quote[s],
         \A u \in Users : picked'[u] # NoCoupon => coupon[picked'[u]] # Absent,
         label = "coupon" => wish[r].op = "apply", label = "place" => wish[r].op = "checkout",
         label = "place" \/ (label = "done" /\ wish[r].op = "checkout") =>
            quote'[r] \in Quotes /\ AddsUp(quote'[r]),
         label = "done" /\ wish[r].op = "checkout" /\ quote'[r].coupon # NoCoupon =>
            coupon[quote'[r].coupon] # Absent
  PROVE  CartInv'
<1>0. CartTypeOK
  BY DEF CartInv
<1>1. CatalogInv'
  BY CatalogStands DEF CartInv
<1>2. CartTypeOK'
  BY <1>0, <1>1, Goes DEF CartTypeOK, CatalogInv, couponVars, Labels
<1>3. ErrandsHold'
  BY DEF CartInv, ErrandsHold, couponVars
<1>4. \A s \in Requests \ {r} :
         /\ pc'[s] = pc[s] /\ wish'[s] = wish[s] /\ quote'[s] = quote[s]
         /\ IsOrder(s)' <=> IsOrder(s)
  BY <1>0, Goes DEF IsOrder
<1>5. pc'[r] = label /\ wish'[r] = wish[r]
      /\ (IsOrder(r)' <=> label = "done" /\ wish[r].op = "checkout")
  BY <1>0, Goes DEF IsOrder
<1>6. RequestsHold'
  <2> SUFFICES ASSUME NEW s \in Requests
               PROVE  /\ pc'[s] = "coupon" => wish'[s].op = "apply"
                      /\ pc'[s] = "place" => wish'[s].op = "checkout"
                      /\ pc'[s] = "place" \/ IsOrder(s)' => quote'[s] \in Quotes /\ AddsUp(quote'[s])
    BY DEF RequestsHold
  <2>1. CASE s = r
    BY <1>5, <2>1
  <2>2. CASE s # r
    BY <1>4, <2>2 DEF CartInv, RequestsHold
  <2> QED
    BY <2>1, <2>2
<1>7. CouponsInUseExist'
  <2>1. ASSUME NEW s \in Requests, IsOrder(s)', quote'[s].coupon # NoCoupon
        PROVE  coupon'[quote'[s].coupon] # Absent
    <3>1. CASE s = r
      BY <1>5, <2>1, <3>1 DEF couponVars
    <3>2. CASE s # r
      BY <1>4, <2>1, <3>2 DEF CartInv, CouponsInUseExist, couponVars
    <3> QED
      BY <3>1, <3>2
  <2> QED
    BY <2>1 DEF CouponsInUseExist, couponVars
<1> QED
  BY <1>1, <1>2, <1>3, <1>6, <1>7 DEF CartInv

(* A request that only goes on: it does not place an order with this step. *)
LEMMA GoingOnKeeps ==
  ASSUME CartInv, NEW r \in Requests, NEW label \in Labels, Goto(r, label),
         UNCHANGED <<catalogVars, couponVars, items, picked, wish, quote>>,
         opened' \in SUBSET Users, found' \in [Requests -> Nat],
         label = "coupon" => wish[r].op = "apply",
         label # "place", label = "done" => wish[r].op # "checkout"
  PROVE  CartInv'
BY RequestKeeps DEF CartInv, CartTypeOK, CouponsInUseExist

LEMMA ThenLeads ==
  ASSUME CartTypeOK, NEW r \in Requests
  PROVE  /\ Then(wish[r].op) \in Labels
         /\ Then(wish[r].op) = "done" => wish[r].op = "get"
         /\ Then(wish[r].op) = "coupon" => wish[r].op = "apply"
         /\ Then(wish[r].op) = "place" => wish[r].op = "checkout"
         /\ wish[r].op # "get" => Then(wish[r].op) \in InFlight
         /\ Then(wish[r].op) = "write" => wish[r].op = "unapply"
BY WishTyped DEF Then, Labels, InFlight

LEMMA BeginKeeps ==
  ASSUME IsFiniteSet(Products), CartInv, NEW r \in Requests, Begin(r)
  PROVE  CartInv'
<1> DEFINE u == User(r)
           op == wish[r].op
<1>0. /\ CartTypeOK /\ CatalogTypeOK /\ u \in Users
      /\ UNCHANGED <<catalogVars, couponVars, cartVars, wish, found>>
      /\ opened' \in SUBSET Users /\ found' \in [Requests -> Nat]
  BY WishTyped DEF CartInv, CartTypeOK, Begin, cartVars
<1>1. CASE \E label \in {"create", "refused"} : Goto(r, label) /\ UNCHANGED quote
  <2>1. {"create", "refused"} \subseteq Labels
    BY DEF Labels, InFlight
  <2> QED
    BY <1>0, <1>1, <2>1, GoingOnKeeps DEF cartVars
<1>2. CASE /\ ~CannotPrice(u)
           /\ Goto(r, Then(op))
           /\ quote' = [quote EXCEPT ![r] = IF op = "checkout"
                          THEN Quote(items[u], PriceNow, picked[u]) ELSE NoQuote]
  <2> DEFINE new == IF op = "checkout" THEN Quote(items[u], PriceNow, picked[u]) ELSE NoQuote
  <2>1. /\ items[u] \in Baskets /\ picked[u] \in Coupons \cup {NoCoupon}
        /\ picked[u] # NoCoupon => coupon[picked[u]] \in CouponRows
    BY <1>0 DEF CartInv, CartTypeOK, CouponsInUseExist
  <2>2. PriceNow \in [Products -> Nat]
    BY <1>0, PricesTyped
  <2>3. op = "checkout" => new \in Quotes /\ AddsUp(new)
    BY <2>1, <2>2, QuoteTyped
  <2>4. new \in Quotes \cup {NoQuote}
    BY <2>3
  <2>5. quote' = [quote EXCEPT ![r] = new]
    BY <1>2
  <2> HIDE DEF new
  <2>6. /\ quote' \in [Requests -> Quotes \cup {NoQuote}]
        /\ quote'[r] = new
        /\ \A s \in Requests \ {r} : quote'[s] = quote[s]
    BY <1>0, <2>4, <2>5 DEF CartTypeOK
  <2>7. /\ Then(op) \in Labels
        /\ Then(op) = "coupon" => op = "apply"
        /\ Then(op) = "place" => op = "checkout"
        /\ ~(Then(op) = "done" /\ op = "checkout")
    BY <1>0, ThenLeads
  <2>8. /\ items' \in [Users -> Baskets]
        /\ picked' \in [Users -> Coupons \cup {NoCoupon}]
        /\ \A v \in Users : picked'[v] # NoCoupon => coupon[picked'[v]] # Absent
    BY <1>0 DEF CartInv, CartTypeOK, CouponsInUseExist, cartVars
  <2> HIDE DEF u, op
  <2> QED
    BY <1>0, <1>2, <2>3, <2>6, <2>7, <2>8, RequestKeeps DEF op
<1> QED
  BY <1>1, <1>2 DEF Begin

LEMMA CreateCartKeeps ==
  ASSUME CartInv, NEW r \in Requests, CreateCart(r)
  PROVE  CartInv'
<1>0. /\ CartTypeOK /\ opened' \in SUBSET Users /\ found' \in [Requests -> Nat]
      /\ UNCHANGED <<catalogVars, couponVars, items, picked, wish, quote>>
  BY WishTyped DEF CartInv, CartTypeOK, CreateCart
<1>1. CASE Goto(r, "refused")
  BY <1>0, <1>1, GoingOnKeeps DEF Labels
<1>2. CASE wish[r].op # "checkout" /\ Goto(r, Then(wish[r].op))
  BY <1>0, <1>2, ThenLeads, GoingOnKeeps
<1> QED
  BY <1>1, <1>2 DEF CreateCart

LEMMA FindItsProductKeeps ==
  ASSUME CartInv, NEW r \in Requests, FindItsProduct(r)
  PROVE  CartInv'
<1>1. PICK label \in {"item", "refused"} : Goto(r, label)
  BY DEF FindItsProduct
<1>2. label \in Labels /\ opened' \in SUBSET Users /\ found' \in [Requests -> Nat]
  BY DEF FindItsProduct, CartInv, CartTypeOK, cartVars, Labels, InFlight
<1> QED
  BY <1>1, <1>2, GoingOnKeeps DEF FindItsProduct, cartVars

LEMMA FindItemKeeps ==
  ASSUME CartInv, NEW r \in Requests, FindItem(r)
  PROVE  CartInv'
<1>1. PICK label \in {"write", "refused"} : Goto(r, label)
  BY DEF FindItem
<1>2. Item(r) \in Nat
  BY WishTyped DEF Item, CartInv, CartTypeOK, Baskets
<1>3. label \in Labels /\ opened' \in SUBSET Users /\ found' \in [Requests -> Nat]
  BY <1>2 DEF FindItem, CartInv, CartTypeOK, cartVars, Labels, InFlight
<1> QED
  BY <1>1, <1>3, GoingOnKeeps DEF FindItem, cartVars

LEMMA FindCouponKeeps ==
  ASSUME CartInv, NEW r \in Requests, FindCoupon(r)
  PROVE  CartInv'
<1>1. PICK label \in {"write", "refused"} : Goto(r, label)
  BY DEF FindCoupon
<1>2. label \in Labels /\ opened' \in SUBSET Users /\ found' \in [Requests -> Nat]
  BY DEF FindCoupon, CartInv, CartTypeOK, cartVars, Labels, InFlight
<1> QED
  BY <1>1, <1>2, GoingOnKeeps DEF FindCoupon, cartVars

LEMMA BreakKeeps ==
  ASSUME CartInv, NEW r \in Requests, Break(r)
  PROVE  CartInv'
<1>1. /\ Goto(r, "refused") /\ "refused" \in Labels
      /\ opened' \in SUBSET Users /\ found' \in [Requests -> Nat]
  BY DEF Break, CartInv, CartTypeOK, cartVars, Labels
<1> QED
  BY <1>1, GoingOnKeeps DEF Break, cartVars

(* What a request writes in a row of cart_items.                           *)
LEMMA ItemWritten ==
  ASSUME CartTypeOK, NEW r \in Requests, WriteItem(r)
  PROVE  /\ items' \in [Users -> Baskets]
         /\ items'[User(r)][wish[r].product] = (IF wish[r].op = "drop" THEN 0 ELSE Saved(r))
         /\ \A u \in Users, p \in Products :
              u # User(r) \/ p # wish[r].product => items'[u][p] = items[u][p]
         /\ \A u \in Users : u # User(r) => items'[u] = items[u]
<1> DEFINE u == User(r)
           q == wish[r].product
           new == IF wish[r].op = "drop" THEN 0 ELSE Saved(r)
           basket == [items[u] EXCEPT ![q] = new]
<1>1. u \in Users /\ q \in Products /\ new \in Nat
  BY WishTyped DEF CartTypeOK, Saved
<1>2. items' = [items EXCEPT ![u] = basket]
  BY DEF WriteItem
<1>3. items \in [Users -> Baskets] /\ items[u] \in [Products -> Nat]
  BY <1>1 DEF CartTypeOK, Baskets
<1> HIDE DEF u, q, new
<1>4. /\ basket \in [Products -> Nat] /\ basket[q] = new
      /\ \A p \in Products : p # q => basket[p] = items[u][p]
  BY <1>1, <1>3
<1>5. basket \in Baskets
  BY <1>4 DEF Baskets
<1> HIDE DEF basket
<1>6. /\ items' \in [Users -> Baskets] /\ items'[u] = basket
      /\ \A v \in Users : v # u => items'[v] = items[v]
  BY <1>1, <1>2, <1>3, <1>5
<1> QED
  BY <1>4, <1>6 DEF u, q, new

LEMMA WriteItemKeeps ==
  ASSUME CartInv, NEW r \in Requests, WriteItem(r)
  PROVE  CartInv'
<1>0. CartTypeOK /\ wish[r].op # "checkout" /\ "done" \in Labels /\ "done" # "place"
  BY DEF CartInv, WriteItem, Labels
<1>1. /\ UNCHANGED <<catalogVars, couponVars, opened, picked, wish, found, quote>>
      /\ Goto(r, "done")
  BY DEF WriteItem
<1>2. /\ opened' \in SUBSET Users /\ found' \in [Requests -> Nat]
      /\ picked' \in [Users -> Coupons \cup {NoCoupon}]
      /\ quote' \in [Requests -> Quotes \cup {NoQuote}]
      /\ \A u \in Users : picked'[u] # NoCoupon => coupon[picked'[u]] # Absent
      /\ \A s \in Requests \ {r} : quote'[s] = quote[s]
  BY <1>0, <1>1 DEF CartTypeOK, CartInv, CouponsInUseExist
<1>3. items' \in [Users -> Baskets]
  BY <1>0, ItemWritten
<1> QED
  BY <1>0, <1>1, <1>2, <1>3, RequestKeeps

(* The coupon may be gone since it was found, but then the save fails.     *)
LEMMA WriteCouponKeeps ==
  ASSUME CartInv, NEW r \in Requests, WriteCoupon(r)
  PROVE  CartInv'
<1> DEFINE c == IF wish[r].op = "apply" THEN wish[r].coupon ELSE NoCoupon
<1>0. CartTypeOK /\ wish[r].op # "checkout" /\ "done" \in Labels /\ "done" # "place"
  BY DEF CartInv, WriteCoupon, Labels
<1>1. /\ UNCHANGED <<catalogVars, couponVars, opened, items, wish, found, quote>>
      /\ Goto(r, "done")
      /\ c # NoCoupon => coupon[c] # Absent
      /\ picked' = [picked EXCEPT ![User(r)] = c]
  BY DEF WriteCoupon
<1>2. c \in Coupons \cup {NoCoupon} /\ User(r) \in Users
  BY <1>0, WishTyped
<1> HIDE DEF c
<1>3. /\ picked' \in [Users -> Coupons \cup {NoCoupon}]
      /\ \A u \in Users : picked'[u] = c \/ picked'[u] = picked[u]
  BY <1>0, <1>1, <1>2 DEF CartTypeOK
<1>4. \A u \in Users : picked'[u] # NoCoupon => coupon[picked'[u]] # Absent
  BY <1>1, <1>3 DEF CartInv, CouponsInUseExist
<1>5. /\ opened' \in SUBSET Users /\ found' \in [Requests -> Nat]
      /\ items' \in [Users -> Baskets]
      /\ quote' \in [Requests -> Quotes \cup {NoQuote}]
      /\ \A s \in Requests \ {r} : quote'[s] = quote[s]
  BY <1>0, <1>1 DEF CartTypeOK
<1> QED
  BY <1>0, <1>1, <1>3, <1>4, <1>5, RequestKeeps

LEMMA QuoteFields ==
  ASSUME NEW order \in Quotes
  PROVE  order.items \in [Products -> Nat] /\ order.coupon \in Coupons \cup {NoCoupon}
BY DEF Quotes, Baskets

(* An order empties the rows that its checkout has read.                   *)
LEMMA CartEmptied ==
  ASSUME CartTypeOK, NEW r \in Requests, PlaceOrder(r), quote[r] \in Quotes
  PROVE  /\ items' \in [Users -> Baskets]
         /\ \A p \in Products :
              items'[User(r)][p] = IF quote[r].items[p] > 0 THEN 0 ELSE items[User(r)][p]
         /\ \A u \in Users : u # User(r) => items'[u] = items[u]
         /\ picked' \in [Users -> Coupons \cup {NoCoupon}]
         /\ picked'[User(r)] = NoCoupon
         /\ \A u \in Users : u # User(r) => picked'[u] = picked[u]
         /\ quote' = quote
<1> DEFINE u == User(r)
           basket == [p \in Products |-> IF quote[r].items[p] > 0 THEN 0 ELSE items[u][p]]
<1>1. u \in Users /\ items[u] \in [Products -> Nat]
  BY WishTyped DEF CartTypeOK, Baskets
<1>2. /\ items' = [items EXCEPT ![u] = basket]
      /\ picked' = [picked EXCEPT ![u] = NoCoupon]
      /\ quote' = [quote EXCEPT ![r] = quote[r]]
  BY <1>1 DEF PlaceOrder, Ordered
<1>3. basket \in Baskets
  BY <1>1 DEF Baskets
<1>4. \A p \in Products : basket[p] = IF quote[r].items[p] > 0 THEN 0 ELSE items[u][p]
  OBVIOUS
<1> HIDE DEF u, basket
<1>5. /\ items' \in [Users -> Baskets] /\ items'[u] = basket
      /\ \A v \in Users : v # u => items'[v] = items[v]
  BY <1>1, <1>2, <1>3 DEF CartTypeOK
<1>6. /\ picked' \in [Users -> Coupons \cup {NoCoupon}] /\ picked'[u] = NoCoupon
      /\ \A v \in Users : v # u => picked'[v] = picked[v]
  BY <1>1, <1>2 DEF CartTypeOK
<1>7. quote' = quote
  BY <1>2 DEF CartTypeOK
<1> QED
  BY <1>4, <1>5, <1>6, <1>7 DEF u

LEMMA PlaceOrderKeeps ==
  ASSUME CartInv, NEW r \in Requests, PlaceOrder(r)
  PROVE  CartInv'
<1>0. /\ CartTypeOK /\ "done" \in Labels /\ "done" # "place"
      /\ quote[r] \in Quotes /\ AddsUp(quote[r])
  BY DEF CartInv, RequestsHold, PlaceOrder, Labels
<1>1. /\ UNCHANGED <<catalogVars, couponVars, opened, wish, found>>
      /\ Goto(r, "done")
      /\ quote[r].coupon # NoCoupon => coupon[quote[r].coupon] # Absent
  BY DEF PlaceOrder, Ordered
<1>2. /\ items' \in [Users -> Baskets]
      /\ picked' \in [Users -> Coupons \cup {NoCoupon}]
      /\ \A u \in Users : picked'[u] = NoCoupon \/ picked'[u] = picked[u]
      /\ quote' = quote
  BY <1>0, CartEmptied
<1>3. \A u \in Users : picked'[u] # NoCoupon => coupon[picked'[u]] # Absent
  BY <1>2 DEF CartInv, CouponsInUseExist
<1>4. /\ opened' \in SUBSET Users /\ found' \in [Requests -> Nat]
      /\ quote' \in [Requests -> Quotes \cup {NoQuote}]
  BY <1>0, <1>1, <1>2 DEF CartTypeOK
<1> QED
  BY <1>0, <1>1, <1>2, <1>3, <1>4, RequestKeeps

-----------------------------------------------------------------------------
(* Errands and the catalog                                                 *)

LEMMA ErrandSet ==
  ASSUME CartTypeOK, ErrandsHold, NEW a \in Errands,
         NEW step \in {"save", "delete", "done"}, NEW id \in Coupons \cup {NoCoupon},
         NEW row \in CouponRows \cup {Absent}, SetErrand(a, step, id, row),
         step = "save" => id \in Coupons /\ row \in CouponRows,
         step = "delete" => id \in Coupons
  PROVE  /\ errand' \in [Errands -> [step : {"idle", "save", "delete", "done"},
                                     id : Coupons \cup {NoCoupon}, row : CouponRows \cup {Absent}]]
         /\ ErrandsHold'
<1> DEFINE k == [step |-> step, id |-> id, row |-> row]
<1>1. /\ k \in [step : {"idle", "save", "delete", "done"},
                id : Coupons \cup {NoCoupon}, row : CouponRows \cup {Absent}]
      /\ k.step = step /\ k.id = id /\ k.row = row
  OBVIOUS
<1>2. errand' = [errand EXCEPT ![a] = k]
  BY DEF SetErrand
<1> HIDE DEF k
<1>3. /\ errand' \in [Errands -> [step : {"idle", "save", "delete", "done"},
                                  id : Coupons \cup {NoCoupon}, row : CouponRows \cup {Absent}]]
      /\ errand'[a] = k /\ \A b \in Errands \ {a} : errand'[b] = errand[b]
  BY <1>1, <1>2 DEF CartTypeOK
<1>4. ErrandsHold'
  BY <1>1, <1>3 DEF ErrandsHold
<1> QED
  BY <1>3, <1>4

(* What an administrator's step may do to the coupons: none that is in use *)
(* goes.                                                                   *)
LEMMA CouponsKeep ==
  ASSUME CartInv, UNCHANGED <<catalogVars, cartVars, requestVars>>,
         coupon' \in [Coupons -> CouponRows \cup {Absent}],
         errand' \in [Errands -> [step : {"idle", "save", "delete", "done"},
                                  id : Coupons \cup {NoCoupon}, row : CouponRows \cup {Absent}]],
         ErrandsHold',
         \A c \in Coupons : coupon[c] # Absent /\ InUse(c) => coupon'[c] # Absent
  PROVE  CartInv'
<1>1. CatalogInv'
  BY CatalogStands DEF CartInv
<1>2. CartTypeOK'
  BY <1>1 DEF CartInv, CartTypeOK, CatalogInv, cartVars, requestVars
<1>3. \A r \in Requests : IsOrder(r)' <=> IsOrder(r)
  BY DEF IsOrder, requestVars
<1>4. RequestsHold'
  <2> SUFFICES ASSUME NEW s \in Requests
               PROVE  /\ pc'[s] = "coupon" => wish'[s].op = "apply"
                      /\ pc'[s] = "place" => wish'[s].op = "checkout"
                      /\ pc'[s] = "place" \/ IsOrder(s)' => quote'[s] \in Quotes /\ AddsUp(quote'[s])
    BY DEF RequestsHold
  <2> QED
    BY <1>3 DEF CartInv, RequestsHold, requestVars
<1>5. CouponsInUseExist'
  <2>1. ASSUME NEW u \in Users, picked'[u] # NoCoupon PROVE coupon'[picked'[u]] # Absent
    <3>1. picked[u] \in Coupons /\ picked'[u] = picked[u] /\ coupon[picked[u]] # Absent
      BY <2>1 DEF CartInv, CartTypeOK, CouponsInUseExist, cartVars
    <3> QED
      BY <3>1 DEF InUse
  <2>2. ASSUME NEW r \in Requests, IsOrder(r)', quote'[r].coupon # NoCoupon
        PROVE  coupon'[quote'[r].coupon] # Absent
    <3>1. IsOrder(r) /\ quote'[r] = quote[r] /\ quote[r] \in Quotes
      BY <1>3, <2>2 DEF CartInv, RequestsHold, requestVars
    <3>2. quote[r].coupon \in Coupons /\ coupon[quote[r].coupon] # Absent
      BY <2>2, <3>1, QuoteFields DEF CartInv, CouponsInUseExist
    <3> QED
      BY <3>1, <3>2 DEF InUse, OnOrder
  <2> QED
    BY <2>1, <2>2 DEF CouponsInUseExist
<1> QED
  BY <1>1, <1>2, <1>4, <1>5 DEF CartInv

LEMMA ErrandKeeps ==
  ASSUME CartInv, NEW a \in Errands, UNCHANGED <<catalogVars, cartVars, requestVars>>,
         (\E c \in Coupons : CreateCoupon(a, c) \/ ReadCoupon(a, c))
           \/ SaveCoupon(a) \/ DeleteCoupon(a) \/ ErrandFails(a)
  PROVE  CartInv'
<1>0. /\ CartTypeOK /\ ErrandsHold /\ coupon \in [Coupons -> CouponRows \cup {Absent}]
      /\ \A row \in CouponRows : row # Absent
  BY RowTerms DEF CartInv, CartTypeOK
<1>1. ASSUME NEW c \in Coupons, CreateCoupon(a, c) PROVE CartInv'
  <2>1. PICK terms \in Terms, expired \in BOOLEAN :
          coupon' = [coupon EXCEPT ![c] = Coupon(terms, expired)]
    BY <1>1 DEF CreateCoupon
  <2>2. Coupon(terms, expired) \in CouponRows
    BY DEF CouponRows
  <2>3. /\ coupon' \in [Coupons -> CouponRows \cup {Absent}]
        /\ \A d \in Coupons : coupon[d] # Absent => coupon'[d] # Absent
    BY <1>0, <2>1, <2>2
  <2> QED
    BY <1>0, <1>1, <2>3, ErrandSet, CouponsKeep DEF CreateCoupon
<1>2. ASSUME NEW c \in Coupons, ReadCoupon(a, c) PROVE CartInv'
  BY <1>0, <1>2, ErrandSet, CouponsKeep DEF ReadCoupon
<1>3. CASE SaveCoupon(a)
  <2>1. /\ errand[a].id \in Coupons /\ errand[a].row \in CouponRows
        /\ coupon' = [coupon EXCEPT ![errand[a].id] = errand[a].row]
        /\ SetErrand(a, "done", NoCoupon, Absent)
    BY <1>0, <1>3 DEF SaveCoupon, ErrandsHold
  <2>2. /\ coupon' \in [Coupons -> CouponRows \cup {Absent}]
        /\ \A d \in Coupons : coupon[d] # Absent => coupon'[d] # Absent
    BY <1>0, <2>1
  <2> QED
    BY <1>0, <2>1, <2>2, ErrandSet, CouponsKeep
<1>4. CASE DeleteCoupon(a)
  <2>1. /\ errand[a].id \in Coupons /\ ~InUse(errand[a].id)
        /\ coupon' = [coupon EXCEPT ![errand[a].id] = Absent]
        /\ SetErrand(a, "done", NoCoupon, Absent)
    BY <1>0, <1>4 DEF DeleteCoupon, ErrandsHold
  <2>2. coupon' \in [Coupons -> CouponRows \cup {Absent}]
    BY <1>0, <2>1
  <2>3. \A d \in Coupons : coupon[d] # Absent /\ InUse(d) => coupon'[d] # Absent
    BY <1>0, <2>1
  <2> QED
    BY <1>0, <2>1, <2>2, <2>3, ErrandSet, CouponsKeep
<1>5. CASE ErrandFails(a)
  BY <1>0, <1>5, ErrandSet, CouponsKeep DEF ErrandFails
<1> QED
  BY <1>1, <1>2, <1>3, <1>4, <1>5

LEMMA ExpireKeeps ==
  ASSUME CartInv, NEW c \in Coupons, Expire(c), UNCHANGED <<catalogVars, cartVars, requestVars>>
  PROVE  CartInv'
<1> DEFINE row == [coupon[c] EXCEPT !.expired = TRUE]
<1>1. coupon[c] \in CouponRows /\ coupon \in [Coupons -> CouponRows \cup {Absent}]
  BY DEF Expire, CartInv, CartTypeOK
<1>2. row \in CouponRows
  BY <1>1, RowTerms
<1>3. coupon' = [coupon EXCEPT ![c] = row] /\ errand' = errand
  BY DEF Expire
<1> HIDE DEF row
<1>4. row # Absent
  BY <1>2, RowTerms
<1>5. /\ coupon' \in [Coupons -> CouponRows \cup {Absent}]
      /\ \A d \in Coupons : coupon[d] # Absent => coupon'[d] # Absent
  BY <1>1, <1>2, <1>3, <1>4
<1>6. ErrandsHold'
  BY <1>3 DEF CartInv, ErrandsHold
<1> QED
  BY <1>3, <1>5, <1>6, CouponsKeep DEF CartInv, CartTypeOK

LEMMA CatalogStepKeeps ==
  ASSUME CartInv, [CatalogNext]_catalogVars, UNCHANGED <<couponVars, cartVars, requestVars>>
  PROVE  CartInv'
<1>1. CatalogInv'
  BY CatalogKeeps DEF CartInv
<1>2. CartTypeOK'
  BY <1>1 DEF CartInv, CartTypeOK, CatalogInv, couponVars, cartVars, requestVars
<1>3. ErrandsHold'
  BY DEF CartInv, ErrandsHold, couponVars
<1>4. \A r \in Requests : IsOrder(r)' <=> IsOrder(r)
  BY DEF IsOrder, requestVars
<1>5. RequestsHold'
  <2> SUFFICES ASSUME NEW s \in Requests
               PROVE  /\ pc'[s] = "coupon" => wish'[s].op = "apply"
                      /\ pc'[s] = "place" => wish'[s].op = "checkout"
                      /\ pc'[s] = "place" \/ IsOrder(s)' => quote'[s] \in Quotes /\ AddsUp(quote'[s])
    BY DEF RequestsHold
  <2> QED
    BY <1>4 DEF CartInv, RequestsHold, requestVars
<1>6. CouponsInUseExist'
  BY <1>4 DEF CartInv, CouponsInUseExist, couponVars, cartVars, requestVars
<1> QED
  BY <1>1, <1>2, <1>3, <1>5, <1>6 DEF CartInv

-----------------------------------------------------------------------------
(* The invariant                                                           *)

LEMMA CartStarts ==
  ASSUME CartInit
  PROVE  CartInv
<1>0. CatalogInv /\ CartStart
  BY CatalogStarts DEF CartInit
<1>1. NothingIn \in Baskets
  BY DEF NothingIn, Baskets
<1>2. coupon \in [Coupons -> CouponRows \cup {Absent}]
  <2>1. {Coupon(terms, FALSE) : terms \in Terms} \subseteq CouponRows
    <3>1. ASSUME NEW terms \in Terms, NEW expired \in BOOLEAN
          PROVE  Coupon(terms, expired) \in CouponRows
      BY DEF CouponRows
    <3>2. FALSE \in BOOLEAN
      OBVIOUS
    <3>3. \A terms \in Terms : Coupon(terms, FALSE) \in CouponRows
      BY <3>1, <3>2, Zenon
    <3> QED
      BY <3>3
  <2>2. coupon \in [Coupons -> {Coupon(terms, FALSE) : terms \in Terms} \cup {Absent}]
    BY <1>0 DEF CartStart
  <2>3. \A c \in Coupons : coupon[c] \in CouponRows \cup {Absent}
    BY <2>1, <2>2
  <2> QED
    BY <2>2, <2>3
<1>3. /\ errand \in [Errands -> [step : {"idle", "save", "delete", "done"},
                                 id : Coupons \cup {NoCoupon}, row : CouponRows \cup {Absent}]]
      /\ ErrandsHold
  <2> DEFINE Kinds == [step : {"idle", "save", "delete", "done"},
                       id : Coupons \cup {NoCoupon}, row : CouponRows \cup {Absent}]
             k == [NewErrand EXCEPT !.step = "done"]
  <2>1. /\ NewErrand \in Kinds /\ k \in Kinds
        /\ NewErrand.step = "idle" /\ k.step = "done"
    BY DEF NewErrand
  <2>2. errand \in [Errands -> {NewErrand, k}]
    BY <1>0 DEF CartStart
  <2> HIDE DEF k, Kinds
  <2>3. errand \in [Errands -> Kinds] /\ \A a \in Errands : errand[a].step \in {"idle", "done"}
    BY <2>1, <2>2
  <2> QED
    BY <2>3 DEF ErrandsHold, Kinds
<1>4. items \in [Users -> Baskets]
  BY <1>0, <1>1, CartAssumption DEF CartStart
<1>5. /\ opened \in SUBSET Users /\ picked = [u \in Users |-> NoCoupon]
      /\ pc \in [Requests -> {"idle", "never"}] /\ wish \in [Requests -> Wishes]
      /\ found = [r \in Requests |-> 0] /\ quote = [r \in Requests |-> NoQuote]
  BY <1>0 DEF CartStart
<1>6. CartTypeOK
  BY <1>0, <1>2, <1>3, <1>4, <1>5 DEF CartTypeOK, CatalogInv
<1>7. RequestsHold /\ CouponsInUseExist
  BY <1>5 DEF RequestsHold, CouponsInUseExist, IsOrder
<1> QED
  BY <1>0, <1>3, <1>6, <1>7 DEF CartInv

LEMMA CartKeeps ==
  ASSUME IsFiniteSet(Products), CartInv, [CartNext]_storeVars
  PROVE  CartInv'
<1>1. ASSUME NEW r \in Requests,
             \/ Begin(r) \/ CreateCart(r) \/ FindItsProduct(r) \/ FindItem(r)
             \/ WriteItem(r) \/ FindCoupon(r) \/ WriteCoupon(r) \/ PlaceOrder(r)
             \/ Break(r)
      PROVE  CartInv'
  BY <1>1, BeginKeeps, CreateCartKeeps, FindItsProductKeeps, FindItemKeeps, WriteItemKeeps,
     FindCouponKeeps, WriteCouponKeeps, PlaceOrderKeeps, BreakKeeps
<1>2. CASE /\ \/ \E a \in Errands : \/ \E c \in Coupons : CreateCoupon(a, c) \/ ReadCoupon(a, c)
                                    \/ SaveCoupon(a) \/ DeleteCoupon(a) \/ ErrandFails(a)
              \/ \E c \in Coupons : Expire(c)
           /\ UNCHANGED <<catalogVars, cartVars, requestVars>>
  BY <1>2, ErrandKeeps, ExpireKeeps
<1>3. CASE CatalogNext /\ UNCHANGED <<couponVars, cartVars, requestVars>>
  BY <1>3, CatalogStepKeeps
<1>4. CASE UNCHANGED storeVars
  BY <1>4, CatalogStepKeeps DEF storeVars
<1> QED
  BY <1>1, <1>2, <1>3, <1>4 DEF CartNext

(* The invariant holds in every state.                                     *)
THEOREM CartInvariant == ASSUME IsFiniteSet(Products) PROVE CartSpec => []CartInv
BY CartStarts, CartKeeps, PTL DEF CartSpec

(* Every variable keeps its type: a quantity in a cart is never negative,  *)
(* and a priced cart has amounts that are.                                 *)
THEOREM CartTypes == ASSUME IsFiniteSet(Products) PROVE CartSpec => []CartTypeOK
<1>1. CartInv => CartTypeOK
  BY DEF CartInv
<1> QED
  BY <1>1, CartInvariant, PTL

(* A coupon that a cart or an order refers to is there, although a request *)
(* looks for it long before it refers to it.                               *)
THEOREM CouponsAreNeverDangling == ASSUME IsFiniteSet(Products) PROVE CartSpec => []CouponsInUseExist
<1>1. CartInv => CouponsInUseExist
  BY DEF CartInv
<1> QED
  BY <1>1, CartInvariant, PTL

(* The amounts of an order are those of its own items at its own prices,   *)
(* and its discount leaves no negative total, in floating point neither.   *)
THEOREM OrdersStayRight == ASSUME IsFiniteSet(Products) PROVE CartSpec => []OrdersAddUp
<1>1. CartInv => OrdersAddUp
  BY DEF CartInv, RequestsHold, AddsUp, OrdersAddUp
<1> QED
  BY <1>1, CartInvariant, PTL

(* Customers and the administrators of coupons leave the catalog alone, so *)
(* that the theorems about it hold in the store as well.                   *)
THEOREM StoreHasCatalog == CartSpec => CatalogSpec
<1>1. CartInit => CatalogInit
  BY DEF CartInit
<1>2. [CartNext]_storeVars => [CatalogNext]_catalogVars
  BY DEF CartNext, storeVars, Begin, CreateCart, FindItsProduct, FindItem, WriteItem, FindCoupon,
         WriteCoupon, PlaceOrder, Break
<1> QED
  BY <1>1, <1>2, PTL DEF CartSpec, CatalogSpec

-----------------------------------------------------------------------------
(* Nothing is counted twice                                                *)

Quantity == [r \in Requests |-> wish[r].quantity]
Asked(u, p) == SumFunctionOnSet(Quantity, PutIn(u, p))
Most(p) == Max({basket[p] : basket \in StartingCarts \cup {NothingIn}})

(* Neither a cart, nor what an addition has read of it and is about to add *)
(* to, holds more than was put in.                                         *)
OnceInv ==
    /\ \A u \in Users, p \in Products : items[u][p] <= Most(p) + Asked(u, p)
    /\ \A r \in Requests :
         pc[r] = "write" /\ wish[r].op = "add" =>
            found[r] <= Most(wish[r].product) + Asked(User(r), wish[r].product)

LEMMA AskedIsSum ==
  ASSUME IsFiniteSet(Requests), NEW u, NEW p
  PROVE  MapThenSumSet(LAMBDA r : wish[r].quantity, PutIn(u, p)) = Asked(u, p)
<1> DEFINE S == PutIn(u, p)
           P(g) == g = [s \in SUBSET S |->
                          IF s = {} THEN 0 ELSE wish[Any(s)].quantity + g[s \ {Any(s)}]]
<1>1. S \subseteq Requests /\ IsFiniteSet(S)
  BY FS_Subset DEF PutIn
<1>2. MapThenSumSet(LAMBDA r : wish[r].quantity, S) = (CHOOSE g : P(g))[S]
  BY DEF MapThenSumSet, MapThenFoldSet, Any
<1> HIDE DEF S
<1>3. ASSUME NEW g PROVE P(g) <=> Sums(g, Quantity, S)
  <2>1. \A s \in SUBSET S :
           Equation(g, Quantity, s) = IF s = {} THEN 0 ELSE wish[Any(s)].quantity + g[s \ {Any(s)}]
    BY <1>1 DEF Equation, Any, Quantity
  <2> QED
    BY <2>1 DEF Sums
<1>4. PICK g : Sums(g, Quantity, S)
  BY <1>1, SumsExist
<1> DEFINE k == CHOOSE h : P(h)
<1>5. P(k)
  BY <1>3, <1>4
<1>6. Sums(k, Quantity, S)
  BY <1>3, <1>5
<1>7. PICK h : Sums(h, Quantity, S) /\ SumFunctionOnSet(Quantity, S) = h[S]
  BY <1>1, SumIsSums
<1> HIDE DEF P, k
<1>8. k[S] = h[S]
  BY <1>1, <1>6, <1>7, SumsAgree
<1> QED
  BY <1>2, <1>7, <1>8 DEF k, Asked, S

LEMMA AskedTyped ==
  ASSUME IsFiniteSet(Requests), CartTypeOK, NEW u, NEW p
  PROVE  Asked(u, p) \in Nat
<1>1. IsFiniteSet(PutIn(u, p)) /\ PutIn(u, p) \subseteq Requests
  BY FS_Subset DEF PutIn
<1>2. \A r \in PutIn(u, p) : Quantity[r] \in Nat
  BY <1>1, WishTyped DEF Quantity
<1> QED
  BY <1>1, <1>2, SumType DEF Asked

LEMMA MostTyped ==
  ASSUME IsFiniteSet(StartingCarts), NEW p \in Products
  PROVE  /\ Most(p) \in Nat
         /\ \A basket \in StartingCarts \cup {NothingIn} : basket[p] <= Most(p)
<1> DEFINE carts == StartingCarts \cup {NothingIn}
           T == {basket[p] : basket \in carts}
<1>1. IsFiniteSet(carts)
  BY FS_AddElement
<1>2. IsFiniteSet(T)
  <2> DEFINE f == [basket \in carts |-> basket[p]]
  <2>1. f \in Surjection(carts, T)
    BY DEF Surjection
  <2> QED
    BY <1>1, <2>1, FS_Surjection
<1>3. \A basket \in carts : basket[p] \in Nat
  BY CartAssumption DEF NothingIn, Baskets
<1>4. T \subseteq Nat /\ T # {}
  BY <1>3
<1>5. PICK n \in T : \A m \in T : n >= m
  BY <1>2, <1>4, LargestNumber
<1>6. Most(p) \in T /\ \A m \in T : Most(p) >= m
  BY <1>5 DEF Most, Max
<1>7. ASSUME NEW basket \in carts PROVE basket[p] <= Most(p)
  <2>1. basket[p] \in T
    OBVIOUS
  <2> QED
    BY <1>4, <1>6, <2>1
<1> QED
  BY <1>4, <1>6, <1>7

(* A step that finishes no addition and puts nothing in a cart.            *)
LEMMA QuietKeeps ==
  ASSUME CartTypeOK, OnceInv, UNCHANGED wish, IsFiniteSet(Requests), IsFiniteSet(StartingCarts),
         \A r \in Requests :
            wish[r].op \in {"add", "set"} => (pc'[r] = "done" <=> pc[r] = "done"),
         \A u \in Users, p \in Products : items'[u][p] \in Nat /\ items'[u][p] <= items[u][p],
         \A r \in Requests : pc'[r] = "write" /\ wish[r].op = "add" =>
            \/ found'[r] = Item(r)
            \/ pc[r] = "write" /\ found'[r] = found[r]
  PROVE  OnceInv'
<1>1. ASSUME NEW u \in Users, NEW p \in Products PROVE Asked(u, p)' = Asked(u, p)
  <2>1. PutIn(u, p)' = PutIn(u, p)
    BY DEF PutIn
  <2>2. Quantity' = Quantity
    BY DEF Quantity
  <2> QED
    BY <2>1, <2>2 DEF Asked
<1>2. ASSUME NEW u \in Users, NEW p \in Products
      PROVE  /\ items[u][p] \in Nat /\ Most(p) \in Nat /\ Asked(u, p) \in Nat
             /\ items[u][p] <= Most(p) + Asked(u, p)
  BY AskedTyped, MostTyped DEF CartTypeOK, Baskets, OnceInv
<1>3. ASSUME NEW u \in Users, NEW p \in Products
      PROVE  items'[u][p] <= Most(p) + Asked(u, p)'
  <2>1. items'[u][p] \in Nat /\ items'[u][p] <= items[u][p]
    OBVIOUS
  <2> QED
    BY <1>1, <1>2, <2>1
<1>4. ASSUME NEW r \in Requests, pc'[r] = "write", wish[r].op = "add",
             NEW u \in Users, NEW p \in Products, u = User(r), p = wish[r].product
      PROVE  found'[r] <= Most(p) + Asked(u, p)'
  <2>1. CASE found'[r] = Item(r)
    BY <1>1, <1>2, <1>4, <2>1 DEF Item
  <2>2. CASE pc[r] = "write" /\ found'[r] = found[r]
    <3>1. found[r] <= Most(p) + Asked(u, p)
      BY <1>4, <2>2 DEF OnceInv
    <3> QED
      BY <1>1, <2>2, <3>1
  <2> QED
    BY <1>4, <2>1, <2>2
<1>5. \A p \in Products : Most(p)' = Most(p)
  BY DEF Most, NothingIn
<1>6. \A r \in Requests : wish'[r] = wish[r] /\ User(r)' = User(r) /\ wish[r].product \in Products
                         /\ User(r) \in Users
  BY WishTyped DEF User
<1> QED
  BY <1>3, <1>4, <1>6 DEF OnceInv

(* An addition puts in the cart what it has read, which was put in before  *)
(* it, and its own quantity; setting a quantity puts that in.              *)
LEMMA WriteItemOnce ==
  ASSUME CartTypeOK, OnceInv, IsFiniteSet(Requests), IsFiniteSet(StartingCarts),
         NEW r \in Requests, WriteItem(r)
  PROVE  OnceInv'
<1> DEFINE v == User(r)
           q == wish[r].product
           d == wish[r].quantity
<1>0. /\ pc[r] = "write" /\ Goto(r, "done") /\ "done" \in Labels /\ UNCHANGED <<wish, found>>
      /\ v \in Users /\ q \in Products /\ d \in Nat \ {0}
      /\ wish[r].op \in {"add", "set", "drop"}
  BY WishTyped DEF WriteItem, Labels
<1>1. CASE wish[r].op = "drop"
  <2>1. /\ items'[v][q] = 0
        /\ \A u \in Users, p \in Products : u # v \/ p # q => items'[u][p] = items[u][p]
    BY <1>1, ItemWritten
  <2>2. \A u \in Users, p \in Products : items'[u][p] \in Nat /\ items'[u][p] <= items[u][p]
    BY <2>1 DEF CartTypeOK, Baskets
  <2>3. \A s \in Requests \ {r} : pc'[s] = pc[s]
    BY <1>0, Goes
  <2>4. pc'[r] = "done"
    BY <1>0, Goes
  <2> HIDE DEF v, q, d
  <2> QED
    BY <1>0, <1>1, <2>2, <2>3, <2>4, QuietKeeps
<1>2. CASE wish[r].op \in {"add", "set"}
  <2>1. /\ items'[v][q] = Saved(r)
        /\ \A u \in Users, p \in Products : u # v \/ p # q => items'[u][p] = items[u][p]
    BY <1>2, ItemWritten
  <2>2. /\ pc'[r] = "done" /\ \A s \in Requests \ {r} : pc'[s] = pc[s]
    BY <1>0, Goes
  <2>3. /\ \A u \in Users, p \in Products :
             PutIn(u, p)' = IF u = v /\ p = q THEN PutIn(u, p) \cup {r} ELSE PutIn(u, p)
        /\ r \notin PutIn(v, q)
    BY <1>0, <1>2, <2>2 DEF PutIn, User
  <2>4. Quantity' = Quantity /\ Quantity[r] = d
    BY <1>0 DEF Quantity
  <2>5. ASSUME NEW u \in Users, NEW p \in Products
        PROVE  Asked(u, p)' = IF u = v /\ p = q THEN Asked(u, p) + d ELSE Asked(u, p)
    <3>1. Asked(u, p)' = SumFunctionOnSet(Quantity, PutIn(u, p)')
      BY <2>4 DEF Asked
    <3>2. CASE u = v /\ p = q
      <4>1. IsFiniteSet(PutIn(v, q)) /\ PutIn(v, q) \subseteq Requests
        BY FS_Subset DEF PutIn
      <4>2. \A s \in PutIn(v, q) \cup {r} : Quantity[s] \in Int
        BY <4>1, WishTyped DEF Quantity
      <4>3. SumFunctionOnSet(Quantity, PutIn(v, q) \cup {r})
              = SumFunctionOnSet(Quantity, PutIn(v, q)) + Quantity[r]
        BY <2>3, <4>1, <4>2, SumOfAdded
      <4>4. PutIn(u, p)' = PutIn(v, q) \cup {r}
        BY <2>3, <3>2
      <4> QED
        BY <2>4, <3>1, <3>2, <4>3, <4>4 DEF Asked
    <3>3. CASE ~(u = v /\ p = q)
      <4>1. PutIn(u, p)' = PutIn(u, p)
        BY <2>3, <3>3
      <4> QED
        BY <3>1, <3>3, <4>1 DEF Asked
    <3> QED
      BY <3>2, <3>3
  <2>6. ASSUME NEW u \in Users, NEW p \in Products
        PROVE  /\ Most(p) \in Nat /\ Asked(u, p) \in Nat /\ items[u][p] \in Nat
               /\ Asked(u, p)' \in Nat /\ Asked(u, p) <= Asked(u, p)'
               /\ items[u][p] <= Most(p) + Asked(u, p)
    <3>1. /\ Most(p) \in Nat /\ Asked(u, p) \in Nat /\ items[u][p] \in Nat
          /\ items[u][p] <= Most(p) + Asked(u, p)
      BY AskedTyped, MostTyped DEF CartTypeOK, Baskets, OnceInv
    <3> HIDE DEF v, q, d
    <3> QED
      BY <1>0, <2>5, <3>1
  <2>7. Saved(r) \in Nat /\ Saved(r) <= Most(q) + (Asked(v, q) + d)
    <3>1. found[r] \in Nat /\ (wish[r].op = "add" => found[r] <= Most(q) + Asked(v, q))
      BY <1>0 DEF CartTypeOK, OnceInv
    <3>2. Saved(r) = IF wish[r].op = "add" THEN found[r] + d ELSE d
      BY DEF Saved
    <3>3. Most(q) \in Nat /\ Asked(v, q) \in Nat
      BY <1>0, <2>6
    <3> HIDE DEF v, q, d
    <3> QED
      BY <1>0, <3>1, <3>2, <3>3
  <2> HIDE DEF v, q, d
  <2>8. ASSUME NEW u \in Users, NEW p \in Products
        PROVE  items'[u][p] <= Most(p) + Asked(u, p)'
    <3>1. CASE u = v /\ p = q
      BY <1>0, <2>1, <2>5, <2>7, <3>1
    <3>2. CASE ~(u = v /\ p = q)
      BY <2>1, <2>5, <2>6, <3>2
    <3> QED
      BY <3>1, <3>2
  <2>9. ASSUME NEW s \in Requests, pc'[s] = "write", wish[s].op = "add",
               NEW u \in Users, NEW p \in Products, u = User(s), p = wish[s].product
        PROVE  found'[s] <= Most(p) + Asked(u, p)'
    <3>1. s # r /\ pc[s] = "write"
      BY <2>2, <2>9
    <3>2. found[s] \in Nat /\ found[s] <= Most(p) + Asked(u, p)
      BY <2>9, <3>1 DEF CartTypeOK, OnceInv
    <3> QED
      BY <1>0, <2>6, <3>2
  <2>10. \A s \in Requests : /\ wish'[s] = wish[s] /\ User(s)' = User(s) /\ User(s) \in Users
                             /\ wish[s].product \in Products
    BY <1>0, WishTyped DEF User
  <2>11. \A p \in Products : Most(p)' = Most(p)
    BY DEF Most, NothingIn
  <2> QED
    BY <2>8, <2>9, <2>10, <2>11 DEF OnceInv
<1> QED
  BY <1>0, <1>1, <1>2

LEMMA CartKeepsOnce ==
  ASSUME CartInv, OnceInv, [CartNext]_storeVars, IsFiniteSet(Requests), IsFiniteSet(StartingCarts)
  PROVE  OnceInv'
<1>0. CartTypeOK /\ \A u \in Users, p \in Products : items[u][p] \in Nat
  BY DEF CartInv, CartTypeOK, Baskets
<1>1. ASSUME UNCHANGED <<cartVars, requestVars>> PROVE OnceInv'
  BY <1>0, <1>1, QuietKeeps DEF cartVars, requestVars
<1>2. ASSUME NEW r \in Requests, NEW label \in Labels, Goto(r, label), pc[r] # "done",
             UNCHANGED <<items, wish, found>>,
             label = "done" => wish[r].op \notin {"add", "set"},
             label = "write" => wish[r].op # "add"
      PROVE  OnceInv'
  <2>1. pc'[r] = label /\ \A s \in Requests \ {r} : pc'[s] = pc[s]
    BY <1>0, <1>2, Goes
  <2> QED
    BY <1>0, <1>2, <2>1, QuietKeeps
<1>3. ASSUME NEW r \in Requests, Begin(r) PROVE OnceInv'
  <2>1. /\ pc[r] = "idle" /\ UNCHANGED <<items, wish, found>>
        /\ \E label \in {"create", "refused", Then(wish[r].op)} : Goto(r, label)
    BY <1>3 DEF Begin, cartVars
  <2>2. {"create", "refused"} \subseteq Labels
    BY DEF Labels, InFlight
  <2> QED
    BY <1>0, <1>2, <2>1, <2>2, ThenLeads
<1>4. ASSUME NEW r \in Requests, CreateCart(r) PROVE OnceInv'
  <2>1. /\ pc[r] = "create" /\ UNCHANGED <<items, wish, found>>
        /\ \E label \in {"refused", Then(wish[r].op)} : Goto(r, label)
    BY <1>4 DEF CreateCart
  <2>2. "refused" \in Labels
    BY DEF Labels
  <2> QED
    BY <1>0, <1>2, <2>1, <2>2, ThenLeads
<1>5. ASSUME NEW r \in Requests, FindItsProduct(r) \/ Break(r) PROVE OnceInv'
  <2>1. /\ pc[r] # "done" /\ UNCHANGED <<items, wish, found>>
        /\ \E label \in {"item", "refused"} : Goto(r, label)
    BY <1>5 DEF FindItsProduct, Break, cartVars, InFlight
  <2>2. {"item", "refused"} \subseteq Labels
    BY DEF Labels, InFlight
  <2> QED
    BY <1>2, <2>1, <2>2
<1>6. ASSUME NEW r \in Requests, FindItem(r) PROVE OnceInv'
  <2>1. PICK label \in {"write", "refused"} : Goto(r, label)
    BY <1>6 DEF FindItem
  <2>2. /\ pc[r] = "item" /\ label \in Labels /\ UNCHANGED <<items, wish>>
        /\ found' = [found EXCEPT ![r] = Item(r)]
    BY <1>6 DEF FindItem, cartVars, Labels, InFlight
  <2>3. /\ pc'[r] = label /\ \A s \in Requests \ {r} : pc'[s] = pc[s]
    BY <1>0, <2>1, <2>2, Goes
  <2>4. /\ found'[r] = Item(r) /\ \A s \in Requests \ {r} : found'[s] = found[s]
    BY <1>0, <2>2 DEF CartTypeOK
  <2> QED
    BY <1>0, <2>2, <2>3, <2>4, QuietKeeps
<1>7. ASSUME NEW r \in Requests, FindCoupon(r) \/ WriteCoupon(r) PROVE OnceInv'
  <2>1. CASE WriteCoupon(r)
    <3>1. /\ pc[r] # "done" /\ UNCHANGED <<items, wish, found>> /\ Goto(r, "done")
          /\ wish[r].op \notin {"add", "set"} /\ "done" \in Labels
      BY <2>1 DEF WriteCoupon, Labels
    <3> QED
      BY <1>2, <3>1
  <2>2. CASE FindCoupon(r)
    <3>1. PICK label \in {"write", "refused"} : Goto(r, label)
      BY <2>2 DEF FindCoupon
    <3>2. /\ pc[r] = "coupon" /\ UNCHANGED <<items, wish, found>> /\ label \in Labels
      BY <2>2 DEF FindCoupon, cartVars, Labels, InFlight
    <3>3. wish[r].op # "add"
      BY <3>2 DEF CartInv, RequestsHold
    <3> QED
      BY <1>2, <3>1, <3>2, <3>3
  <2> QED
    BY <1>7, <2>1, <2>2
<1>8. ASSUME NEW r \in Requests, PlaceOrder(r) PROVE OnceInv'
  <2>1. /\ pc[r] = "place" /\ wish[r].op = "checkout" /\ quote[r] \in Quotes
        /\ Goto(r, "done") /\ UNCHANGED <<wish, found>> /\ "done" \in Labels
    BY <1>8 DEF PlaceOrder, CartInv, RequestsHold, Labels
  <2>2. /\ pc'[r] = "done" /\ \A s \in Requests \ {r} : pc'[s] = pc[s]
    BY <1>0, <2>1, Goes
  <2>3. \A u \in Users, p \in Products : items'[u][p] \in Nat /\ items'[u][p] <= items[u][p]
    BY <1>0, <1>8, <2>1, CartEmptied
  <2> QED
    BY <1>0, <2>1, <2>2, <2>3, QuietKeeps
<1>9. CASE \/ UNCHANGED <<catalogVars, cartVars, requestVars>>
           \/ UNCHANGED <<couponVars, cartVars, requestVars>>
           \/ UNCHANGED storeVars
  BY <1>1, <1>9 DEF storeVars
<1> QED
  BY <1>0, <1>3, <1>4, <1>5, <1>6, <1>7, <1>8, <1>9, WriteItemOnce DEF CartNext

(* Both invariants hold in every state.                                    *)
THEOREM CartOnceInvariant ==
  ASSUME IsFiniteSet(Products), IsFiniteSet(Requests), IsFiniteSet(StartingCarts)
  PROVE  CartSpec => [](CartInv /\ OnceInv)
<1>1. ASSUME CartInit PROVE OnceInv
  <2>1. CartTypeOK
    BY <1>1, CartStarts DEF CartInv
  <2>2. /\ items \in [Users -> StartingCarts \cup {NothingIn}]
        /\ pc \in [Requests -> {"idle", "never"}]
    BY <1>1 DEF CartInit, CartStart
  <2>3. ASSUME NEW u \in Users, NEW p \in Products PROVE items[u][p] <= Most(p) + Asked(u, p)
    <3>1. items[u][p] <= Most(p) /\ Most(p) \in Nat
      BY <2>2, MostTyped
    <3>2. Asked(u, p) \in Nat /\ items[u][p] \in Nat
      BY <2>1, AskedTyped DEF CartTypeOK, Baskets
    <3> QED
      BY <3>1, <3>2
  <2> QED
    BY <2>2, <2>3 DEF OnceInv
<1> QED
  BY <1>1, CartStarts, CartKeeps, CartKeepsOnce, PTL DEF CartSpec

(* Requests of one user that overlap lose updates of the cart, but never   *)
(* so that it holds more than it was given.                                *)
THEOREM CartsHoldWhatWasPutIn ==
  ASSUME IsFiniteSet(Products), IsFiniteSet(Requests), IsFiniteSet(StartingCarts)
  PROVE  CartSpec => []NothingCountedTwice
<1>1. OnceInv => NothingCountedTwice
  BY AskedIsSum DEF OnceInv, NothingCountedTwice, Most
<1> QED
  BY <1>1, CartOnceInvariant, PTL

-----------------------------------------------------------------------------
(* Whoever waits has an atomic cart                                        *)

Alone ==
    \A r, s \in Requests :
        User(r) = User(s) /\ User(r) \in Patient /\ pc[r] \in InFlight /\ pc[s] \in InFlight => r = s

(* What a request of such a user is about to act on is what the cart holds. *)
UpToDate ==
    \A r \in Requests :
        User(r) \in Patient =>
            /\ pc[r] = "write" /\ wish[r].op \in {"add", "set", "drop"} =>
                 found[r] = Item(r) /\ (wish[r].op # "add" => Item(r) > 0)
            /\ pc[r] = "place" => quote[r].items = items[User(r)] /\ items[User(r)] # NothingIn

PatientInv == Alone /\ UpToDate

(* A step of a request, which touches no other user's cart, and its own    *)
(* user's only once it is under way.                                       *)
LEMMA PatientKeeps ==
  ASSUME CartTypeOK, PatientInv, NEW r \in Requests, NEW label \in Labels, Goto(r, label),
         UNCHANGED wish,
         \A u \in Users : u # User(r) => items'[u] = items[u],
         \A s \in Requests \ {r} : found'[s] = found[s] /\ quote'[s] = quote[s],
         pc[r] \notin InFlight =>
            /\ items'[User(r)] = items[User(r)]
            /\ \/ label \notin InFlight
               \/ User(r) \in Patient => \A s \in Requests : User(s) = User(r) => pc[s] \notin InFlight,
         User(r) \in Patient /\ label = "write" /\ wish[r].op \in {"add", "set", "drop"} =>
            /\ found'[r] = items'[User(r)][wish[r].product]
            /\ wish[r].op # "add" => found'[r] > 0,
         User(r) \in Patient /\ label = "place" =>
            quote'[r].items = items'[User(r)] /\ items'[User(r)] # NothingIn
  PROVE  PatientInv'
<1>1. /\ pc'[r] = label /\ \A s \in Requests \ {r} : pc'[s] = pc[s]
      /\ \A s \in Requests : User(s)' = User(s) /\ User(s) \in Users /\ wish'[s] = wish[s]
  BY Goes, WishTyped DEF User
<1>2. Alone'
  BY <1>1 DEF PatientInv, Alone
<1>3. ASSUME NEW s \in Requests, User(s) \in Patient
      PROVE  /\ pc'[s] = "write" /\ wish[s].op \in {"add", "set", "drop"} =>
                  /\ found'[s] = items'[User(s)][wish[s].product]
                  /\ wish[s].op # "add" => items'[User(s)][wish[s].product] > 0
             /\ pc'[s] = "place" => quote'[s].items = items'[User(s)] /\ items'[User(s)] # NothingIn
  <2>1. CASE s = r
    BY <1>1, <1>3, <2>1
  <2>2. CASE s # r /\ pc'[s] \in {"write", "place"}
    <3>1. pc[s] = pc'[s] /\ pc[s] \in InFlight
      BY <1>1, <2>2 DEF InFlight
    <3>2. User(s) = User(r) => pc[r] \notin InFlight
      BY <1>3, <2>2, <3>1 DEF PatientInv, Alone
    <3>3. items'[User(s)] = items[User(s)] /\ found'[s] = found[s] /\ quote'[s] = quote[s]
      BY <1>1, <2>2, <3>2
    <3> QED
      BY <1>3, <3>1, <3>3 DEF PatientInv, UpToDate, Item
  <2> QED
    BY <2>1, <2>2
<1>4. UpToDate'
  BY <1>1, <1>3 DEF UpToDate, Item, NothingIn
<1> QED
  BY <1>2, <1>4 DEF PatientInv

LEMMA CartKeepsPatient ==
  ASSUME CartInv, PatientInv, [CartNext]_storeVars
  PROVE  PatientInv'
<1>0. CartTypeOK
  BY DEF CartInv
<1>1. ASSUME UNCHANGED <<items, pc, wish, found, quote>> PROVE PatientInv'
  BY <1>1 DEF PatientInv, Alone, UpToDate, User, Item, NothingIn
<1>2. ASSUME NEW r \in Requests, NEW label \in Labels, Goto(r, label), pc[r] \in InFlight,
             UNCHANGED <<items, wish, found, quote>>, label # "place",
             label = "write" => wish[r].op \notin {"add", "set", "drop"}
      PROVE  PatientInv'
  BY <1>0, <1>2, PatientKeeps
<1>3. ASSUME NEW r \in Requests, Begin(r) PROVE PatientInv'
  <2>1. /\ pc[r] = "idle" /\ pc[r] \notin InFlight /\ UNCHANGED <<items, wish, found>>
        /\ User(r) \in Patient => \A s \in Requests : User(s) = User(r) => pc[s] \notin InFlight
    BY <1>3 DEF Begin, cartVars, InFlight
  <2>2. CASE \E label \in {"create", "refused"} : Goto(r, label) /\ UNCHANGED quote
    <3>1. {"create", "refused"} \subseteq Labels
      BY DEF Labels, InFlight
    <3> QED
      BY <1>0, <2>1, <2>2, <3>1, PatientKeeps
  <2>3. CASE /\ ~(wish[r].op = "checkout" /\ items[User(r)] = NothingIn)
             /\ Goto(r, Then(wish[r].op))
             /\ quote' = [quote EXCEPT ![r] = IF wish[r].op = "checkout"
                            THEN Quote(items[User(r)], PriceNow, picked[User(r)]) ELSE NoQuote]
    <3>1. \A s \in Requests \ {r} : quote'[s] = quote[s]
      BY <1>0, <2>3 DEF CartTypeOK
    <3>2. wish[r].op = "checkout" => quote'[r].items = items[User(r)]
      BY <1>0, <2>3 DEF CartTypeOK, Quote
    <3>3. \A p \in Products : NothingIn[p]' = NothingIn[p]
      BY DEF NothingIn
    <3>4. NothingIn' = NothingIn
      BY DEF NothingIn
    <3> QED
      BY <1>0, <2>1, <2>3, <3>1, <3>2, <3>4, ThenLeads, PatientKeeps
  <2> QED
    BY <1>3, <2>2, <2>3 DEF Begin
<1>4. ASSUME NEW r \in Requests, CreateCart(r) PROVE PatientInv'
  <2>1. /\ pc[r] \in InFlight /\ UNCHANGED <<items, wish, found, quote>>
        /\ \/ Goto(r, "refused")
           \/ wish[r].op # "checkout" /\ Goto(r, Then(wish[r].op))
    BY <1>4 DEF CreateCart, InFlight
  <2>2. "refused" \in Labels
    BY DEF Labels
  <2> QED
    BY <1>0, <1>2, <2>1, <2>2, ThenLeads
<1>5. ASSUME NEW r \in Requests, FindItsProduct(r) \/ Break(r) PROVE PatientInv'
  <2>1. /\ pc[r] \in InFlight /\ UNCHANGED <<items, wish, found, quote>>
        /\ \E label \in {"item", "refused"} : Goto(r, label)
    BY <1>5 DEF FindItsProduct, Break, cartVars, InFlight
  <2>2. {"item", "refused"} \subseteq Labels
    BY DEF Labels, InFlight
  <2> QED
    BY <1>2, <2>1, <2>2
<1>6. ASSUME NEW r \in Requests, FindItem(r) PROVE PatientInv'
  <2>1. PICK label \in {"write", "refused"} :
           Goto(r, label) /\ (label = "write" => wish[r].op = "add" \/ Item(r) # 0)
    BY <1>6 DEF FindItem
  <2>2. /\ pc[r] \in InFlight /\ label \in Labels /\ UNCHANGED <<items, wish, quote>>
        /\ found' = [found EXCEPT ![r] = Item(r)]
    BY <1>6 DEF FindItem, cartVars, Labels, InFlight
  <2>3. /\ found'[r] = Item(r) /\ \A s \in Requests \ {r} : found'[s] = found[s]
    BY <1>0, <2>2 DEF CartTypeOK
  <2>4. Item(r) \in Nat
    BY <1>0, WishTyped DEF Item, CartTypeOK, Baskets
  <2>5. Item(r) = items[User(r)][wish[r].product]
    BY DEF Item
  <2> QED
    BY <1>0, <2>1, <2>2, <2>3, <2>4, <2>5, PatientKeeps
<1>7. ASSUME NEW r \in Requests, FindCoupon(r) \/ WriteCoupon(r) PROVE PatientInv'
  <2>1. CASE WriteCoupon(r)
    <3>1. /\ pc[r] \in InFlight /\ UNCHANGED <<items, wish, found, quote>> /\ Goto(r, "done")
          /\ "done" \in Labels
      BY <2>1 DEF WriteCoupon, Labels, InFlight
    <3> QED
      BY <1>2, <3>1
  <2>2. CASE FindCoupon(r)
    <3>1. PICK label \in {"write", "refused"} : Goto(r, label)
      BY <2>2 DEF FindCoupon
    <3>2. /\ pc[r] = "coupon" /\ pc[r] \in InFlight /\ label \in Labels
          /\ UNCHANGED <<items, wish, found, quote>>
      BY <2>2 DEF FindCoupon, cartVars, Labels, InFlight
    <3>3. wish[r].op = "apply"
      BY <3>2 DEF CartInv, RequestsHold
    <3> QED
      BY <1>2, <3>1, <3>2, <3>3
  <2> QED
    BY <1>7, <2>1, <2>2
<1>8. ASSUME NEW r \in Requests, WriteItem(r) PROVE PatientInv'
  <2>1. /\ pc[r] \in InFlight /\ Goto(r, "done") /\ "done" \in Labels
        /\ UNCHANGED <<wish, found, quote>>
    BY <1>8 DEF WriteItem, Labels, InFlight
  <2> QED
    BY <1>0, <1>8, <2>1, ItemWritten, PatientKeeps
<1>9. ASSUME NEW r \in Requests, PlaceOrder(r) PROVE PatientInv'
  <2>1. /\ pc[r] \in InFlight /\ Goto(r, "done") /\ "done" \in Labels
        /\ UNCHANGED <<wish, found>> /\ quote[r] \in Quotes
    BY <1>9 DEF PlaceOrder, CartInv, RequestsHold, Labels, InFlight
  <2> QED
    BY <1>0, <1>9, <2>1, CartEmptied, PatientKeeps
<1>10. CASE \/ UNCHANGED <<catalogVars, cartVars, requestVars>>
            \/ UNCHANGED <<couponVars, cartVars, requestVars>>
            \/ UNCHANGED storeVars
  BY <1>1, <1>10 DEF storeVars, cartVars, requestVars
<1> QED
  BY <1>3, <1>4, <1>5, <1>6, <1>7, <1>8, <1>9, <1>10 DEF CartNext

(* A step that answers nobody, as far as such users can tell.              *)
LEMMA Stutters ==
  ASSUME CartTypeOK, UNCHANGED wish,
         \A u \in Patient : items'[u] = items[u] /\ picked'[u] = picked[u],
         \A r \in Requests : User(r) \in Patient =>
            \/ pc'[r] = pc[r] /\ quote'[r] = quote[r]
            \/ pc[r] \notin {"done", "refused"} /\ pc'[r] \notin {"done", "refused"}
  PROVE  UNCHANGED Promise!promiseVars
<1>1. \A r \in Requests : User(r)' = User(r) /\ Outcome(r)' = Outcome(r)
  BY DEF User, Outcome
<1>2. \A r \in Requests : User(r) \in Patient =>
         (IsOrder(r)' <=> IsOrder(r)) /\ (IsOrder(r) => quote'[r].items = quote[r].items)
  BY DEF IsOrder
<1> QED
  BY <1>1, <1>2 DEF Promise!promiseVars, NothingIn

LEMMA Denies ==
  ASSUME CartTypeOK, NEW r \in Requests, pc[r] \notin {"done", "refused"}, Goto(r, "refused"),
         UNCHANGED <<items, picked, wish, quote>>
  PROVE  [Promise!PromiseNext]_(Promise!promiseVars)
<1>1. pc'[r] = "refused" /\ \A s \in Requests \ {r} : pc'[s] = pc[s]
  BY Goes DEF Labels
<1>2. CASE User(r) \notin Patient
  BY <1>1, <1>2, Stutters
<1>3. CASE User(r) \in Patient
  <2>1. \A s \in Requests : User(s)' = User(s) /\ (IsOrder(s)' <=> IsOrder(s))
    BY <1>1 DEF User, IsOrder
  <2>2. \A s \in Requests : Outcome(s)' = IF s = r THEN "denied" ELSE Outcome(s)
    BY <1>1, <1>3, <2>1 DEF Outcome
  <2>3. Outcome(r) = "open"
    BY DEF Outcome
  <2>4. [s \in Requests |-> Outcome(s)]' = [[s \in Requests |-> Outcome(s)] EXCEPT ![r] = "denied"]
    BY <2>2
  <2>5. Promise!Deny(r)
    BY <2>1, <2>3, <2>4 DEF Promise!Deny, NothingIn
  <2> QED
    BY <2>5 DEF Promise!PromiseNext
<1> QED
  BY <1>2, <1>3

(* A request that is answered: its effect is that of its operation.        *)
LEMMA Grants ==
  ASSUME CartTypeOK, NEW r \in Requests, pc[r] \notin {"done", "refused"}, Goto(r, "done"),
         UNCHANGED wish, \A s \in Requests \ {r} : quote'[s] = quote[s],
         \A u \in Users : u # User(r) => items'[u] = items[u] /\ picked'[u] = picked[u],
         User(r) \in Patient => Promise!Effect(r)
  PROVE  [Promise!PromiseNext]_(Promise!promiseVars)
<1>1. /\ pc'[r] = "done" /\ \A s \in Requests \ {r} : pc'[s] = pc[s]
      /\ Patient \subseteq Users
  BY Goes, CartAssumption DEF Labels
<1>2. CASE User(r) \notin Patient
  <2>1. \A u \in Patient : items'[u] = items[u] /\ picked'[u] = picked[u]
    BY <1>1, <1>2
  <2> QED
    BY <1>1, <1>2, <2>1, Stutters
<1>3. CASE User(r) \in Patient
  <2>1. \A s \in Requests : User(s)' = User(s)
    BY DEF User
  <2>2. \A s \in Requests : Outcome(s)' = IF s = r THEN "granted" ELSE Outcome(s)
    BY <1>1, <1>3, <2>1 DEF Outcome
  <2>3. Outcome(r) = "open"
    BY DEF Outcome
  <2>4. [s \in Requests |-> Outcome(s)]' = [[s \in Requests |-> Outcome(s)] EXCEPT ![r] = "granted"]
    BY <2>2
  <2>5. Promise!Grant(r)
    BY <1>3, <2>3, <2>4 DEF Promise!Grant
  <2> QED
    BY <2>5 DEF Promise!PromiseNext
<1> QED
  BY <1>2, <1>3

Bought(r) == IF User(r) \in Patient /\ IsOrder(r) THEN quote[r].items ELSE NothingIn

(* What the other requests have bought stays bought.                       *)
LEMMA OthersBought ==
  ASSUME CartTypeOK, NEW r \in Requests, NEW label \in Labels, Goto(r, label), UNCHANGED wish,
         \A s \in Requests \ {r} : quote'[s] = quote[s], pc[r] # "done"
  PROVE  /\ \A s \in Requests \ {r} : Bought(s)' = Bought(s)
         /\ label # "done" \/ wish[r].op # "checkout" => Bought(r)' = Bought(r)
<1>1. /\ pc'[r] = label /\ \A s \in Requests \ {r} : pc'[s] = pc[s]
      /\ \A s \in Requests : User(s)' = User(s)
  BY Goes DEF User
<1> QED
  BY <1>1 DEF Bought, IsOrder, NothingIn

(* What a patient user's request writes is what the promise says.          *)
LEMMA ItemEffect ==
  ASSUME CartInv, PatientInv, NEW r \in Requests, WriteItem(r), User(r) \in Patient
  PROVE  Promise!Effect(r)
<1> DEFINE u == User(r)
           q == wish[r].product
           new == IF wish[r].op = "drop" THEN 0 ELSE Saved(r)
           basket == [v \in Patient |-> items[v]]
<1>1. /\ CartTypeOK /\ Goto(r, "done") /\ "done" \in Labels /\ pc[r] = "write"
      /\ UNCHANGED <<picked, wish, found, quote>> /\ wish[r].op \in {"add", "set", "drop"}
      /\ items' = [items EXCEPT ![User(r)][wish[r].product] = new]
  BY DEF CartInv, WriteItem, Labels
<1>2. [s \in Requests |-> Bought(s)]' = [s \in Requests |-> Bought(s)]
  BY <1>1, OthersBought
<1>3. basket' = [basket EXCEPT ![u][q] = new]
  BY <1>1, CartAssumption DEF CartTypeOK
<1>4. /\ found[r] = items[u][q]
      /\ wish[r].op # "add" => basket[u][q] > 0
  BY <1>1 DEF PatientInv, UpToDate, Item
<1>5. CASE wish[r].op = "add"
  <2>1. new = basket[u][q] + wish[r].quantity
    BY <1>4, <1>5 DEF Saved
  <2> QED
    BY <1>1, <1>2, <1>3, <1>5, <2>1 DEF Promise!Effect, Promise!Sets, Bought, User
<1>6. CASE wish[r].op = "set"
  BY <1>1, <1>2, <1>3, <1>4, <1>6 DEF Promise!Effect, Promise!Sets, Promise!Holds, Bought, User, Saved
<1>7. CASE wish[r].op = "drop"
  BY <1>1, <1>2, <1>3, <1>4, <1>7 DEF Promise!Effect, Promise!Sets, Promise!Holds, Bought, User
<1> QED
  BY <1>1, <1>5, <1>6, <1>7

LEMMA CouponEffect ==
  ASSUME CartInv, NEW r \in Requests, WriteCoupon(r), User(r) \in Patient
  PROVE  Promise!Effect(r)
<1> DEFINE c == IF wish[r].op = "apply" THEN wish[r].coupon ELSE NoCoupon
           choice == [v \in Patient |-> picked[v]]
<1>1. /\ CartTypeOK /\ Goto(r, "done") /\ "done" \in Labels /\ pc[r] = "write"
      /\ UNCHANGED <<items, wish, quote>> /\ wish[r].op \in {"apply", "unapply"}
      /\ picked' = [picked EXCEPT ![User(r)] = c]
  BY DEF CartInv, WriteCoupon, Labels
<1>2. [s \in Requests |-> Bought(s)]' = [s \in Requests |-> Bought(s)]
  BY <1>1, OthersBought
<1>3. choice' = [choice EXCEPT ![User(r)] = c]
  BY <1>1, CartAssumption DEF CartTypeOK
<1>4. CASE wish[r].op = "apply"
  BY <1>1, <1>2, <1>3, <1>4 DEF Promise!Effect, Bought, User
<1>5. CASE wish[r].op = "unapply"
  BY <1>1, <1>2, <1>3, <1>5 DEF Promise!Effect, Bought, User
<1> QED
  BY <1>1, <1>4, <1>5

(* A checkout orders all that the cart holds, and leaves nothing in it.    *)
LEMMA OrderEffect ==
  ASSUME CartInv, PatientInv, NEW r \in Requests, PlaceOrder(r), User(r) \in Patient
  PROVE  Promise!Effect(r)
<1> DEFINE u == User(r)
           basket == [v \in Patient |-> items[v]]
           choice == [v \in Patient |-> picked[v]]
           bought == [s \in Requests |-> Bought(s)]
<1>1. /\ CartTypeOK /\ Goto(r, "done") /\ "done" \in Labels /\ pc[r] = "place"
      /\ wish[r].op = "checkout" /\ quote[r] \in Quotes /\ UNCHANGED wish /\ u \in Users
  BY WishTyped DEF CartInv, RequestsHold, PlaceOrder, Labels
<1>2. quote[r].items = items[u] /\ items[u] # NothingIn
  BY <1>1 DEF PatientInv, UpToDate
<1>3. /\ items' \in [Users -> Baskets]
      /\ \A p \in Products : items'[u][p] = IF items[u][p] > 0 THEN 0 ELSE items[u][p]
      /\ \A v \in Users : v # u => items'[v] = items[v] /\ picked'[v] = picked[v]
      /\ picked'[u] = NoCoupon /\ quote' = quote
  BY <1>1, <1>2, CartEmptied
<1>4. items'[u] = NothingIn
  <2>1. \A p \in Products : items[u][p] \in Nat
    BY <1>1 DEF CartTypeOK, Baskets
  <2>2. \A p \in Products : items'[u][p] = 0
    BY <1>3, <2>1
  <2>3. items'[u] \in [Products -> Nat]
    BY <1>1, <1>3 DEF Baskets
  <2> QED
    BY <2>2, <2>3 DEF NothingIn
<1>5. basket' = [basket EXCEPT ![u] = NothingIn] /\ choice' = [choice EXCEPT ![u] = NoCoupon]
  BY <1>3, <1>4, CartAssumption
<1>6. bought' = [bought EXCEPT ![r] = items[u]]
  <2>1. Bought(r)' = items[u]
    <3>1. pc'[r] = "done" /\ User(r)' = User(r)
      BY <1>1, Goes DEF User
    <3> QED
      BY <1>1, <1>2, <1>3, <3>1 DEF Bought, IsOrder
  <2>2. \A s \in Requests \ {r} : Bought(s)' = Bought(s)
    BY <1>1, <1>3, OthersBought
  <2> QED
    BY <2>1, <2>2
<1> QED
  BY <1>1, <1>2, <1>5, <1>6 DEF Promise!Effect, Promise!NothingIn, NothingIn, Bought, User

(* A step of the store is a step of the promise, or of nobody who waits.   *)
LEMMA CartSimulates ==
  ASSUME CartInv, PatientInv, [CartNext]_storeVars
  PROVE  [Promise!PromiseNext]_(Promise!promiseVars)
<1>0. CartTypeOK
  BY DEF CartInv
<1>1. ASSUME UNCHANGED <<items, picked, pc, wish, quote>>
      PROVE  UNCHANGED Promise!promiseVars
  BY <1>0, <1>1, Stutters
<1>2. ASSUME NEW r \in Requests, pc[r] \notin {"done", "refused"}, NEW label \in InFlight,
             Goto(r, label), UNCHANGED <<items, picked, wish>>,
             \A s \in Requests \ {r} : quote'[s] = quote[s]
      PROVE  UNCHANGED Promise!promiseVars
  <2>1. label \in Labels /\ label \notin {"done", "refused"}
    BY DEF Labels, InFlight
  <2>2. pc'[r] = label /\ \A s \in Requests \ {r} : pc'[s] = pc[s]
    BY <1>0, <1>2, <2>1, Goes
  <2> QED
    BY <1>0, <1>2, <2>1, <2>2, Stutters
<1>3. ASSUME NEW r \in Requests, pc[r] \notin {"done", "refused"}, wish[r].op = "get",
             Goto(r, "done"), UNCHANGED <<items, picked, wish>>,
             \A s \in Requests \ {r} : quote'[s] = quote[s]
      PROVE  [Promise!PromiseNext]_(Promise!promiseVars)
  <2>1. "done" \in Labels
    BY DEF Labels
  <2>2. [s \in Requests |-> Bought(s)]' = [s \in Requests |-> Bought(s)]
    BY <1>0, <1>3, <2>1, OthersBought
  <2>3. Promise!Effect(r)
    BY <1>3, <2>2 DEF Promise!Effect, Bought
  <2> QED
    BY <1>0, <1>3, <2>3, Grants
<1>4. ASSUME NEW r \in Requests, pc[r] \notin {"done", "refused"},
             Goto(r, Then(wish[r].op)), UNCHANGED <<items, picked, wish>>,
             \A s \in Requests \ {r} : quote'[s] = quote[s]
      PROVE  [Promise!PromiseNext]_(Promise!promiseVars)
  <2>1. CASE wish[r].op = "get"
    BY <1>3, <1>4, <2>1 DEF Then
  <2>2. CASE wish[r].op # "get"
    BY <1>0, <1>2, <1>4, <2>2, ThenLeads
  <2> QED
    BY <2>1, <2>2
<1>5. ASSUME NEW r \in Requests, Begin(r)
      PROVE  [Promise!PromiseNext]_(Promise!promiseVars)
  <2>1. pc[r] \notin {"done", "refused"} /\ UNCHANGED <<items, picked, wish>>
    BY <1>5 DEF Begin, cartVars
  <2>2. CASE Goto(r, "create") /\ UNCHANGED quote
    BY <1>2, <2>1, <2>2 DEF InFlight
  <2>3. CASE Goto(r, "refused") /\ UNCHANGED quote
    BY <1>0, <2>1, <2>3, Denies
  <2>4. CASE /\ Goto(r, Then(wish[r].op))
             /\ quote' = [quote EXCEPT ![r] = IF wish[r].op = "checkout"
                            THEN Quote(items[User(r)], PriceNow, picked[User(r)]) ELSE NoQuote]
    <3>1. \A s \in Requests \ {r} : quote'[s] = quote[s]
      BY <1>0, <2>4 DEF CartTypeOK
    <3> QED
      BY <1>4, <2>1, <2>4, <3>1
  <2> QED
    BY <1>5, <2>2, <2>3, <2>4 DEF Begin
<1>6. ASSUME NEW r \in Requests, CreateCart(r)
      PROVE  [Promise!PromiseNext]_(Promise!promiseVars)
  <2>1. pc[r] \notin {"done", "refused"} /\ UNCHANGED <<items, picked, wish, quote>>
    BY <1>6 DEF CreateCart
  <2>2. Goto(r, "refused") \/ Goto(r, Then(wish[r].op))
    BY <1>6 DEF CreateCart
  <2> QED
    BY <1>0, <1>4, <2>1, <2>2, Denies
<1>7. ASSUME NEW r \in Requests, FindItsProduct(r) \/ FindItem(r) \/ FindCoupon(r)
      PROVE  [Promise!PromiseNext]_(Promise!promiseVars)
  <2>1. pc[r] \notin {"done", "refused"} /\ UNCHANGED <<items, picked, wish, quote>>
    BY <1>7 DEF FindItsProduct, FindItem, FindCoupon, cartVars
  <2>2. Goto(r, "refused") \/ \E label \in {"item", "write"} : Goto(r, label)
    BY <1>7 DEF FindItsProduct, FindItem, FindCoupon
  <2>3. {"item", "write"} \subseteq InFlight
    BY DEF InFlight
  <2> QED
    BY <1>0, <1>2, <2>1, <2>2, <2>3, Denies
<1>8. ASSUME NEW r \in Requests, Break(r)
      PROVE  [Promise!PromiseNext]_(Promise!promiseVars)
  BY <1>0, <1>8, Denies DEF Break, InFlight, cartVars
<1>9. ASSUME NEW r \in Requests, WriteItem(r)
      PROVE  [Promise!PromiseNext]_(Promise!promiseVars)
  <2>1. /\ pc[r] \notin {"done", "refused"} /\ Goto(r, "done")
        /\ UNCHANGED <<picked, wish, quote>>
    BY <1>9 DEF WriteItem
  <2>2. \A u \in Users : u # User(r) => items'[u] = items[u]
    BY <1>0, <1>9, ItemWritten
  <2> QED
    BY <1>0, <1>9, <2>1, <2>2, ItemEffect, Grants
<1>10. ASSUME NEW r \in Requests, WriteCoupon(r)
       PROVE  [Promise!PromiseNext]_(Promise!promiseVars)
  <2>1. /\ pc[r] \notin {"done", "refused"} /\ Goto(r, "done")
        /\ UNCHANGED <<items, wish, quote>>
    BY <1>10 DEF WriteCoupon
  <2>2. \A u \in Users : u # User(r) => picked'[u] = picked[u]
    BY <1>0, <1>10 DEF WriteCoupon, CartTypeOK
  <2> QED
    BY <1>0, <1>10, <2>1, <2>2, CouponEffect, Grants
<1>11. ASSUME NEW r \in Requests, PlaceOrder(r)
       PROVE  [Promise!PromiseNext]_(Promise!promiseVars)
  <2>1. /\ pc[r] = "place" /\ Goto(r, "done") /\ UNCHANGED wish /\ quote[r] \in Quotes
    BY <1>11 DEF PlaceOrder, CartInv, RequestsHold
  <2>2. /\ quote' = quote
        /\ \A u \in Users : u # User(r) => items'[u] = items[u] /\ picked'[u] = picked[u]
    BY <1>0, <1>11, <2>1, CartEmptied
  <2> QED
    BY <1>0, <1>11, <2>1, <2>2, OrderEffect, Grants
<1>12. CASE \/ UNCHANGED <<catalogVars, cartVars, requestVars>>
            \/ UNCHANGED <<couponVars, cartVars, requestVars>>
            \/ UNCHANGED storeVars
  BY <1>1, <1>12 DEF storeVars, cartVars, requestVars
<1> QED
  BY <1>5, <1>6, <1>7, <1>8, <1>9, <1>10, <1>11, <1>12 DEF CartNext

(* Whoever waits for each answer has a cart on which every request takes   *)
(* effect at one instant, whatever other customers and administrators do:  *)
(* Cart implements CartPromise.                                            *)
THEOREM CartKeepsItsPromise ==
  ASSUME IsFiniteSet(Products)
  PROVE  CartSpec => ImplementsPromise
<1>1. CartInit => PatientInv
  BY DEF CartInit, CartStart, PatientInv, Alone, UpToDate, InFlight
<1>2. CartInit => Promise!PromiseInit
  <2>1. ASSUME CartInit, NEW r \in Requests PROVE Outcome(r) = "open" /\ ~IsOrder(r)
    BY <2>1 DEF CartInit, CartStart, Outcome, IsOrder
  <2> QED
    BY <2>1 DEF Promise!PromiseInit, Promise!NothingIn, NothingIn
<1>3. CartSpec => [](CartInv /\ PatientInv)
  BY <1>1, CartStarts, CartKeeps, CartKeepsPatient, PTL DEF CartSpec
<1> QED
  BY <1>2, <1>3, CartSimulates, PTL DEF CartSpec, ImplementsPromise, Promise!PromiseSpec
=============================================================================
