--------------------------- MODULE CheckoutProofs ---------------------------
(***************************************************************************)
(* Theorems about Checkout, for any number of users, keys, products and    *)
(* concurrent requests, overlapping or not.                                *)
(***************************************************************************)
EXTENDS Checkout, SumTheorems

(* Before it reserves, a request holds nothing and has no order.           *)
StartsWithNothing ==
    \A r \in Orders :
        pc[r] \in BeforeReserving => hold[r] = NothingHeld /\ orders[r] = NoOrder

OrderIsCommitted == \A r \in Orders : pc[r] = "complete" => orders[r] # NoOrder

(* An order is its user's, and a response is an order placed under the key.*)
OrderIsItsUsers == \A o \in Orders : orders[o] # NoOrder => orders[o].user = User(o)

ResponseIsOwnOrder ==
    \A u \in Users, k \in Keys :
        keys[u][k] \in Orders => /\ orders[keys[u][k]] # NoOrder
                                 /\ req[keys[u][k]] = [user |-> u, key |-> k]

(* The inductive invariant, whatever fails.                                *)
KeyInv ==
    /\ CheckoutTypeOK
    /\ StartsWithNothing
    /\ OrderIsCommitted
    /\ OrderIsItsUsers
    /\ ResponseIsOwnOrder
    /\ AnswerIsOwnOrder

(* What a checkout holds while it works on its order, if storing the       *)
(* response cannot fail: the catch block then never sees an order.         *)
WorksOnItsStock ==
    \A r \in Orders :
        /\ pc[r] = "order" => hold[r] = seen[r] /\ orders[r] = NoOrder
        /\ pc[r] \in {"release", "unregister"} => orders[r] = NoOrder

StockInv == WorksOnItsStock /\ OrderHoldsStock

(* What a request has read is not empty, and it holds that from its        *)
(* reservation until it releases it, whatever fails.                       *)
HoldsWhatItRead ==
    \A r \in Orders :
        /\ pc[r] \in {"select", "insert", "reserve"} => seen[r] # NothingHeld
        /\ pc[r] \in {"order", "complete", "release"} =>
              hold[r] = seen[r] /\ seen[r] # NothingHeld

(* The stages of a request: before its key is registered, and after.       *)
Claiming == {"cart", "select", "insert"}
Claimed == {"reserve", "order", "complete", "release", "unregister"}

(* If, moreover, clients do not overlap their own attempts: one request    *)
(* works under a key, and the key's row tells how far it has come.         *)
OneAttemptPerKey ==
    \A r, s \in Orders :
        pc[r] \in InFlight /\ pc[s] \in InFlight /\ SameKey(r, s) => r = s

RowFollowsAttempt ==
    \A r \in Orders : /\ pc[r] \in Claiming => KeyRow(r) = NoRow
                      /\ pc[r] \in Claimed => KeyRow(r) = InProgress

OrderKeepsItsKey == \A o \in Orders : orders[o] # NoOrder => KeyRow(o) # NoRow

AttemptIsOnlyOrder ==
    \A r, o \in Orders :
        /\ pc[r] \in Claiming \cup Claimed
        /\ orders[o] # NoOrder
        /\ SameKey(o, r)
        => o = r

SerialInv ==
    /\ OneAttemptPerKey
    /\ RowFollowsAttempt
    /\ OrderKeepsItsKey
    /\ AttemptIsOnlyOrder
    /\ AtMostOneOrderPerKey

-----------------------------------------------------------------------------

USE StockAssumption, CheckoutAssumption, NamesAssumption

(* NothingHeld is a quantity for every product.                            *)
LEMMA NothingIsNothing == NothingHeld \in [Products -> Nat] /\ NothingHeld \in [Products -> Int]
BY DEF NothingHeld

(* The operations of the stock keep its tables well-formed.                *)
LEMMA ReserveTyped ==
    ASSUME StockTypeOK, NEW o \in Orders, NEW b \in [Products -> Int], Reserve(o, b)
    PROVE  /\ StockTypeOK'
           /\ hold' = [hold EXCEPT ![o] = b]
           /\ hold[o] = NothingHeld
<1>1. b \in [Products -> Nat]
  BY DEF Reserve, Covers, StockTypeOK, Row
<1>2. hold' \in [Orders -> [Products -> Nat]]
  BY <1>1 DEF Reserve, StockTypeOK
<1>3. stock' \in [Products -> Row]
  <2> SUFFICES ASSUME NEW p \in Products
               PROVE  /\ stock[p].available + Negated(b)[p] \in Nat
                      /\ stock[p].reserved + b[p] \in Int
    BY DEF Reserve, Move, Row
  <2>1. stock[p].available \in Nat /\ stock[p].reserved \in Int
    BY DEF StockTypeOK, Row
  <2>2. b[p] \in 0..stock[p].available /\ Negated(b)[p] = -b[p]
    BY DEF Reserve, Covers, Negated
  <2> QED BY <2>1, <2>2
<1> QED BY <1>2, <1>3 DEF StockTypeOK, Reserve

LEMMA ReleaseTyped ==
    ASSUME StockTypeOK, NEW o \in Orders, Release(o)
    PROVE  StockTypeOK' /\ hold' = [hold EXCEPT ![o] = NothingHeld]
<1>1. hold' \in [Orders -> [Products -> Nat]]
  BY NothingIsNothing DEF Release, StockTypeOK
<1>2. stock' \in [Products -> Row]
  <2> SUFFICES ASSUME NEW p \in Products
               PROVE  /\ stock[p].available + hold[o][p] \in Nat
                      /\ stock[p].reserved + Negated(hold[o])[p] \in Int
    BY DEF Release, Move, Row
  <2>1. stock[p].available \in Nat /\ stock[p].reserved \in Int
    BY DEF StockTypeOK, Row
  <2>2. hold[o][p] \in Nat /\ Negated(hold[o])[p] = -hold[o][p]
    BY DEF StockTypeOK, Negated
  <2> QED BY <2>1, <2>2
<1> QED BY <1>1, <1>2 DEF StockTypeOK, Release

LEMMA AdjustTyped ==
    ASSUME StockTypeOK, NEW p \in Products, NEW d \in Deltas, Adjust(p, d)
    PROVE  StockTypeOK' /\ hold' = hold
<1>1. stock[p] \in Row /\ d \in Int
  BY DEF StockTypeOK
<1>2. [stock[p] EXCEPT !.available = @ + d] \in Row
  BY <1>1 DEF Adjust, Row
<1>3. stock' = [stock EXCEPT ![p] = [stock[p] EXCEPT !.available = @ + d]]
  BY <1>1 DEF Adjust, StockTypeOK
<1> QED BY <1>2, <1>3 DEF StockTypeOK, Adjust

(* What a request's row in the idempotency table is.                       *)
LEMMA KeyRowTyped ==
    ASSUME CheckoutTypeOK, NEW r \in Orders
    PROVE  /\ User(r) \in Users
           /\ req[r].key \in Keys
           /\ req[r] = [user |-> User(r), key |-> req[r].key]
           /\ KeyRow(r) = keys[User(r)][req[r].key]
           /\ KeyRow(r) \in Orders \cup {NoRow, InProgress}
BY DEF CheckoutTypeOK, User, KeyRow

(* Writing a row changes that row.                                         *)
LEMMA SetKeyRowTyped ==
    ASSUME CheckoutTypeOK, NEW r \in Orders, NEW row \in Orders \cup {NoRow, InProgress},
           SetKeyRow(r, row)
    PROVE  /\ keys' \in [Users -> [Keys -> Orders \cup {NoRow, InProgress}]]
           /\ \A u \in Users, k \in Keys :
                keys'[u][k] = IF u = User(r) /\ k = req[r].key THEN row ELSE keys[u][k]
<1>1. User(r) \in Users /\ req[r].key \in Keys
  BY KeyRowTyped
<1>2. keys \in [Users -> [Keys -> Orders \cup {NoRow, InProgress}]]
  BY DEF CheckoutTypeOK
<1> QED BY <1>1, <1>2 DEF SetKeyRow, User

-----------------------------------------------------------------------------
(* KeyInv is inductive.                                                    *)

Labels == {"idle", "dead"} \cup InFlight \cup Answered

LEMMA InitKeyInv == CheckoutInit => KeyInv
<1> SUFFICES ASSUME CheckoutInit PROVE KeyInv
  OBVIOUS
<1>1. stock \in [Products -> Row]
  <2>1. PICK f \in StartingStock :
          stock = [p \in Products |-> [available |-> f[p], reserved |-> 0]]
    BY DEF CheckoutInit, StockInit
  <2>2. \A p \in Products : f[p] \in Nat
    OBVIOUS
  <2> QED BY <2>1, <2>2 DEF Row
<1>2. StockTypeOK
  BY <1>1, NothingIsNothing DEF CheckoutInit, StockInit, StockTypeOK
<1>3. NothingHeld \in Carts
  BY NothingIsNothing DEF Carts
<1>4. CheckoutTypeOK
  BY <1>2, <1>3 DEF CheckoutInit, CheckoutTypeOK
<1>5. StartsWithNothing
  BY DEF CheckoutInit, StockInit, StartsWithNothing
<1> QED BY <1>4, <1>5 DEF CheckoutInit, KeyInv, OrderIsCommitted, OrderIsItsUsers,
                          ResponseIsOwnOrder, AnswerIsOwnOrder

(* A request that only moves on to a label for which nothing is due.       *)
LEMMA MovesOn ==
    ASSUME KeyInv, NEW r \in Orders, NEW label \in Labels, Goto(r, label),
           label \in BeforeReserving => pc[r] \in BeforeReserving,
           label \notin {"complete", "done"},
           seen' \in [Orders -> Carts],
           UNCHANGED <<stockVars, keys, cart, orders, req, answer>>
    PROVE  KeyInv'
<1>1. pc' = [pc EXCEPT ![r] = label] /\ pc \in [Orders -> Labels]
  BY DEF Goto, KeyInv, CheckoutTypeOK, Labels
<1>2. \A x \in Orders : pc'[x] = IF x = r THEN label ELSE pc[x]
  BY <1>1
<1>3. CheckoutTypeOK'
  BY <1>1 DEF KeyInv, CheckoutTypeOK, StockTypeOK, stockVars, Labels
<1>4. StartsWithNothing'
  BY <1>2 DEF KeyInv, StartsWithNothing, stockVars
<1>5. OrderIsCommitted'
  BY <1>2 DEF KeyInv, OrderIsCommitted
<1>6. OrderIsItsUsers'
  BY DEF KeyInv, OrderIsItsUsers, User
<1>7. ResponseIsOwnOrder'
  BY DEF KeyInv, ResponseIsOwnOrder
<1>8. AnswerIsOwnOrder'
  BY <1>2 DEF KeyInv, AnswerIsOwnOrder, User, SameKey
<1> QED BY <1>3, <1>4, <1>5, <1>6, <1>7, <1>8 DEF KeyInv

LEMMA SendKeepsKeyInv ==
    ASSUME KeyInv, NEW r \in Orders, Send(r) PROVE KeyInv'
<1>1. pc[r] \in BeforeReserving /\ "check" \in Labels
  BY DEF Send, BeforeReserving, Labels, InFlight
<1>2. Goto(r, "check") /\ seen' \in [Orders -> Carts]
  BY DEF Send, KeyInv, CheckoutTypeOK
<1>3. UNCHANGED <<stockVars, keys, cart, orders, req, answer>>
  BY DEF Send
<1> QED BY <1>1, <1>2, <1>3, MovesOn DEF BeforeReserving

LEMMA CheckKeyKeepsKeyInv ==
    ASSUME KeyInv, NEW r \in Orders, CheckKey(r) PROVE KeyInv'
<1>1. pc[r] = "check" /\ seen' \in [Orders -> Carts]
  BY DEF CheckKey, KeyInv, CheckoutTypeOK
<1>2. CASE ExistingKey(r) \in Orders
  <2>1. /\ answer' = [answer EXCEPT ![r] = KeyRow(r)]
        /\ pc' = [pc EXCEPT ![r] = "done"]
        /\ KeyRow(r) \in Orders
        /\ UNCHANGED <<stockVars, keys, cart, orders, req, seen>>
    BY <1>2 DEF CheckKey, ExistingKey, Goto
  <2>2. orders[KeyRow(r)] # NoOrder /\ req[KeyRow(r)] = req[r]
    <3>1. CheckoutTypeOK /\ ResponseIsOwnOrder
      BY DEF KeyInv
    <3>2. /\ User(r) \in Users /\ req[r].key \in Keys
          /\ req[r] = [user |-> User(r), key |-> req[r].key]
          /\ KeyRow(r) = keys[User(r)][req[r].key]
      BY <3>1, KeyRowTyped
    <3> QED BY <2>1, <3>1, <3>2 DEF ResponseIsOwnOrder
  <2>3. orders[KeyRow(r)].user = User(r)
    BY <2>1, <2>2 DEF KeyInv, OrderIsItsUsers, User
  <2>4. /\ \A x \in Orders : pc'[x] = IF x = r THEN "done" ELSE pc[x]
        /\ \A x \in Orders : answer'[x] = IF x = r THEN KeyRow(r) ELSE answer[x]
    BY <2>1 DEF KeyInv, CheckoutTypeOK
  <2>5. CheckoutTypeOK'
    BY <2>1 DEF KeyInv, CheckoutTypeOK, StockTypeOK, stockVars, Answered
  <2>6. StartsWithNothing' /\ OrderIsCommitted'
    BY <2>1, <2>4 DEF KeyInv, StartsWithNothing, BeforeReserving, OrderIsCommitted, stockVars
  <2>7. OrderIsItsUsers' /\ ResponseIsOwnOrder'
    BY <2>1 DEF KeyInv, OrderIsItsUsers, ResponseIsOwnOrder, User
  <2>8. AnswerIsOwnOrder'
    BY <2>1, <2>2, <2>3, <2>4 DEF KeyInv, AnswerIsOwnOrder, User, SameKey
  <2> QED BY <2>5, <2>6, <2>7, <2>8 DEF KeyInv
<1>3. CASE ExistingKey(r) = InProgress
  <2>1. Goto(r, "refused") /\ "refused" \in Labels
    BY <1>3 DEF CheckKey, Labels, Answered
  <2>2. UNCHANGED <<stockVars, keys, cart, orders, req, answer>>
    BY <1>3 DEF CheckKey
  <2> QED BY <1>1, <2>1, <2>2, MovesOn DEF BeforeReserving
<1>4. CASE ExistingKey(r) = NoRow
  <2>1. Goto(r, "cart") /\ "cart" \in Labels
    BY <1>4 DEF CheckKey, Labels, InFlight
  <2>2. UNCHANGED <<stockVars, keys, cart, orders, req, answer>>
    BY <1>4 DEF CheckKey
  <2> QED BY <1>1, <2>1, <2>2, MovesOn DEF BeforeReserving
<1> QED BY <1>2, <1>3, <1>4 DEF CheckKey

LEMMA FetchCartKeepsKeyInv ==
    ASSUME KeyInv, NEW r \in Orders, FetchCart(r) PROVE KeyInv'
<1>1. /\ pc[r] = "cart"
      /\ UNCHANGED <<stockVars, keys, cart, orders, req, answer>>
      /\ Goto(r, "select") \/ Goto(r, "refused")
  BY DEF FetchCart
<1>2. cart[User(r)] \in Carts
  BY KeyRowTyped DEF KeyInv, CheckoutTypeOK
<1>3. seen' \in [Orders -> Carts]
  BY <1>2 DEF FetchCart, KeyInv, CheckoutTypeOK
<1>4. {"select", "refused"} \subseteq Labels
  BY DEF Labels, InFlight, Answered
<1> QED BY <1>1, <1>3, <1>4, MovesOn DEF BeforeReserving

LEMMA SelectKeyKeepsKeyInv ==
    ASSUME KeyInv, NEW r \in Orders, SelectKey(r) PROVE KeyInv'
<1>1. /\ pc[r] = "select"
      /\ UNCHANGED <<stockVars, keys, cart, orders, req, seen, answer>>
      /\ Goto(r, "insert") \/ Goto(r, "reserve")
  BY DEF SelectKey
<1>2. seen' \in [Orders -> Carts]
  BY <1>1 DEF KeyInv, CheckoutTypeOK
<1>3. {"insert", "reserve"} \subseteq Labels
  BY DEF Labels, InFlight
<1> QED BY <1>1, <1>2, <1>3, MovesOn DEF BeforeReserving

(* A row that is written, but not as a response.                           *)
LEMMA WritesNoResponse ==
    ASSUME KeyInv, NEW r \in Orders, NEW label \in Labels, Goto(r, label),
           label \in BeforeReserving => pc[r] \in BeforeReserving,
           label \notin {"complete", "done"},
           NEW row \in {NoRow, InProgress}, SetKeyRow(r, row),
           UNCHANGED <<stockVars, cart, orders, req, seen, answer>>
    PROVE  KeyInv'
<1>1. pc' = [pc EXCEPT ![r] = label] /\ pc \in [Orders -> Labels]
  BY DEF Goto, KeyInv, CheckoutTypeOK, Labels
<1>2. \A x \in Orders : pc'[x] = IF x = r THEN label ELSE pc[x]
  BY <1>1
<1>3. /\ keys' \in [Users -> [Keys -> Orders \cup {NoRow, InProgress}]]
      /\ \A u \in Users, k \in Keys :
           keys'[u][k] = IF u = User(r) /\ k = req[r].key THEN row ELSE keys[u][k]
  BY SetKeyRowTyped DEF KeyInv
<1>4. row \notin Orders
  OBVIOUS
<1>5. CheckoutTypeOK'
  BY <1>1, <1>3 DEF KeyInv, CheckoutTypeOK, StockTypeOK, stockVars, Labels
<1>6. StartsWithNothing' /\ OrderIsCommitted'
  BY <1>2 DEF KeyInv, StartsWithNothing, OrderIsCommitted, stockVars
<1>7. OrderIsItsUsers'
  BY DEF KeyInv, OrderIsItsUsers, User
<1>8. ResponseIsOwnOrder'
  BY <1>3, <1>4 DEF KeyInv, ResponseIsOwnOrder
<1>9. AnswerIsOwnOrder'
  BY <1>2 DEF KeyInv, AnswerIsOwnOrder, User, SameKey
<1> QED BY <1>5, <1>6, <1>7, <1>8, <1>9 DEF KeyInv

LEMMA InsertKeyKeepsKeyInv ==
    ASSUME KeyInv, NEW r \in Orders, InsertKey(r) PROVE KeyInv'
<1>1. pc[r] \in BeforeReserving /\ {"reserve", "failed"} \subseteq Labels
  BY DEF InsertKey, BeforeReserving, Labels, InFlight, Answered
<1>2. UNCHANGED <<stockVars, cart, orders, req, seen, answer>>
  BY DEF InsertKey
<1>3. CASE KeyRow(r) = NoRow
  <2>1. SetKeyRow(r, InProgress) /\ Goto(r, "reserve")
    BY <1>3 DEF InsertKey
  <2> QED BY <1>1, <1>2, <2>1, WritesNoResponse DEF BeforeReserving
<1>4. CASE KeyRow(r) # NoRow
  <2>1. Goto(r, "failed") /\ UNCHANGED keys
    BY <1>4 DEF InsertKey
  <2>2. seen' \in [Orders -> Carts]
    BY <1>2 DEF KeyInv, CheckoutTypeOK
  <2> QED BY <1>1, <1>2, <2>1, <2>2, MovesOn DEF BeforeReserving
<1> QED BY <1>3, <1>4

LEMMA ReserveStockKeepsKeyInv ==
    ASSUME KeyInv, NEW r \in Orders, ReserveStock(r) PROVE KeyInv'
<1>1. seen[r] \in [Products -> Int] /\ StockTypeOK /\ pc[r] = "reserve"
  BY DEF KeyInv, CheckoutTypeOK, Carts, ReserveStock
<1>2. StockTypeOK' /\ hold' = [hold EXCEPT ![r] = seen[r]]
  BY <1>1, ReserveTyped DEF ReserveStock, ReserveItems
<1>3. /\ pc' = [pc EXCEPT ![r] = "order"]
      /\ UNCHANGED <<keys, cart, orders, req, seen, answer>>
  BY DEF ReserveStock, Goto
<1>4. /\ \A x \in Orders : pc'[x] = IF x = r THEN "order" ELSE pc[x]
      /\ \A x \in Orders : x # r => hold'[x] = hold[x]
  BY <1>2, <1>3 DEF KeyInv, CheckoutTypeOK, StockTypeOK
<1>5. CheckoutTypeOK'
  BY <1>2, <1>3 DEF KeyInv, CheckoutTypeOK, InFlight
<1>6. StartsWithNothing' /\ OrderIsCommitted'
  BY <1>3, <1>4 DEF KeyInv, StartsWithNothing, OrderIsCommitted, BeforeReserving
<1>7. OrderIsItsUsers' /\ ResponseIsOwnOrder'
  BY <1>3 DEF KeyInv, OrderIsItsUsers, ResponseIsOwnOrder, User
<1>8. AnswerIsOwnOrder'
  BY <1>3, <1>4 DEF KeyInv, AnswerIsOwnOrder, User, SameKey
<1> QED BY <1>5, <1>6, <1>7, <1>8 DEF KeyInv

LEMMA CreateOrderKeepsKeyInv ==
    ASSUME KeyInv, NEW r \in Orders, CreateOrder(r) PROVE KeyInv'
<1> DEFINE placed == [user |-> User(r), items |-> seen[r]]
           left   == [p \in Products |-> IF seen[r][p] # 0 THEN 0 ELSE cart[User(r)][p]]
<1>1. /\ orders' = [orders EXCEPT ![r] = placed]
      /\ cart' = [cart EXCEPT ![User(r)] = left]
      /\ pc' = [pc EXCEPT ![r] = "complete"]
      /\ pc[r] = "order"
      /\ UNCHANGED <<stockVars, keys, req, seen, answer>>
  BY DEF CreateOrder, Goto
<1>2. User(r) \in Users /\ seen[r] \in Carts /\ cart[User(r)] \in Carts
  BY KeyRowTyped DEF KeyInv, CheckoutTypeOK
<1>3. left \in Carts
  BY <1>2 DEF Carts
<1>4. placed \in OrderRecords
  BY <1>2 DEF Carts, OrderRecords
<1> HIDE DEF placed, left
<1>5. /\ \A x \in Orders : pc'[x] = IF x = r THEN "complete" ELSE pc[x]
      /\ \A x \in Orders : orders'[x] = IF x = r THEN placed ELSE orders[x]
  BY <1>1 DEF KeyInv, CheckoutTypeOK
<1>6. placed # NoOrder /\ placed.user = User(r)
  BY <1>4 DEF placed
<1>7. CheckoutTypeOK'
  <2>1. cart' \in [Users -> Carts]
    BY <1>1, <1>2, <1>3 DEF KeyInv, CheckoutTypeOK
  <2>2. orders' \in [Orders -> OrderRecords \cup {NoOrder}]
    BY <1>1, <1>4 DEF KeyInv, CheckoutTypeOK
  <2> QED BY <1>1, <2>1, <2>2 DEF KeyInv, CheckoutTypeOK, StockTypeOK, stockVars, InFlight
<1>8. StartsWithNothing'
  BY <1>1, <1>5 DEF KeyInv, StartsWithNothing, BeforeReserving, stockVars
<1>9. OrderIsCommitted'
  BY <1>5, <1>6 DEF KeyInv, OrderIsCommitted
<1>10. OrderIsItsUsers'
  BY <1>1, <1>5, <1>6 DEF KeyInv, OrderIsItsUsers, User
<1>11. ResponseIsOwnOrder'
  BY <1>1, <1>5, <1>6 DEF KeyInv, ResponseIsOwnOrder
<1>12. AnswerIsOwnOrder'
  BY <1>1, <1>5, <1>6 DEF KeyInv, AnswerIsOwnOrder, User, SameKey
<1> QED BY <1>7, <1>8, <1>9, <1>10, <1>11, <1>12 DEF KeyInv

LEMMA CompleteKeyKeepsKeyInv ==
    ASSUME KeyInv, NEW r \in Orders, CompleteKey(r) PROVE KeyInv'
<1>1. /\ pc' = [pc EXCEPT ![r] = "done"]
      /\ answer' = [answer EXCEPT ![r] = r]
      /\ pc[r] = "complete"
      /\ SetKeyRow(r, r)
      /\ UNCHANGED <<stockVars, cart, orders, req, seen>>
  BY DEF CompleteKey, Goto
<1>2. /\ \A x \in Orders : pc'[x] = IF x = r THEN "done" ELSE pc[x]
      /\ \A x \in Orders : answer'[x] = IF x = r THEN r ELSE answer[x]
  BY <1>1 DEF KeyInv, CheckoutTypeOK
<1>3. /\ keys' \in [Users -> [Keys -> Orders \cup {NoRow, InProgress}]]
      /\ \A u \in Users, k \in Keys :
           keys'[u][k] = IF u = User(r) /\ k = req[r].key THEN r ELSE keys[u][k]
  BY <1>1, SetKeyRowTyped DEF KeyInv
<1>4. orders[r] # NoOrder /\ orders[r].user = User(r)
  BY <1>1 DEF KeyInv, OrderIsCommitted, OrderIsItsUsers
<1>5. req[r] = [user |-> User(r), key |-> req[r].key]
  BY KeyRowTyped DEF KeyInv
<1>6. CheckoutTypeOK'
  BY <1>1, <1>3 DEF KeyInv, CheckoutTypeOK, StockTypeOK, stockVars, Answered
<1>7. StartsWithNothing' /\ OrderIsCommitted'
  BY <1>1, <1>2 DEF KeyInv, StartsWithNothing, OrderIsCommitted, BeforeReserving, stockVars
<1>8. OrderIsItsUsers'
  BY <1>1 DEF KeyInv, OrderIsItsUsers, User
<1>9. ResponseIsOwnOrder'
  BY <1>1, <1>3, <1>4, <1>5 DEF KeyInv, ResponseIsOwnOrder
<1>10. AnswerIsOwnOrder'
  BY <1>1, <1>2, <1>4 DEF KeyInv, AnswerIsOwnOrder, User, SameKey
<1> QED BY <1>6, <1>7, <1>8, <1>9, <1>10 DEF KeyInv

LEMMA ReleaseStockKeepsKeyInv ==
    ASSUME KeyInv, NEW r \in Orders, ReleaseStock(r) PROVE KeyInv'
<1>1. /\ pc' = [pc EXCEPT ![r] = "unregister"]
      /\ Release(r)
      /\ UNCHANGED <<keys, cart, orders, req, seen, answer>>
  BY DEF ReleaseStock, Goto
<1>2. StockTypeOK' /\ hold' = [hold EXCEPT ![r] = NothingHeld]
  BY <1>1, ReleaseTyped DEF KeyInv, CheckoutTypeOK
<1>3. /\ \A x \in Orders : pc'[x] = IF x = r THEN "unregister" ELSE pc[x]
      /\ \A x \in Orders : x # r => hold'[x] = hold[x]
  BY <1>1, <1>2 DEF KeyInv, CheckoutTypeOK, StockTypeOK
<1>4. CheckoutTypeOK'
  BY <1>1, <1>2 DEF KeyInv, CheckoutTypeOK, InFlight
<1>5. StartsWithNothing' /\ OrderIsCommitted'
  BY <1>1, <1>3 DEF KeyInv, StartsWithNothing, OrderIsCommitted, BeforeReserving
<1>6. OrderIsItsUsers' /\ ResponseIsOwnOrder'
  BY <1>1 DEF KeyInv, OrderIsItsUsers, ResponseIsOwnOrder, User
<1>7. AnswerIsOwnOrder'
  BY <1>1, <1>3 DEF KeyInv, AnswerIsOwnOrder, User, SameKey
<1> QED BY <1>4, <1>5, <1>6, <1>7 DEF KeyInv

LEMMA RemoveKeyKeepsKeyInv ==
    ASSUME KeyInv, NEW r \in Orders, RemoveKey(r) PROVE KeyInv'
<1>1. /\ Goto(r, "failed") /\ SetKeyRow(r, NoRow)
      /\ UNCHANGED <<stockVars, cart, orders, req, seen, answer>>
  BY DEF RemoveKey
<1>2. "failed" \in Labels /\ "failed" \notin BeforeReserving
  BY DEF Labels, Answered, BeforeReserving
<1> QED BY <1>1, <1>2, WritesNoResponse

(* The exceptions change nothing but the label.                            *)
LEMMA ThrowKeepsKeyInv ==
    ASSUME KeyInv, NEW r \in Orders,
           \/ ReserveThrows(r) \/ CreateOrderThrows(r) \/ CompleteKeyThrows(r)
           \/ ReleaseThrows(r) \/ RemoveKeyThrows(r)
    PROVE  KeyInv'
<1>1. /\ Goto(r, "failed") \/ Goto(r, "release")
      /\ UNCHANGED <<stockVars, keys, cart, orders, req, answer>>
      /\ UNCHANGED seen
  BY DEF ReserveThrows, CreateOrderThrows, CompleteKeyThrows, ReleaseThrows, RemoveKeyThrows
<1>2. seen' \in [Orders -> Carts]
  BY <1>1 DEF KeyInv, CheckoutTypeOK
<1>3. {"failed", "release"} \subseteq Labels /\ {"failed", "release"} \cap BeforeReserving = {}
  BY DEF Labels, InFlight, Answered, BeforeReserving
<1> QED BY <1>1, <1>2, <1>3, MovesOn

LEMMA CrashKeepsKeyInv ==
    ASSUME KeyInv, Crash PROVE KeyInv'
<1>1. /\ pc' = [r \in Orders |-> IF pc[r] \in InFlight THEN "dead" ELSE pc[r]]
      /\ UNCHANGED <<stockVars, keys, cart, orders, req, seen, answer>>
  BY DEF Crash
<1>2. CheckoutTypeOK'
  BY <1>1 DEF KeyInv, CheckoutTypeOK, StockTypeOK, stockVars
<1>3. \A r \in Orders : pc'[r] = pc[r] \/ pc'[r] = "dead"
  BY <1>1
<1>4. StartsWithNothing' /\ OrderIsCommitted'
  BY <1>1, <1>3 DEF KeyInv, StartsWithNothing, OrderIsCommitted, BeforeReserving, stockVars
<1>5. OrderIsItsUsers' /\ ResponseIsOwnOrder'
  BY <1>1 DEF KeyInv, OrderIsItsUsers, ResponseIsOwnOrder, User
<1>6. AnswerIsOwnOrder'
  BY <1>1, <1>3 DEF KeyInv, AnswerIsOwnOrder, User, SameKey
<1> QED BY <1>2, <1>4, <1>5, <1>6 DEF KeyInv

(* Carts and the stock of other orders are nothing KeyInv depends on.      *)
LEMMA SurroundingsKeepKeyInv ==
    ASSUME KeyInv, UNCHANGED <<hold, keys, orders, requestVars>>,
           stock' \in [Products -> Row], cart' \in [Users -> Carts]
    PROVE  KeyInv'
<1>1. UNCHANGED <<hold, keys, orders, pc, req, seen, answer>>
  BY DEF requestVars
<1>2. CheckoutTypeOK'
  BY <1>1 DEF KeyInv, CheckoutTypeOK, StockTypeOK
<1>3. StartsWithNothing' /\ OrderIsCommitted' /\ OrderIsItsUsers' /\ ResponseIsOwnOrder'
  BY <1>1 DEF KeyInv, StartsWithNothing, OrderIsCommitted, OrderIsItsUsers,
              ResponseIsOwnOrder, User
<1>4. AnswerIsOwnOrder'
  BY <1>1 DEF KeyInv, AnswerIsOwnOrder, User, SameKey
<1> QED BY <1>2, <1>3, <1>4 DEF KeyInv

LEMMA EditCartIsSurroundings ==
    ASSUME KeyInv, NEW u \in Users, EditCart(u)
    PROVE  /\ UNCHANGED <<hold, keys, orders, requestVars>>
           /\ stock' \in [Products -> Row] /\ cart' \in [Users -> Carts]
<1>1. PICK b \in Baskets \cup {NothingHeld} : cart' = [cart EXCEPT ![u] = b]
  BY DEF EditCart
<1>2. b \in Carts
  BY NothingIsNothing DEF Carts
<1>3. cart' \in [Users -> Carts]
  BY <1>1, <1>2 DEF KeyInv, CheckoutTypeOK
<1> QED BY <1>3 DEF EditCart, stockVars, KeyInv, CheckoutTypeOK, StockTypeOK

LEMMA RestockIsSurroundings ==
    ASSUME KeyInv, NEW p \in Products, NEW d \in Deltas, Restock(p, d)
    PROVE  /\ UNCHANGED <<hold, keys, orders, requestVars>>
           /\ stock' \in [Products -> Row] /\ cart' \in [Users -> Carts]
<1>1. StockTypeOK' /\ hold' = hold
  BY AdjustTyped DEF Restock, KeyInv, CheckoutTypeOK
<1> QED BY <1>1 DEF Restock, StockTypeOK, KeyInv, CheckoutTypeOK

LEMMA NextKeepsKeyInv == KeyInv /\ [CheckoutNext]_checkoutVars => KeyInv'
<1> SUFFICES ASSUME KeyInv, [CheckoutNext]_checkoutVars PROVE KeyInv'
  OBVIOUS
<1>1. ASSUME NEW r \in Orders, Send(r) PROVE KeyInv'
  BY <1>1, SendKeepsKeyInv
<1>2. ASSUME NEW r \in Orders, CheckoutStep(r) PROVE KeyInv'
  BY <1>2, CheckKeyKeepsKeyInv, FetchCartKeepsKeyInv, SelectKeyKeepsKeyInv,
     InsertKeyKeepsKeyInv, ReserveStockKeepsKeyInv, CreateOrderKeepsKeyInv,
     CompleteKeyKeepsKeyInv, ReleaseStockKeepsKeyInv, RemoveKeyKeepsKeyInv,
     ThrowKeepsKeyInv
     DEF CheckoutStep
<1>3. CASE Crash
  BY <1>3, CrashKeepsKeyInv
<1>4. ASSUME NEW u \in Users, EditCart(u) PROVE KeyInv'
  BY <1>4, EditCartIsSurroundings, SurroundingsKeepKeyInv
<1>5. ASSUME NEW p \in Products, NEW d \in Deltas, Restock(p, d) PROVE KeyInv'
  BY <1>5, RestockIsSurroundings, SurroundingsKeepKeyInv
<1>6. CASE UNCHANGED checkoutVars
  <2>1. /\ UNCHANGED <<hold, keys, orders, requestVars>>
        /\ stock' = stock /\ cart' = cart
    BY <1>6 DEF checkoutVars
  <2> QED BY <2>1, SurroundingsKeepKeyInv DEF KeyInv, CheckoutTypeOK, StockTypeOK
<1> QED BY <1>1, <1>2, <1>3, <1>4, <1>5, <1>6 DEF CheckoutNext

THEOREM KeyInvariant == CheckoutSpec => []KeyInv
BY InitKeyInv, NextKeepsKeyInv, PTL DEF CheckoutSpec

(* Type correctness: in particular the shelf never holds less than nothing,*)
(* and no order holds a negative quantity, whatever requests interleave.   *)
THEOREM CheckoutTypeCorrect == CheckoutSpec => []CheckoutTypeOK
<1>1. KeyInv => CheckoutTypeOK
  BY DEF KeyInv
<1> QED BY <1>1, KeyInvariant, PTL

(* Every answer is an order of the user who asks, under the key they sent, *)
(* whatever fails and however requests overlap.                            *)
THEOREM AnswersAreOwnOrders == CheckoutSpec => []AnswerIsOwnOrder
<1>1. KeyInv => AnswerIsOwnOrder
  BY DEF KeyInv
<1> QED BY <1>1, KeyInvariant, PTL

-----------------------------------------------------------------------------
(* A checkout releases what it reserved, once.                             *)

LEMMA StepHoldsWhatItRead ==
    ASSUME KeyInv, HoldsWhatItRead, NEW r \in Orders, Send(r) \/ CheckoutStep(r)
    PROVE  HoldsWhatItRead'
<1>1. \A x \in Orders : x # r => pc'[x] = pc[x] /\ seen'[x] = seen[x] /\ hold'[x] = hold[x]
  BY DEF Send, CheckoutStep, CheckKey, FetchCart, SelectKey, InsertKey, ReserveStock,
         ReserveThrows, CreateOrder, CreateOrderThrows, CompleteKey, CompleteKeyThrows,
         ReleaseStock, ReleaseThrows, RemoveKey, RemoveKeyThrows, Goto, stockVars,
         Reserve, Release, KeyInv, CheckoutTypeOK, StockTypeOK
<1> SUFFICES /\ pc'[r] \in {"select", "insert", "reserve"} => seen'[r] # NothingHeld
             /\ pc'[r] \in {"order", "complete", "release"} =>
                   hold'[r] = seen'[r] /\ seen'[r] # NothingHeld
  BY <1>1 DEF HoldsWhatItRead
<1>2. r \in DOMAIN pc /\ r \in DOMAIN seen /\ r \in DOMAIN hold
  BY DEF KeyInv, CheckoutTypeOK, StockTypeOK
<1>3. CASE Send(r) \/ CheckKey(r) \/ CompleteKey(r)
  BY <1>2, <1>3 DEF Send, CheckKey, CompleteKey, Goto
<1>4. CASE FetchCart(r)
  BY <1>2, <1>4 DEF FetchCart, Goto
<1>5. CASE SelectKey(r) \/ InsertKey(r)
  BY <1>2, <1>5 DEF SelectKey, InsertKey, Goto, HoldsWhatItRead
<1>6. CASE ReserveStock(r)
  BY <1>2, <1>6 DEF ReserveStock, ReserveItems, Reserve, Goto, HoldsWhatItRead
<1>7. CASE CreateOrder(r) \/ CreateOrderThrows(r) \/ CompleteKeyThrows(r)
  BY <1>2, <1>7 DEF CreateOrder, CreateOrderThrows, CompleteKeyThrows, Goto, stockVars,
                    HoldsWhatItRead
<1>8. CASE \/ ReserveThrows(r) \/ ReleaseStock(r) \/ ReleaseThrows(r)
           \/ RemoveKey(r) \/ RemoveKeyThrows(r)
  BY <1>2, <1>8 DEF ReserveThrows, ReleaseStock, ReleaseThrows, RemoveKey, RemoveKeyThrows,
                    Goto
<1> QED BY <1>3, <1>4, <1>5, <1>6, <1>7, <1>8 DEF CheckoutStep

LEMMA NextHoldsWhatItRead ==
    KeyInv /\ HoldsWhatItRead /\ [CheckoutNext]_checkoutVars => HoldsWhatItRead'
<1> SUFFICES ASSUME KeyInv, HoldsWhatItRead, [CheckoutNext]_checkoutVars
             PROVE  HoldsWhatItRead'
  OBVIOUS
<1>1. CASE \E r \in Orders : Send(r) \/ CheckoutStep(r)
  BY <1>1, StepHoldsWhatItRead
<1>2. CASE Crash
  <2>1. /\ \A r \in Orders : pc'[r] = pc[r] \/ pc'[r] = "dead"
        /\ UNCHANGED <<hold, seen>>
    BY <1>2 DEF Crash, stockVars
  <2> QED BY <2>1 DEF HoldsWhatItRead
<1>3. CASE \/ \E u \in Users : EditCart(u)
           \/ \E p \in Products, d \in Deltas : Restock(p, d)
           \/ UNCHANGED checkoutVars
  <2>1. UNCHANGED <<hold, pc, seen>>
    BY <1>3 DEF EditCart, Restock, Adjust, checkoutVars, stockVars, requestVars
  <2> QED BY <2>1 DEF HoldsWhatItRead
<1> QED BY <1>1, <1>2, <1>3 DEF CheckoutNext

(* The catch block's release undoes the request's own reservation and      *)
(* nothing else, also when requests overlap and any call may fail.         *)
THEOREM ReleasesAreOwn == CheckoutSpec => []ReleasesItsReservation
<1>1. CheckoutInit => HoldsWhatItRead
  BY DEF CheckoutInit, HoldsWhatItRead
<1>2. HoldsWhatItRead => ReleasesItsReservation
  BY DEF HoldsWhatItRead, ReleasesItsReservation
<1> QED BY <1>1, <1>2, NextHoldsWhatItRead, KeyInvariant, PTL DEF CheckoutSpec

-----------------------------------------------------------------------------
(* If storing the response cannot fail, an order holds its stock.          *)

LEMMA InitStockInv == CheckoutInit => StockInv
BY DEF CheckoutInit, StockInv, WorksOnItsStock, OrderHoldsStock

(* A request that moves on without touching holdings or orders.            *)
LEMMA MovesOnWithStock ==
    ASSUME KeyInv, StockInv, NEW r \in Orders, NEW label, Goto(r, label),
           label # "order",
           label \in {"release", "unregister"} => orders[r] = NoOrder,
           \A x \in Orders : x # r => seen'[x] = seen[x],
           UNCHANGED <<hold, orders>>
    PROVE  StockInv'
<1>1. \A x \in Orders : pc'[x] = IF x = r THEN label ELSE pc[x]
  BY DEF Goto, KeyInv, CheckoutTypeOK
<1>2. WorksOnItsStock'
  BY <1>1 DEF StockInv, WorksOnItsStock
<1>3. OrderHoldsStock'
  BY DEF StockInv, OrderHoldsStock
<1> QED BY <1>2, <1>3 DEF StockInv

LEMMA EarlyStepKeepsStockInv ==
    ASSUME KeyInv, StockInv, NEW r \in Orders,
           Send(r) \/ CheckKey(r) \/ FetchCart(r) \/ SelectKey(r) \/ InsertKey(r)
    PROVE  StockInv'
<1>1. UNCHANGED <<hold, orders>>
  BY DEF Send, CheckKey, FetchCart, SelectKey, InsertKey, stockVars
<1>2. \A x \in Orders : x # r => seen'[x] = seen[x]
  BY DEF Send, CheckKey, FetchCart, SelectKey, InsertKey, KeyInv, CheckoutTypeOK
<1>3. \E label \in {"check", "done", "refused", "cart", "select", "insert", "reserve", "failed"} :
        Goto(r, label)
  BY DEF Send, CheckKey, FetchCart, SelectKey, InsertKey
<1> QED BY <1>1, <1>2, <1>3, MovesOnWithStock

LEMMA LateStepKeepsStockInv ==
    ASSUME KeyInv, StockInv, NEW r \in Orders,
           \/ ReserveThrows(r) \/ CreateOrderThrows(r) \/ CompleteKey(r)
           \/ ReleaseThrows(r) \/ RemoveKey(r) \/ RemoveKeyThrows(r)
    PROVE  StockInv'
<1>1. UNCHANGED <<hold, orders, seen>>
  BY DEF ReserveThrows, CreateOrderThrows, CompleteKey, ReleaseThrows, RemoveKey,
         RemoveKeyThrows, stockVars
<1>2. \/ Goto(r, "failed") \/ Goto(r, "done")
      \/ Goto(r, "release") /\ pc[r] = "order"
  BY DEF ReserveThrows, CreateOrderThrows, CompleteKey, ReleaseThrows, RemoveKey,
         RemoveKeyThrows
<1>3. pc[r] = "order" => orders[r] = NoOrder
  BY DEF StockInv, WorksOnItsStock
<1> QED BY <1>1, <1>2, <1>3, MovesOnWithStock

LEMMA ReserveStockKeepsStockInv ==
    ASSUME KeyInv, StockInv, NEW r \in Orders, ReserveStock(r) PROVE StockInv'
<1>1. /\ pc' = [pc EXCEPT ![r] = "order"] /\ pc[r] = "reserve"
      /\ hold' = [hold EXCEPT ![r] = seen[r]]
      /\ UNCHANGED <<orders, seen>>
  BY DEF ReserveStock, Goto, Reserve, ReserveItems
<1>2. \A x \in Orders : /\ pc'[x] = IF x = r THEN "order" ELSE pc[x]
                        /\ hold'[x] = IF x = r THEN seen[r] ELSE hold[x]
  BY <1>1 DEF KeyInv, CheckoutTypeOK, StockTypeOK
<1>3. orders[r] = NoOrder
  BY <1>1 DEF KeyInv, StartsWithNothing, BeforeReserving
<1>4. WorksOnItsStock'
  BY <1>1, <1>2, <1>3 DEF StockInv, WorksOnItsStock
<1>5. OrderHoldsStock'
  BY <1>1, <1>2, <1>3 DEF StockInv, OrderHoldsStock
<1> QED BY <1>4, <1>5 DEF StockInv

LEMMA CreateOrderKeepsStockInv ==
    ASSUME KeyInv, StockInv, NEW r \in Orders, CreateOrder(r) PROVE StockInv'
<1> DEFINE placed == [user |-> User(r), items |-> seen[r]]
<1>1. /\ pc' = [pc EXCEPT ![r] = "complete"] /\ pc[r] = "order"
      /\ orders' = [orders EXCEPT ![r] = placed]
      /\ UNCHANGED <<hold, seen>>
  BY DEF CreateOrder, Goto, stockVars
<1>2. \A x \in Orders : /\ pc'[x] = IF x = r THEN "complete" ELSE pc[x]
                        /\ orders'[x] = IF x = r THEN placed ELSE orders[x]
  BY <1>1 DEF KeyInv, CheckoutTypeOK
<1>3. hold[r] = placed.items
  BY <1>1 DEF StockInv, WorksOnItsStock
<1>4. WorksOnItsStock'
  BY <1>1, <1>2 DEF StockInv, WorksOnItsStock
<1> HIDE DEF placed
<1>5. OrderHoldsStock'
  BY <1>1, <1>2, <1>3 DEF StockInv, OrderHoldsStock
<1> QED BY <1>4, <1>5 DEF StockInv

LEMMA ReleaseStockKeepsStockInv ==
    ASSUME KeyInv, StockInv, NEW r \in Orders, ReleaseStock(r) PROVE StockInv'
<1>1. /\ pc' = [pc EXCEPT ![r] = "unregister"] /\ pc[r] = "release"
      /\ hold' = [hold EXCEPT ![r] = NothingHeld]
      /\ UNCHANGED <<orders, seen>>
  BY DEF ReleaseStock, Goto, Release
<1>2. \A x \in Orders : /\ pc'[x] = IF x = r THEN "unregister" ELSE pc[x]
                        /\ x # r => hold'[x] = hold[x]
  BY <1>1 DEF KeyInv, CheckoutTypeOK, StockTypeOK
<1>3. orders[r] = NoOrder
  BY <1>1 DEF StockInv, WorksOnItsStock
<1>4. WorksOnItsStock'
  BY <1>1, <1>2, <1>3 DEF StockInv, WorksOnItsStock
<1>5. OrderHoldsStock'
  BY <1>1, <1>2, <1>3 DEF StockInv, OrderHoldsStock
<1> QED BY <1>4, <1>5 DEF StockInv

LEMMA CrashKeepsStockInv ==
    ASSUME StockInv, Crash PROVE StockInv'
<1>1. /\ \A r \in Orders : pc'[r] = pc[r] \/ pc'[r] = "dead"
      /\ UNCHANGED <<hold, orders, seen>>
  BY DEF Crash, stockVars
<1> QED BY <1>1 DEF StockInv, WorksOnItsStock, OrderHoldsStock

LEMMA NextKeepsStockInv ==
    ASSUME "complete" \notin Faults
    PROVE  KeyInv /\ StockInv /\ [CheckoutNext]_checkoutVars => StockInv'
<1> SUFFICES ASSUME KeyInv, StockInv, [CheckoutNext]_checkoutVars PROVE StockInv'
  OBVIOUS
<1>1. ASSUME NEW r \in Orders, Send(r) \/ CheckoutStep(r) PROVE StockInv'
  <2>1. ~CompleteKeyThrows(r)
    BY DEF CompleteKeyThrows
  <2> QED BY <1>1, <2>1, EarlyStepKeepsStockInv, LateStepKeepsStockInv,
             ReserveStockKeepsStockInv, CreateOrderKeepsStockInv, ReleaseStockKeepsStockInv
             DEF CheckoutStep
<1>2. CASE Crash
  BY <1>2, CrashKeepsStockInv
<1>3. CASE \/ \E u \in Users : EditCart(u)
           \/ \E p \in Products, d \in Deltas : Restock(p, d)
           \/ UNCHANGED checkoutVars
  <2>1. UNCHANGED <<hold, orders, pc, seen>>
    BY <1>3 DEF EditCart, Restock, Adjust, checkoutVars, stockVars, requestVars
  <2> QED BY <2>1 DEF StockInv, WorksOnItsStock, OrderHoldsStock
<1> QED BY <1>1, <1>2, <1>3 DEF CheckoutNext

LEMMA StockInvariant ==
    ASSUME "complete" \notin Faults
    PROVE  CheckoutSpec => []StockInv
BY InitStockInv, NextKeepsStockInv, KeyInvariant, PTL DEF CheckoutSpec

(* An order that exists holds exactly the stock of its items, unless the   *)
(* response of a committed order could not be stored.                      *)
THEOREM OrdersHoldTheirStock ==
    ASSUME "complete" \notin Faults
    PROVE  CheckoutSpec => []OrderHoldsStock
<1>1. StockInv => OrderHoldsStock
  BY DEF StockInv
<1> QED BY <1>1, StockInvariant, PTL

-----------------------------------------------------------------------------
(* If, moreover, a client waits for an answer before it sends its key      *)
(* again, a key leads to one order and keeps its response.                 *)

LEMMA InitSerialInv == CheckoutInit => SerialInv
BY DEF CheckoutInit, SerialInv, OneAttemptPerKey, RowFollowsAttempt, OrderKeepsItsKey,
       AttemptIsOnlyOrder, AtMostOneOrderPerKey, InFlight, Claiming, Claimed

(* A request that moves on within its stage, or ends.                      *)
LEMMA MovesOnUnderKey ==
    ASSUME KeyInv, SerialInv, NEW r \in Orders, NEW label, Goto(r, label),
           label \in InFlight => pc[r] \in InFlight,
           label \in Claiming => pc[r] \in Claiming,
           label \in Claimed => pc[r] \in Claimed,
           UNCHANGED <<keys, orders, req>>
    PROVE  SerialInv'
<1>1. \A x \in Orders : pc'[x] = IF x = r THEN label ELSE pc[x]
  BY DEF Goto, KeyInv, CheckoutTypeOK
<1>2. \A x, y \in Orders : /\ SameKey(x, y)' <=> SameKey(x, y)
                           /\ KeyRow(x)' = KeyRow(x)
  BY DEF SameKey, KeyRow
<1>3. OneAttemptPerKey'
  BY <1>1, <1>2 DEF SerialInv, OneAttemptPerKey
<1>4. RowFollowsAttempt'
  BY <1>1, <1>2 DEF SerialInv, RowFollowsAttempt
<1>5. OrderKeepsItsKey' /\ AtMostOneOrderPerKey'
  BY <1>2 DEF SerialInv, OrderKeepsItsKey, AtMostOneOrderPerKey
<1>6. AttemptIsOnlyOrder'
  BY <1>1, <1>2 DEF SerialInv, AttemptIsOnlyOrder
<1> QED BY <1>3, <1>4, <1>5, <1>6 DEF SerialInv

(* A request that writes its own row: what the other requests see of it.   *)
LEMMA OthersKeepTheirRow ==
    ASSUME KeyInv, NEW r \in Orders, NEW row \in Orders \cup {NoRow, InProgress},
           SetKeyRow(r, row), req' = req
    PROVE  \A x \in Orders : KeyRow(x)' = IF SameKey(x, r) THEN row ELSE KeyRow(x)
<1> SUFFICES ASSUME NEW x \in Orders
             PROVE  KeyRow(x)' = IF SameKey(x, r) THEN row ELSE KeyRow(x)
  OBVIOUS
<1>1. /\ User(r) \in Users /\ req[r].key \in Keys
      /\ User(x) \in Users /\ req[x].key \in Keys
      /\ req[r] = [user |-> User(r), key |-> req[r].key]
      /\ req[x] = [user |-> User(x), key |-> req[x].key]
  BY KeyRowTyped DEF KeyInv
<1>2. \A u \in Users, k \in Keys :
        keys'[u][k] = IF u = User(r) /\ k = req[r].key THEN row ELSE keys[u][k]
  BY SetKeyRowTyped DEF KeyInv
<1>3. KeyRow(x)' = keys'[User(x)][req[x].key] /\ KeyRow(x) = keys[User(x)][req[x].key]
  BY DEF KeyRow, User
<1>4. SameKey(x, r) <=> User(x) = User(r) /\ req[x].key = req[r].key
  BY <1>1 DEF SameKey
<1> QED BY <1>1, <1>2, <1>3, <1>4

LEMMA SendKeepsSerialInv ==
    ASSUME KeyInv, SerialInv, ~Overlap, NEW r \in Orders, Send(r) PROVE SerialInv'
<1>1. /\ \A x \in Orders : pc'[x] = IF x = r THEN "check" ELSE pc[x]
      /\ \A s \in Orders : SameKey(r, s) => pc[s] \notin InFlight
      /\ UNCHANGED <<keys, orders, req>>
  BY DEF Send, Goto, KeyInv, CheckoutTypeOK
<1>2. \A x, y \in Orders : /\ SameKey(x, y)' <=> SameKey(x, y)
                           /\ SameKey(x, y) => SameKey(y, x)
                           /\ KeyRow(x)' = KeyRow(x)
  BY <1>1 DEF SameKey, KeyRow
<1>3. OneAttemptPerKey'
  BY <1>1, <1>2 DEF SerialInv, OneAttemptPerKey
<1>4. RowFollowsAttempt'
  BY <1>1, <1>2 DEF SerialInv, RowFollowsAttempt, Claiming, Claimed
<1>5. OrderKeepsItsKey' /\ AtMostOneOrderPerKey'
  BY <1>1, <1>2 DEF SerialInv, OrderKeepsItsKey, AtMostOneOrderPerKey
<1>6. AttemptIsOnlyOrder'
  BY <1>1, <1>2 DEF SerialInv, AttemptIsOnlyOrder, Claiming, Claimed
<1> QED BY <1>3, <1>4, <1>5, <1>6 DEF SerialInv

LEMMA CheckKeyKeepsSerialInv ==
    ASSUME KeyInv, SerialInv, NEW r \in Orders, CheckKey(r) PROVE SerialInv'
<1>1. pc[r] = "check" /\ UNCHANGED <<keys, orders, req>>
  BY DEF CheckKey
<1>2. CASE Goto(r, "done") \/ Goto(r, "refused")
  BY <1>1, <1>2, MovesOnUnderKey DEF InFlight, Claiming, Claimed
<1>3. CASE Goto(r, "cart") /\ KeyRow(r) = NoRow
  <2>1. \A x \in Orders : pc'[x] = IF x = r THEN "cart" ELSE pc[x]
    BY <1>3 DEF Goto, KeyInv, CheckoutTypeOK
  <2>2. \A x, y \in Orders : /\ SameKey(x, y)' <=> SameKey(x, y)
                             /\ KeyRow(x)' = KeyRow(x)
                             /\ SameKey(x, y) => KeyRow(x) = KeyRow(y)
    BY <1>1 DEF SameKey, KeyRow
  <2>3. OneAttemptPerKey'
    BY <1>1, <2>1, <2>2 DEF SerialInv, OneAttemptPerKey, InFlight
  <2>4. RowFollowsAttempt'
    BY <1>3, <2>1, <2>2 DEF SerialInv, RowFollowsAttempt, Claimed
  <2>5. OrderKeepsItsKey' /\ AtMostOneOrderPerKey'
    BY <1>1, <2>2 DEF SerialInv, OrderKeepsItsKey, AtMostOneOrderPerKey
  <2>6. AttemptIsOnlyOrder'
    BY <1>1, <1>3, <2>1, <2>2 DEF SerialInv, AttemptIsOnlyOrder, OrderKeepsItsKey
  <2> QED BY <2>3, <2>4, <2>5, <2>6 DEF SerialInv
<1> QED BY <1>2, <1>3 DEF CheckKey, ExistingKey

LEMMA InsertKeyKeepsSerialInv ==
    ASSUME KeyInv, SerialInv, NEW r \in Orders, InsertKey(r) PROVE SerialInv'
<1>1. pc[r] = "insert" /\ KeyRow(r) = NoRow
  BY DEF InsertKey, SerialInv, RowFollowsAttempt, Claiming
<1>2. Goto(r, "reserve") /\ SetKeyRow(r, InProgress) /\ UNCHANGED <<orders, req>>
  BY <1>1 DEF InsertKey
<1>3. \A x \in Orders : pc'[x] = IF x = r THEN "reserve" ELSE pc[x]
  BY <1>2 DEF Goto, KeyInv, CheckoutTypeOK
<1>4. \A x \in Orders : KeyRow(x)' = IF SameKey(x, r) THEN InProgress ELSE KeyRow(x)
  BY <1>2, OthersKeepTheirRow
<1>5. \A x, y \in Orders : SameKey(x, y)' <=> SameKey(x, y)
  BY <1>2 DEF SameKey
<1>6. OneAttemptPerKey'
  BY <1>1, <1>3, <1>5 DEF SerialInv, OneAttemptPerKey, InFlight
<1>7. \A x \in Orders : pc[x] \in Claiming \cup Claimed /\ SameKey(x, r) => x = r
  BY <1>1 DEF SerialInv, OneAttemptPerKey, InFlight, Claiming, Claimed
<1>8. RowFollowsAttempt'
  <2> SUFFICES ASSUME NEW x \in Orders
               PROVE  /\ pc'[x] \in Claiming => KeyRow(x)' = NoRow
                      /\ pc'[x] \in Claimed => KeyRow(x)' = InProgress
    BY DEF RowFollowsAttempt
  <2>1. CASE x = r
    BY <2>1, <1>3, <1>4 DEF Claiming, SameKey
  <2>2. CASE x # r
    BY <2>2, <1>3, <1>4, <1>7 DEF SerialInv, RowFollowsAttempt
  <2> QED BY <2>1, <2>2
<1>9. OrderKeepsItsKey'
  BY <1>2, <1>4 DEF SerialInv, OrderKeepsItsKey
<1>10. AtMostOneOrderPerKey'
  BY <1>2, <1>5 DEF SerialInv, AtMostOneOrderPerKey
<1>11. AttemptIsOnlyOrder'
  BY <1>1, <1>2, <1>3, <1>5 DEF SerialInv, AttemptIsOnlyOrder, Claiming
<1> QED BY <1>6, <1>8, <1>9, <1>10, <1>11 DEF SerialInv

LEMMA CreateOrderKeepsSerialInv ==
    ASSUME KeyInv, SerialInv, NEW r \in Orders, CreateOrder(r) PROVE SerialInv'
<1>1. pc[r] = "order" /\ UNCHANGED <<keys, req>> /\ Goto(r, "complete")
  BY DEF CreateOrder
<1>2. /\ \A x \in Orders : pc'[x] = IF x = r THEN "complete" ELSE pc[x]
      /\ \A x \in Orders : x # r => orders'[x] = orders[x]
  BY DEF CreateOrder, Goto, KeyInv, CheckoutTypeOK
<1>3. \A x, y \in Orders : /\ SameKey(x, y)' <=> SameKey(x, y)
                           /\ KeyRow(x)' = KeyRow(x)
                           /\ SameKey(x, y) => SameKey(y, x)
  BY <1>1 DEF SameKey, KeyRow
<1>4. OneAttemptPerKey'
  BY <1>1, <1>2, <1>3 DEF SerialInv, OneAttemptPerKey, InFlight
<1>5. RowFollowsAttempt'
  BY <1>1, <1>2, <1>3 DEF SerialInv, RowFollowsAttempt, Claiming, Claimed
<1>6. OrderKeepsItsKey'
  BY <1>1, <1>2, <1>3 DEF SerialInv, OrderKeepsItsKey, RowFollowsAttempt, Claimed
<1>7. AtMostOneOrderPerKey'
  BY <1>1, <1>2, <1>3 DEF SerialInv, AtMostOneOrderPerKey, AttemptIsOnlyOrder, Claimed
<1>8. AttemptIsOnlyOrder'
  <2> SUFFICES ASSUME NEW x \in Orders, NEW o \in Orders,
                      pc'[x] \in Claiming \cup Claimed, orders'[o] # NoOrder,
                      SameKey(o, x)'
               PROVE  o = x
    BY DEF AttemptIsOnlyOrder
  <2>1. pc[x] \in Claiming \cup Claimed /\ SameKey(o, x)
    BY <1>1, <1>2, <1>3 DEF Claimed
  <2>2. CASE o = r
    BY <2>1, <2>2, <1>1 DEF SerialInv, OneAttemptPerKey, InFlight, Claiming, Claimed
  <2>3. CASE o # r
    BY <2>1, <2>3, <1>2 DEF SerialInv, AttemptIsOnlyOrder
  <2> QED BY <2>2, <2>3
<1> QED BY <1>4, <1>5, <1>6, <1>7, <1>8 DEF SerialInv

(* The last write of a request's row, with the response or with nothing.   *)
LEMMA EndsUnderKey ==
    ASSUME KeyInv, SerialInv, NEW r \in Orders, pc[r] \in Claimed,
           NEW label \in {"done", "failed"}, Goto(r, label),
           NEW row \in Orders \cup {NoRow}, SetKeyRow(r, row),
           row = NoRow => orders[r] = NoOrder,
           UNCHANGED <<orders, req>>
    PROVE  SerialInv'
<1>1. \A x \in Orders : pc'[x] = IF x = r THEN label ELSE pc[x]
  BY DEF Goto, KeyInv, CheckoutTypeOK
<1>2. \A x \in Orders : KeyRow(x)' = IF SameKey(x, r) THEN row ELSE KeyRow(x)
  BY OthersKeepTheirRow
<1>3. \A x, y \in Orders : SameKey(x, y)' <=> SameKey(x, y)
  BY DEF SameKey
<1>4. label \notin InFlight /\ label \notin Claiming \cup Claimed
  BY DEF InFlight, Claiming, Claimed
<1>5. OneAttemptPerKey'
  BY <1>1, <1>3, <1>4 DEF SerialInv, OneAttemptPerKey
<1>6. \A x \in Orders : pc[x] \in Claiming \cup Claimed /\ SameKey(x, r) => x = r
  BY DEF SerialInv, OneAttemptPerKey, InFlight, Claiming, Claimed
<1>7. RowFollowsAttempt'
  BY <1>1, <1>2, <1>4, <1>6 DEF SerialInv, RowFollowsAttempt
<1>8. OrderKeepsItsKey'
  <2> SUFFICES ASSUME NEW o \in Orders, orders[o] # NoOrder PROVE KeyRow(o)' # NoRow
    BY DEF OrderKeepsItsKey
  <2>1. CASE SameKey(o, r)
    <3>1. o = r
      BY <2>1 DEF SerialInv, AttemptIsOnlyOrder
    <3> QED BY <3>1, <2>1, <1>2
  <2>2. CASE ~SameKey(o, r)
    BY <2>2, <1>2 DEF SerialInv, OrderKeepsItsKey
  <2> QED BY <2>1, <2>2
<1>9. AtMostOneOrderPerKey'
  BY <1>3 DEF SerialInv, AtMostOneOrderPerKey
<1>10. AttemptIsOnlyOrder'
  BY <1>1, <1>3, <1>4 DEF SerialInv, AttemptIsOnlyOrder
<1> QED BY <1>5, <1>7, <1>8, <1>9, <1>10 DEF SerialInv

LEMMA CompleteKeyKeepsSerialInv ==
    ASSUME KeyInv, SerialInv, NEW r \in Orders, CompleteKey(r) PROVE SerialInv'
<1>1. /\ Goto(r, "done") /\ SetKeyRow(r, r) /\ UNCHANGED <<orders, req>>
      /\ pc[r] \in Claimed /\ r # NoRow
  BY DEF CompleteKey, Claimed
<1> QED BY <1>1, EndsUnderKey

LEMMA RemoveKeyKeepsSerialInv ==
    ASSUME KeyInv, StockInv, SerialInv, NEW r \in Orders, RemoveKey(r) PROVE SerialInv'
<1>1. /\ Goto(r, "failed") /\ SetKeyRow(r, NoRow) /\ UNCHANGED <<orders, req>>
      /\ pc[r] = "unregister" /\ pc[r] \in Claimed
  BY DEF RemoveKey, Claimed
<1>2. orders[r] = NoOrder
  BY <1>1 DEF StockInv, WorksOnItsStock
<1> QED BY <1>1, <1>2, EndsUnderKey

LEMMA OtherStepKeepsSerialInv ==
    ASSUME KeyInv, SerialInv, NEW r \in Orders,
           \/ FetchCart(r) \/ SelectKey(r) \/ ReserveStock(r) \/ ReserveThrows(r)
           \/ CreateOrderThrows(r) \/ CompleteKeyThrows(r) \/ ReleaseStock(r)
           \/ ReleaseThrows(r) \/ RemoveKeyThrows(r)
    PROVE  SerialInv'
<1>1. UNCHANGED <<keys, orders, req>>
  BY DEF FetchCart, SelectKey, ReserveStock, ReserveThrows, CreateOrderThrows,
         CompleteKeyThrows, ReleaseStock, ReleaseThrows, RemoveKeyThrows
<1>2. CASE FetchCart(r)
  BY <1>1, <1>2, MovesOnUnderKey DEF FetchCart, InFlight, Claiming, Claimed
<1>3. CASE SelectKey(r)
  <2>1. pc[r] = "select" /\ Goto(r, "insert")
    BY <1>3 DEF SelectKey, SerialInv, RowFollowsAttempt, Claiming
  <2> QED BY <1>1, <2>1, MovesOnUnderKey DEF InFlight, Claiming, Claimed
<1>4. CASE ReserveStock(r)
  BY <1>1, <1>4, MovesOnUnderKey DEF ReserveStock, InFlight, Claiming, Claimed
<1>5. CASE CreateOrderThrows(r) \/ CompleteKeyThrows(r)
  <2>1. pc[r] \in {"order", "complete"} /\ Goto(r, "release")
    BY <1>5 DEF CreateOrderThrows, CompleteKeyThrows
  <2> QED BY <1>1, <2>1, MovesOnUnderKey DEF InFlight, Claiming, Claimed
<1>6. CASE ReleaseStock(r)
  BY <1>1, <1>6, MovesOnUnderKey DEF ReleaseStock, InFlight, Claiming, Claimed
<1>7. CASE ReserveThrows(r) \/ ReleaseThrows(r) \/ RemoveKeyThrows(r)
  <2>1. Goto(r, "failed")
    BY <1>7 DEF ReserveThrows, ReleaseThrows, RemoveKeyThrows
  <2> QED BY <1>1, <2>1, MovesOnUnderKey DEF InFlight, Claiming, Claimed
<1> QED BY <1>2, <1>3, <1>4, <1>5, <1>6, <1>7

LEMMA CrashKeepsSerialInv ==
    ASSUME KeyInv, SerialInv, Crash PROVE SerialInv'
<1>1. /\ \A r \in Orders : pc'[r] = pc[r] \/ pc'[r] = "dead"
      /\ UNCHANGED <<keys, orders, req>>
  BY DEF Crash
<1>2. "dead" \notin InFlight \cup Claiming \cup Claimed
  BY DEF InFlight, Claiming, Claimed
<1>3. \A x, y \in Orders : /\ SameKey(x, y)' <=> SameKey(x, y)
                           /\ KeyRow(x)' = KeyRow(x)
  BY <1>1 DEF SameKey, KeyRow
<1>4. OneAttemptPerKey' /\ RowFollowsAttempt'
  BY <1>1, <1>2, <1>3 DEF SerialInv, OneAttemptPerKey, RowFollowsAttempt
<1>5. OrderKeepsItsKey' /\ AttemptIsOnlyOrder' /\ AtMostOneOrderPerKey'
  BY <1>1, <1>2, <1>3 DEF SerialInv, OrderKeepsItsKey, AttemptIsOnlyOrder,
                          AtMostOneOrderPerKey
<1> QED BY <1>4, <1>5 DEF SerialInv

LEMMA NextKeepsSerialInv ==
    ASSUME ~Overlap
    PROVE  KeyInv /\ StockInv /\ SerialInv /\ [CheckoutNext]_checkoutVars => SerialInv'
<1> SUFFICES ASSUME KeyInv, StockInv, SerialInv, [CheckoutNext]_checkoutVars
             PROVE  SerialInv'
  OBVIOUS
<1>1. ASSUME NEW r \in Orders, Send(r) \/ CheckoutStep(r) PROVE SerialInv'
  BY <1>1, SendKeepsSerialInv, CheckKeyKeepsSerialInv, InsertKeyKeepsSerialInv,
     CreateOrderKeepsSerialInv, CompleteKeyKeepsSerialInv, RemoveKeyKeepsSerialInv,
     OtherStepKeepsSerialInv
     DEF CheckoutStep
<1>2. CASE Crash
  BY <1>2, CrashKeepsSerialInv
<1>3. CASE \/ \E u \in Users : EditCart(u)
           \/ \E p \in Products, d \in Deltas : Restock(p, d)
           \/ UNCHANGED checkoutVars
  <2>1. UNCHANGED <<keys, orders, pc, req>>
    BY <1>3 DEF EditCart, Restock, checkoutVars, requestVars
  <2>2. \A x, y \in Orders : /\ SameKey(x, y)' <=> SameKey(x, y)
                             /\ KeyRow(x)' = KeyRow(x)
    BY <2>1 DEF SameKey, KeyRow
  <2> QED BY <2>1, <2>2 DEF SerialInv, OneAttemptPerKey, RowFollowsAttempt,
                            OrderKeepsItsKey, AttemptIsOnlyOrder, AtMostOneOrderPerKey
<1> QED BY <1>1, <1>2, <1>3 DEF CheckoutNext

LEMMA SerialInvariant ==
    ASSUME ~Overlap, "complete" \notin Faults
    PROVE  CheckoutSpec => []SerialInv
BY InitSerialInv, NextKeepsSerialInv, KeyInvariant, StockInvariant, PTL DEF CheckoutSpec

(* No duplicate orders: whatever else fails, also the process, a key that  *)
(* is sent one request at a time leads to one order at most.               *)
THEOREM NoDuplicateOrders ==
    ASSUME ~Overlap, "complete" \notin Faults
    PROVE  CheckoutSpec => []AtMostOneOrderPerKey
<1>1. SerialInv => AtMostOneOrderPerKey
  BY DEF SerialInv
<1> QED BY <1>1, SerialInvariant, PTL

(* While a checkout reserves and orders, its key is on the table.          *)
THEOREM KeysAreRegistered ==
    ASSUME ~Overlap, "complete" \notin Faults
    PROVE  CheckoutSpec => []KeyGuardsItsRequest
<1>1. SerialInv => KeyGuardsItsRequest
  BY DEF SerialInv, RowFollowsAttempt, Claimed, KeyGuardsItsRequest
<1> QED BY <1>1, SerialInvariant, PTL

LEMMA StepKeepsResponses ==
    ASSUME KeyInv, SerialInv, CheckoutNext, NEW u \in Users, NEW k \in Keys,
           keys[u][k] \in Orders
    PROVE  keys'[u][k] = keys[u][k]
<1>1. ASSUME NEW r \in Orders, NEW row \in Orders \cup {NoRow, InProgress},
             SetKeyRow(r, row), pc[r] \in {"insert", "complete", "unregister"}
      PROVE  keys'[u][k] = keys[u][k]
  <2>1. KeyRow(r) \notin Orders
    BY <1>1 DEF SerialInv, RowFollowsAttempt, Claiming, Claimed
  <2>2. KeyRow(r) = keys[User(r)][req[r].key]
    BY KeyRowTyped DEF KeyInv
  <2>3. keys'[u][k] = IF u = User(r) /\ k = req[r].key THEN row ELSE keys[u][k]
    BY <1>1, SetKeyRowTyped DEF KeyInv
  <2> QED BY <2>1, <2>2, <2>3
<1>2. \/ keys' = keys
      \/ \E r \in Orders, row \in Orders \cup {NoRow, InProgress} :
           SetKeyRow(r, row) /\ pc[r] \in {"insert", "complete", "unregister"}
  <2>1. ASSUME NEW r \in Orders, Send(r) \/ CheckoutStep(r)
        PROVE  \/ keys' = keys
               \/ \E row \in Orders \cup {NoRow, InProgress} :
                    SetKeyRow(r, row) /\ pc[r] \in {"insert", "complete", "unregister"}
    BY <2>1 DEF Send, CheckoutStep, CheckKey, FetchCart, SelectKey, InsertKey,
                ReserveStock, ReserveThrows, CreateOrder, CreateOrderThrows, CompleteKey,
                CompleteKeyThrows, ReleaseStock, ReleaseThrows, RemoveKey, RemoveKeyThrows
  <2>2. CASE \/ Crash
             \/ \E x \in Users : EditCart(x)
             \/ \E p \in Products, d \in Deltas : Restock(p, d)
    BY <2>2 DEF Crash, EditCart, Restock
  <2> QED BY <2>1, <2>2 DEF CheckoutNext
<1> QED BY <1>1, <1>2

(* A key that has its response keeps it for good.                          *)
THEOREM ResponsesAreFinal ==
    ASSUME ~Overlap, "complete" \notin Faults
    PROVE  CheckoutSpec => ResponseIsFinal
<1>1. KeyInv /\ SerialInv /\ [CheckoutNext]_checkoutVars =>
        [\A u \in Users, k \in Keys :
           keys[u][k] \in Orders => keys'[u][k] = keys[u][k]]_checkoutVars
  BY StepKeepsResponses
<1> QED BY <1>1, KeyInvariant, SerialInvariant, PTL DEF CheckoutSpec, ResponseIsFinal

-----------------------------------------------------------------------------
(* The reserved pile is what the orders hold.                              *)

PileOf(p) == SumFunction([o \in Orders |-> hold[o][p]])

LEMMA PileStep ==
    ASSUME IsFiniteSet(Orders), StockTypeOK, NEW o \in Orders, NEW h \in [Products -> Nat],
           hold' = [hold EXCEPT ![o] = h], NEW p \in Products
    PROVE  PileOf(p) \in Int /\ PileOf(p)' = PileOf(p) + (h[p] - hold[o][p])
<1> DEFINE f == [x \in Orders |-> hold[x][p]]
           g == [x \in Orders |-> hold'[x][p]]
<1>1. /\ \A x \in Orders : hold[x][p] \in Int /\ hold'[x][p] \in Int
      /\ hold'[o][p] = h[p]
      /\ \A x \in Orders \ {o} : hold'[x][p] = hold[x][p]
  BY DEF StockTypeOK
<1>2. /\ PileOf(p) = SumFunctionOnSet(f, Orders)
      /\ PileOf(p)' = SumFunctionOnSet(g, Orders)
  BY DEF PileOf, SumFunction
<1>3. /\ \A x \in Orders : f[x] \in Int /\ g[x] \in Int
      /\ \A x \in Orders \ {o} : g[x] = f[x]
      /\ f[o] = hold[o][p] /\ g[o] = h[p]
  BY <1>1
<1> HIDE DEF f, g
<1>4. SumFunctionOnSet(f, Orders) \in Int
  BY <1>3, SumType
<1>5. SumFunctionOnSet(g, Orders) = SumFunctionOnSet(f, Orders) + (g[o] - f[o])
  BY <1>3, SumOfChanged
<1> QED BY <1>2, <1>3, <1>4, <1>5

LEMMA ReserveKeepsPile ==
    ASSUME IsFiniteSet(Orders), StockTypeOK, ReservedIsHeld,
           NEW o \in Orders, NEW b \in [Products -> Int], Reserve(o, b)
    PROVE  ReservedIsHeld'
<1> SUFFICES ASSUME NEW p \in Products PROVE stock'[p].reserved = PileOf(p)'
  BY DEF ReservedIsHeld, PileOf
<1>1. b \in [Products -> Nat] /\ hold' = [hold EXCEPT ![o] = b] /\ hold[o][p] = 0
  BY DEF Reserve, Covers, StockTypeOK, Row, NothingHeld
<1>2. stock'[p].reserved = stock[p].reserved + b[p]
  BY DEF Reserve, Move
<1>3. PileOf(p) \in Int /\ PileOf(p)' = PileOf(p) + (b[p] - hold[o][p])
  BY <1>1, PileStep
<1>4. stock[p].reserved = PileOf(p)
  BY DEF ReservedIsHeld, PileOf
<1>5. b[p] \in Nat
  BY <1>1
<1> QED BY <1>1, <1>2, <1>3, <1>4, <1>5

LEMMA ReleaseKeepsPile ==
    ASSUME IsFiniteSet(Orders), StockTypeOK, ReservedIsHeld, NEW o \in Orders, Release(o)
    PROVE  ReservedIsHeld'
<1> SUFFICES ASSUME NEW p \in Products PROVE stock'[p].reserved = PileOf(p)'
  BY DEF ReservedIsHeld, PileOf
<1>1. NothingHeld \in [Products -> Nat] /\ NothingHeld[p] = 0
  BY DEF NothingHeld
<1>2. stock'[p].reserved = stock[p].reserved + (-hold[o][p])
  BY DEF Release, Move, Negated
<1>3. PileOf(p) \in Int /\ PileOf(p)' = PileOf(p) + (NothingHeld[p] - hold[o][p])
  BY <1>1, PileStep DEF Release
<1>4. stock[p].reserved = PileOf(p)
  BY DEF ReservedIsHeld, PileOf
<1>5. hold[o][p] \in Nat
  BY DEF StockTypeOK
<1> QED BY <1>1, <1>2, <1>3, <1>4, <1>5

LEMMA NextKeepsPile ==
    ASSUME IsFiniteSet(Orders), KeyInv, ReservedIsHeld, [CheckoutNext]_checkoutVars
    PROVE  ReservedIsHeld'
<1>1. StockTypeOK
  BY DEF KeyInv, CheckoutTypeOK
<1>2. ASSUME NEW r \in Orders, ReserveStock(r) PROVE ReservedIsHeld'
  <2>1. seen[r] \in [Products -> Int]
    BY DEF KeyInv, CheckoutTypeOK, Carts
  <2> QED BY <1>1, <1>2, <2>1, ReserveKeepsPile DEF ReserveStock, ReserveItems
<1>3. ASSUME NEW r \in Orders, ReleaseStock(r) PROVE ReservedIsHeld'
  BY <1>1, <1>3, ReleaseKeepsPile DEF ReleaseStock
<1>4. ASSUME NEW p \in Products, NEW d \in Deltas, Restock(p, d) PROVE ReservedIsHeld'
  <2>1. hold' = hold /\ stock' = [stock EXCEPT ![p].available = @ + d]
    BY <1>4 DEF Restock, Adjust
  <2>2. \A x \in Products : stock'[x].reserved = stock[x].reserved
    BY <1>1, <2>1 DEF StockTypeOK, Row
  <2> QED BY <2>1, <2>2 DEF ReservedIsHeld
<1>5. CASE UNCHANGED stockVars
  BY <1>5 DEF ReservedIsHeld, stockVars
<1> QED
  BY <1>2, <1>3, <1>4, <1>5 DEF CheckoutNext, Send, CheckoutStep, CheckKey, FetchCart, SelectKey,
     InsertKey, ReserveThrows, CreateOrder, CreateOrderThrows, CompleteKey, CompleteKeyThrows,
     ReleaseThrows, RemoveKey, RemoveKeyThrows, Crash, EditCart, checkoutVars, stockVars

(* For any finite number of requests that overlap, fail and are repeated,  *)
(* the reserved quantity of a product is the sum of what the orders hold   *)
(* of it: no checkout reserves a unit for nobody or gives back another's.  *)
THEOREM ReservedIsAlwaysHeld ==
    ASSUME IsFiniteSet(Orders)
    PROVE  CheckoutSpec => []ReservedIsHeld
<1>1. CheckoutInit => ReservedIsHeld
  <2> SUFFICES ASSUME CheckoutInit, NEW p \in Products
               PROVE  stock[p].reserved = SumFunction([o \in Orders |-> hold[o][p]])
    BY DEF ReservedIsHeld
  <2> DEFINE f == [o \in Orders |-> hold[o][p]]
  <2>1. \A o \in Orders : f[o] = 0
    BY DEF CheckoutInit, StockInit, NothingHeld
  <2>2. stock[p].reserved = 0
    BY DEF CheckoutInit, StockInit
  <2>3. SumFunction(f) = SumFunctionOnSet(f, Orders)
    BY DEF SumFunction
  <2> HIDE DEF f
  <2>4. SumFunctionOnSet(f, Orders) = 0
    BY <2>1, SumOfZeros
  <2> QED BY <2>2, <2>3, <2>4 DEF f
<1>2. KeyInv /\ ReservedIsHeld /\ [CheckoutNext]_checkoutVars => ReservedIsHeld'
  BY NextKeepsPile
<1> QED BY <1>1, <1>2, KeyInvariant, PTL DEF CheckoutSpec

-----------------------------------------------------------------------------
(* Checkout as a caller of InventoryService                                *)

WholeQuantities ==
    /\ cart \in [Users -> [Products -> Nat]]
    /\ seen \in [Orders -> [Products -> Nat]]

LEMMA QuantitiesStayWhole ==
  ASSUME WholeQuantities, CheckoutTypeOK, [CheckoutNext]_checkoutVars
  PROVE  WholeQuantities'
<1>1. ASSUME NEW r \in Orders, FetchCart(r) PROVE WholeQuantities'
  <2>1. User(r) \in Users
    BY DEF CheckoutTypeOK, User
  <2> QED
    BY <1>1, <2>1 DEF FetchCart, WholeQuantities
<1>2. ASSUME NEW r \in Orders, CreateOrder(r) PROVE WholeQuantities'
  <2> DEFINE rest == [p \in Products |-> IF seen[r][p] # 0 THEN 0 ELSE cart[User(r)][p]]
  <2>1. User(r) \in Users
    BY DEF CheckoutTypeOK, User
  <2>2. rest \in [Products -> Nat]
    BY <2>1 DEF WholeQuantities
  <2>3. cart' = [cart EXCEPT ![User(r)] = rest] /\ seen' = seen
    BY <1>2 DEF CreateOrder
  <2> HIDE DEF rest
  <2> QED
    BY <2>1, <2>2, <2>3 DEF WholeQuantities
<1>3. ASSUME NEW u \in Users, EditCart(u) PROVE WholeQuantities'
  <2>1. PICK b \in Baskets \cup {NothingHeld} : cart' = [cart EXCEPT ![u] = b]
    BY <1>3 DEF EditCart
  <2>2. b \in [Products -> Nat] /\ seen' = seen
    BY <1>3, CheckoutAssumption DEF EditCart, requestVars, NothingHeld
  <2> QED
    BY <2>1, <2>2 DEF WholeQuantities
<1>4. CASE UNCHANGED <<cart, seen>>
  BY <1>4 DEF WholeQuantities
<1> QED
  BY <1>1, <1>2, <1>3, <1>4 DEF CheckoutNext, CheckoutStep, Send, CheckKey, SelectKey, InsertKey,
     ReserveStock, ReserveThrows, CreateOrderThrows, CompleteKey, CompleteKeyThrows,
     ReleaseStock, ReleaseThrows, RemoveKey, RemoveKeyThrows, Crash, Restock, checkoutVars,
     requestVars

(* All that checkouts do to the stock are calls of InventoryService, each  *)
(* with a basket that the service accepts: what Inventory shows of Stock   *)
(* is shown of what they see.                                              *)
THEOREM CheckoutCallsStock ==
    ASSUME Baskets = [Products -> Nat]
    PROVE  CheckoutSpec => StockSpec
<1>1. CheckoutInit => StockInit /\ WholeQuantities
  BY DEF CheckoutInit, WholeQuantities, NothingHeld
<1>2. WholeQuantities /\ [CheckoutNext]_checkoutVars => [StockNext]_stockVars
  <2> SUFFICES ASSUME WholeQuantities, [CheckoutNext]_checkoutVars
               PROVE  [StockNext]_stockVars
    OBVIOUS
  <2>1. ASSUME NEW r \in Orders, ReserveStock(r) PROVE StockNext
    BY <2>1 DEF ReserveStock, ReserveItems, WholeQuantities, StockNext
  <2>2. ASSUME NEW r \in Orders, ReleaseStock(r) PROVE StockNext
    BY <2>2 DEF ReleaseStock, StockNext
  <2>3. ASSUME NEW p \in Products, NEW d \in Deltas, Restock(p, d) PROVE StockNext
    BY <2>3 DEF Restock, StockNext
  <2>4. ASSUME NEW r \in Orders,
               \/ Send(r) \/ CheckKey(r) \/ FetchCart(r) \/ SelectKey(r) \/ InsertKey(r)
               \/ ReserveThrows(r) \/ CreateOrder(r) \/ CreateOrderThrows(r) \/ CompleteKey(r)
               \/ CompleteKeyThrows(r) \/ ReleaseThrows(r) \/ RemoveKey(r) \/ RemoveKeyThrows(r)
        PROVE  UNCHANGED stockVars
    BY <2>4 DEF Send, CheckKey, FetchCart, SelectKey, InsertKey, ReserveThrows, CreateOrder,
       CreateOrderThrows, CompleteKey, CompleteKeyThrows, ReleaseThrows, RemoveKey, RemoveKeyThrows
  <2>5. CASE Crash \/ (\E u \in Users : EditCart(u)) \/ UNCHANGED checkoutVars
    BY <2>5 DEF Crash, EditCart, checkoutVars, stockVars
  <2> QED
    BY <2>1, <2>2, <2>3, <2>4, <2>5 DEF CheckoutNext, CheckoutStep
<1>3. CheckoutSpec => []WholeQuantities
  BY <1>1, QuantitiesStayWhole, KeyInvariant, PTL DEF CheckoutSpec, KeyInv
<1> QED
  BY <1>1, <1>2, <1>3, PTL DEF CheckoutSpec, StockSpec

(* Checkout keeps the protocol that Inventory assumes of its callers, also *)
(* when requests overlap, fail and are repeated.                           *)
THEOREM CheckoutKeepsProtocol == CheckoutSpec => CallersProtocol
<1> DEFINE Keeps == \A r \in Orders :
             /\ Phase(r)' >= Phase(r)
             /\ hold'[r] # hold[r] =>
                  \/ Phase(r) = 0 /\ Phase(r)' = 1 /\ Reserve(r, seen[r])
                  \/ Phase(r) = 1 /\ Phase(r)' = 2 /\ hold[r] = seen[r] /\ Release(r)
<1>1. CheckoutInit => HoldsWhatItRead
  BY DEF CheckoutInit, HoldsWhatItRead
<1>2. ASSUME KeyInv, HoldsWhatItRead, [CheckoutNext]_checkoutVars, NEW r \in Orders
      PROVE  /\ Phase(r)' >= Phase(r)
             /\ hold'[r] # hold[r] =>
                  \/ Phase(r) = 0 /\ Phase(r)' = 1 /\ Reserve(r, seen[r])
                  \/ Phase(r) = 1 /\ Phase(r)' = 2 /\ hold[r] = seen[r] /\ Release(r)
  <2>0. r \in DOMAIN pc /\ r \in DOMAIN hold
    BY <1>2 DEF KeyInv, CheckoutTypeOK, StockTypeOK
  <2>1. ASSUME NEW x \in Orders, Send(x) \/ CheckoutStep(x), x # r
        PROVE  Phase(r)' = Phase(r) /\ hold'[r] = hold[r]
    <3>1. pc'[r] = pc[r] /\ hold'[r] = hold[r]
      BY <1>2, <2>1 DEF Send, CheckoutStep, CheckKey, FetchCart, SelectKey, InsertKey, ReserveStock,
         ReserveThrows, CreateOrder, CreateOrderThrows, CompleteKey, CompleteKeyThrows,
         ReleaseStock, ReleaseThrows, RemoveKey, RemoveKeyThrows, Goto, stockVars,
         Reserve, Release, KeyInv, CheckoutTypeOK, StockTypeOK
    <3> QED
      BY <3>1 DEF Phase
  <2>2. CASE \/ Send(r) \/ CheckKey(r) \/ FetchCart(r) \/ SelectKey(r) \/ InsertKey(r)
            \/ ReserveThrows(r) \/ CreateOrder(r) \/ CreateOrderThrows(r) \/ CompleteKey(r)
            \/ CompleteKeyThrows(r) \/ ReleaseThrows(r) \/ RemoveKey(r) \/ RemoveKeyThrows(r)
    BY <2>0, <2>2 DEF Send, CheckKey, FetchCart, SelectKey, InsertKey, ReserveThrows, CreateOrder,
       CreateOrderThrows, CompleteKey, CompleteKeyThrows, ReleaseThrows, RemoveKey,
       RemoveKeyThrows, Goto, stockVars, Phase, BeforeReserving
  <2>3. CASE ReserveStock(r)
    BY <2>0, <2>3 DEF ReserveStock, ReserveItems, Goto, Phase, BeforeReserving
  <2>4. CASE ReleaseStock(r)
    BY <1>2, <2>0, <2>4 DEF ReleaseStock, HoldsWhatItRead, Goto, Phase, BeforeReserving
  <2>5. CASE Crash
    BY <1>2, <2>0, <2>5 DEF Crash, stockVars, InFlight, Phase, BeforeReserving
  <2>6. CASE \/ \E u \in Users : EditCart(u)
             \/ \E p \in Products, d \in Deltas : Restock(p, d)
             \/ UNCHANGED checkoutVars
    <3>1. UNCHANGED <<pc, hold>>
      BY <2>6 DEF EditCart, Restock, Adjust, checkoutVars, stockVars, requestVars
    <3> QED
      BY <3>1 DEF Phase
  <2>7. ASSUME NEW x \in Orders, Send(x) \/ CheckoutStep(x)
        PROVE  /\ Phase(r)' >= Phase(r)
               /\ hold'[r] # hold[r] =>
                    \/ Phase(r) = 0 /\ Phase(r)' = 1 /\ Reserve(r, seen[r])
                    \/ Phase(r) = 1 /\ Phase(r)' = 2 /\ hold[r] = seen[r] /\ Release(r)
    <3>1. CASE x = r
      BY <2>2, <2>3, <2>4, <2>7, <3>1 DEF CheckoutStep
    <3>2. CASE x # r
      <4>1. Phase(r)' = Phase(r) /\ hold'[r] = hold[r]
        BY <2>1, <2>7, <3>2
      <4>2. Phase(r) \in {0, 1, 2}
        BY DEF Phase
      <4> QED
        BY <4>1, <4>2
    <3> QED
      BY <3>1, <3>2
  <2> QED
    BY <1>2, <2>5, <2>6, <2>7 DEF CheckoutNext
<1>3. KeyInv /\ HoldsWhatItRead /\ [CheckoutNext]_checkoutVars => [Keeps]_checkoutVars
  BY <1>2
<1> QED
  BY <1>1, <1>3, NextHoldsWhatItRead, KeyInvariant, PTL DEF CheckoutSpec, CallersProtocol
=============================================================================
