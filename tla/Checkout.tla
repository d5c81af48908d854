------------------------------ MODULE Checkout ------------------------------
(***************************************************************************)
(* OrdersService.checkout (src/orders/orders.service.ts): concurrent and   *)
(* repeated requests, the idempotency keys they register, the carts they   *)
(* empty, and the stock they reserve through InventoryService, whose       *)
(* promise is Stock.                                                       *)
(*                                                                         *)
(* A step is what happens between two awaits: a statement or a database    *)
(* transaction.  A request is named by the order id that it draws          *)
(* (crypto.randomUUID), so an order's id is the request that created it.   *)
(***************************************************************************)
EXTENDS Stock

CONSTANTS
    Users,
    Keys,           \* dto.idempotency_key
    Faults,         \* the calls that may throw, see FaultPoints
    Overlap,        \* may a client send a key again before it was answered?
    MaxStock,       \* bound: nobody restocks a product beyond this
    NoRow,          \* a key that has no row
    InProgress,     \* a row without a response
    NoOrder         \* no such order

FaultPoints == {"reserve", "order", "complete", "release", "unregister", "crash"}

ASSUME CheckoutAssumption ==
    /\ Faults \subseteq FaultPoints
    /\ Baskets \subseteq [Products -> Nat]
    /\ Overlap \in BOOLEAN
    /\ MaxStock \in Nat

VARIABLES
    keys,           \* idempotency_keys, by user and key
    cart,           \* the user's cart_items: a quantity for every product
    orders,         \* the orders table
    pc,             \* where a request stands
    req,            \* whose request it is, and its key
    seen,           \* the cart as the request read it
    answer          \* the order a request was answered with

requestVars == <<pc, req, seen, answer>>
checkoutVars == <<stock, hold, keys, cart, orders, requestVars>>

InFlight == {"check", "cart", "select", "insert", "reserve", "order", "complete",
             "release", "unregister"}
Answered == {"done", "refused", "failed"}

Carts == [Products -> Int]
OrderRecords == [user : Users, items : Carts]

ASSUME NamesAssumption ==
    /\ Orders \cap {NoRow, InProgress, NoOrder} = {}
    /\ NoRow # InProgress
    /\ NoOrder \notin OrderRecords

CheckoutTypeOK ==
    /\ StockTypeOK
    /\ keys \in [Users -> [Keys -> Orders \cup {NoRow, InProgress}]]
    /\ cart \in [Users -> Carts]
    /\ orders \in [Orders -> OrderRecords \cup {NoOrder}]
    /\ pc \in [Orders -> {"idle", "dead"} \cup InFlight \cup Answered]
    /\ req \in [Orders -> [user : Users, key : Keys]]
    /\ seen \in [Orders -> Carts]
    /\ answer \in [Orders -> Orders \cup {NoOrder}]

CheckoutInit ==
    /\ StockInit
    /\ \A p \in Products : stock[p].available <= MaxStock
    /\ keys = [u \in Users |-> [k \in Keys |-> NoRow]]
    /\ cart = [u \in Users |-> NothingHeld]
    /\ orders = [o \in Orders |-> NoOrder]
    /\ pc = [r \in Orders |-> "idle"]
    /\ req \in [Orders -> [user : Users, key : Keys]]
    /\ seen = [r \in Orders |-> NothingHeld]
    /\ answer = [r \in Orders |-> NoOrder]

-----------------------------------------------------------------------------

User(r) == req[r].user
KeyRow(r) == keys[req[r].user][req[r].key]
SameKey(r, s) == req[r] = req[s]

SetKeyRow(r, row) == keys' = [keys EXCEPT ![req[r].user][req[r].key] = row]

Goto(r, label) == pc' = [pc EXCEPT ![r] = label]

(* The client posts /orders/checkout.  Unless clients overlap, it repeats  *)
(* a key only after the earlier request was answered or its process died.  *)
Send(r) ==
    /\ pc[r] = "idle"
    /\ Overlap \/ \A s \in Orders : SameKey(r, s) => pc[s] \notin InFlight
    /\ Goto(r, "check")
    /\ UNCHANGED <<stockVars, keys, cart, orders, req, seen, answer>>

CompletedKey(r) ==                \* mutant: only completed keys are found
    IF KeyRow(r) = InProgress THEN NoRow ELSE KeyRow(r)
KeyNeverFound(r) == NoRow         \* mutant: no idempotency check
KeyOfAnyUser(r) ==                \* mutant: looked up by key alone
    LET rows == {keys[u][req[r].key] : u \in Users} \ {NoRow}
    IN  IF rows = {} THEN NoRow ELSE CHOOSE row \in rows : TRUE

(* 1. Idempotency check: the row findOne returns, by user and key.         *)
ExistingKey(r) == KeyRow(r)

CheckKey(r) ==
    /\ pc[r] = "check"
    /\ \/ /\ ExistingKey(r) \in Orders
          /\ answer' = [answer EXCEPT ![r] = ExistingKey(r)]
          /\ Goto(r, "done")
       \/ /\ ExistingKey(r) = InProgress
          /\ Goto(r, "refused")
          /\ UNCHANGED answer
       \/ /\ ExistingKey(r) = NoRow
          /\ Goto(r, "cart")
          /\ UNCHANGED answer
    /\ UNCHANGED <<stockVars, keys, cart, orders, req, seen>>

(* 2. Fetch and price the cart.  An empty cart is refused, and pricing     *)
(* refuses any cart with an inactive product or a coupon that has expired. *)
FetchCart(r) ==
    /\ pc[r] = "cart"
    /\ \/ /\ cart[User(r)] # NothingHeld
          /\ seen' = [seen EXCEPT ![r] = cart[User(r)]]
          /\ Goto(r, "select")
       \/ /\ Goto(r, "refused")
          /\ UNCHANGED seen
    /\ UNCHANGED <<stockVars, keys, cart, orders, req, answer>>

(* 3. Register the key.  The repository's save() selects the row by its    *)
(* primary key and inserts it only if it is missing; a row that is there   *)
(* has nothing to update, and the request goes on as if it had inserted it.*)
SelectKey(r) ==
    /\ pc[r] = "select"
    /\ Goto(r, IF KeyRow(r) = NoRow THEN "insert" ELSE "reserve")
    /\ UNCHANGED <<stockVars, keys, cart, orders, req, seen, answer>>

KeyNotSaved(r) ==                 \* mutant: create() without save()
    /\ pc[r] = "insert"
    /\ Goto(r, "reserve")
    /\ UNCHANGED <<stockVars, keys, cart, orders, req, seen, answer>>

(* The insert hits the primary key if another request inserted meanwhile.  *)
InsertKey(r) ==
    /\ pc[r] = "insert"
    /\ \/ /\ KeyRow(r) = NoRow
          /\ SetKeyRow(r, InProgress)
          /\ Goto(r, "reserve")
       \/ /\ KeyRow(r) # NoRow
          /\ Goto(r, "failed")
          /\ UNCHANGED keys
    /\ UNCHANGED <<stockVars, cart, orders, req, seen, answer>>

ItemsNow(r) == cart[User(r)]              \* mutant: the cart is read again

(* 4. Reserve what the cart held when it was read.  This call is before    *)
(* the try block: when it throws, nothing is cleaned up.                   *)
ReserveItems(r) == seen[r]

ReserveStock(r) ==
    /\ pc[r] = "reserve"
    /\ Reserve(r, ReserveItems(r))
    /\ Goto(r, "order")
    /\ UNCHANGED <<keys, cart, orders, req, seen, answer>>

ReserveThrows(r) ==
    /\ pc[r] = "reserve"
    /\ ~Covers(ReserveItems(r)) \/ "reserve" \in Faults
    /\ Goto(r, "failed")
    /\ UNCHANGED <<stockVars, keys, cart, orders, req, seen, answer>>

(* 5. One transaction: the order, its items and address, and the rows that *)
(* were read are deleted from the cart, whatever is in them by now.        *)
CreateOrder(r) ==
    /\ pc[r] = "order"
    /\ orders' = [orders EXCEPT ![r] = [user |-> User(r), items |-> seen[r]]]
    /\ cart' = [cart EXCEPT ![User(r)] =
                  [p \in Products |-> IF seen[r][p] # 0 THEN 0 ELSE cart[User(r)][p]]]
    /\ Goto(r, "complete")
    /\ UNCHANGED <<stockVars, keys, req, seen, answer>>

CreateOrderThrows(r) ==
    /\ pc[r] = "order"
    /\ "order" \in Faults
    /\ Goto(r, "release")
    /\ UNCHANGED <<stockVars, keys, cart, orders, req, seen, answer>>

(* 6. Store the order as the key's response.  Still inside the try block.  *)
CompleteKey(r) ==
    /\ pc[r] = "complete"
    /\ SetKeyRow(r, r)
    /\ answer' = [answer EXCEPT ![r] = r]
    /\ Goto(r, "done")
    /\ UNCHANGED <<stockVars, cart, orders, req, seen>>

CompleteKeyThrows(r) ==
    /\ pc[r] = "complete"
    /\ "complete" \in Faults
    /\ Goto(r, "release")
    /\ UNCHANGED <<stockVars, keys, cart, orders, req, seen, answer>>

(* The catch block: release the stock, delete the key's row, rethrow.      *)
ReleaseStock(r) ==
    /\ pc[r] = "release"
    /\ Release(r)
    /\ Goto(r, "unregister")
    /\ UNCHANGED <<keys, cart, orders, req, seen, answer>>

ReleaseThrows(r) ==
    /\ pc[r] = "release"
    /\ "release" \in Faults
    /\ Goto(r, "failed")
    /\ UNCHANGED <<stockVars, keys, cart, orders, req, seen, answer>>

RemoveKey(r) ==
    /\ pc[r] = "unregister"
    /\ SetKeyRow(r, NoRow)
    /\ Goto(r, "failed")
    /\ UNCHANGED <<stockVars, cart, orders, req, seen, answer>>

CatchAgain(r) ==                  \* mutant: the whole catch block is run again
    /\ pc[r] = "unregister"
    /\ "unregister" \in Faults
    /\ Goto(r, "release")
    /\ UNCHANGED <<stockVars, keys, cart, orders, req, seen, answer>>

RemoveKeyThrows(r) ==
    /\ pc[r] = "unregister"
    /\ "unregister" \in Faults
    /\ Goto(r, "failed")
    /\ UNCHANGED <<stockVars, keys, cart, orders, req, seen, answer>>

CheckoutStep(r) ==
    \/ CheckKey(r) \/ FetchCart(r) \/ SelectKey(r) \/ InsertKey(r)
    \/ ReserveStock(r) \/ ReserveThrows(r)
    \/ CreateOrder(r) \/ CreateOrderThrows(r)
    \/ CompleteKey(r) \/ CompleteKeyThrows(r)
    \/ ReleaseStock(r) \/ ReleaseThrows(r)
    \/ RemoveKey(r) \/ RemoveKeyThrows(r)

(* The process dies with every request it was serving; the tables stay.    *)
Crash ==
    /\ "crash" \in Faults
    /\ \E r \in Orders : pc[r] \in InFlight
    /\ pc' = [r \in Orders |-> IF pc[r] \in InFlight THEN "dead" ELSE pc[r]]
    /\ UNCHANGED <<stockVars, keys, cart, orders, req, seen, answer>>

(* A user edits the cart at any moment, also during a checkout.            *)
EditCart(u) ==
    /\ \E b \in Baskets \cup {NothingHeld} : cart' = [cart EXCEPT ![u] = b]
    /\ UNCHANGED <<stockVars, keys, orders, requestVars>>

(* An administrator adjusts a product's stock.                             *)
Restock(p, d) ==
    /\ stock[p].available + d <= MaxStock
    /\ Adjust(p, d)
    /\ UNCHANGED <<keys, cart, orders, requestVars>>

CheckoutNext ==
    \/ \E r \in Orders : Send(r) \/ CheckoutStep(r)
    \/ Crash
    \/ \E u \in Users : EditCart(u)
    \/ \E p \in Products, d \in Deltas : Restock(p, d)

CheckoutSpec == CheckoutInit /\ [][CheckoutNext]_checkoutVars

-----------------------------------------------------------------------------

(* An order that was created holds exactly the stock of its items: "Order  *)
(* created but inventory not deducted" is what must never happen.          *)
OrderHoldsStock ==
    \A o \in Orders : orders[o] # NoOrder => hold[o] = orders[o].items

(* releaseInventory replays the RESERVE movements of an order each time it *)
(* is called.  A checkout calls it only with its own reservation in place  *)
(* and whole, so no unit goes back on the shelf twice.                     *)
ReleasesItsReservation ==
    \A r \in Orders :
        pc[r] = "release" => hold[r] # NothingHeld /\ hold[r] = seen[r]

(* A client is only ever answered with an order that exists and that its   *)
(* own user placed under the same key.                                     *)
AnswerIsOwnOrder ==
    \A r \in Orders :
        pc[r] = "done" => /\ answer[r] \in Orders
                          /\ orders[answer[r]] # NoOrder
                          /\ orders[answer[r]].user = User(r)
                          /\ SameKey(answer[r], r)

(* Submitting the same key again never results in a second order.          *)
AtMostOneOrderPerKey ==
    \A o1, o2 \in Orders :
        orders[o1] # NoOrder /\ orders[o2] # NoOrder /\ SameKey(o1, o2) => o1 = o2

(* A key that has its response keeps it: every repetition is answered with *)
(* the same order from then on.                                            *)
ResponseIsFinal ==
    [][\A u \in Users, k \in Keys :
         keys[u][k] \in Orders => keys'[u][k] = keys[u][k]]_checkoutVars

(* A key is taken off the table only by the request that failed under it,  *)
(* never under one that is still reserving or ordering.                    *)
KeyGuardsItsRequest ==
    \A r \in Orders :
        pc[r] \in {"reserve", "order", "complete"} => KeyRow(r) # NoRow

(* How far a request has come with its order id: nothing reserved yet, its *)
(* reservation still its own to give back, or neither any more.            *)
BeforeReserving == {"idle", "check", "cart", "select", "insert", "reserve"}
Phase(r) ==
    IF pc[r] \in BeforeReserving THEN 0
    ELSE IF pc[r] \in {"order", "complete", "release"} THEN 1 ELSE 2

(* releaseInventory would give back an order's reservation as often as it  *)
(* is called, so that Inventory assumes a protocol of its callers: for an  *)
(* order id they reserve at most once, then give back at most once what    *)
(* was reserved, and a call that has failed is not repeated.               *)
CallersProtocol ==
    [][\A r \in Orders :
         /\ Phase(r)' >= Phase(r)
         /\ hold'[r] # hold[r] =>
              \/ Phase(r) = 0 /\ Phase(r)' = 1 /\ Reserve(r, seen[r])
              \/ Phase(r) = 1 /\ Phase(r)' = 2 /\ hold[r] = seen[r] /\ Release(r)]_checkoutVars
=============================================================================
