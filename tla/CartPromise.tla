---------------------------- MODULE CartPromise ----------------------------
(***************************************************************************)
(* What a customer who waits for each answer may expect of a cart: every   *)
(* request takes effect at one instant, once, and on what the cart then    *)
(* holds, or is refused and changes nothing.  (An answer that cannot be    *)
(* priced any more does not take the effect back: that request is granted.)*)
(***************************************************************************)
EXTENDS Integers

CONSTANTS Users, Products, Requests, NoCoupon

VARIABLES
    basket,    \* a user's quantities
    picked,    \* a user's coupon
    wish,      \* what a request asks for
    outcome,   \* "open", "granted" or "denied"
    bought     \* the quantities that a checkout has ordered

promiseVars == <<basket, picked, wish, outcome, bought>>

NothingIn == [p \in Products |-> 0]

PromiseInit ==
    /\ outcome = [r \in Requests |-> "open"]
    /\ bought = [r \in Requests |-> NothingIn]

Sets(u, p, quantity) == basket' = [basket EXCEPT ![u][p] = quantity]
Holds(u, p) == basket[u][p] > 0

Effect(r) ==
    LET w == wish[r]
        u == w.user
    IN
    \/ /\ w.op = "get"
       /\ UNCHANGED <<basket, picked, bought>>
    \/ /\ w.op = "add"
       /\ Sets(u, w.product, basket[u][w.product] + w.quantity)
       /\ UNCHANGED <<picked, bought>>
    \/ /\ w.op = "set" /\ Holds(u, w.product)
       /\ Sets(u, w.product, w.quantity)
       /\ UNCHANGED <<picked, bought>>
    \/ /\ w.op = "drop" /\ Holds(u, w.product)
       /\ Sets(u, w.product, 0)
       /\ UNCHANGED <<picked, bought>>
    \/ /\ w.op = "apply"
       /\ picked' = [picked EXCEPT ![u] = w.coupon]
       /\ UNCHANGED <<basket, bought>>
    \/ /\ w.op = "unapply"
       /\ picked' = [picked EXCEPT ![u] = NoCoupon]
       /\ UNCHANGED <<basket, bought>>
    \/ /\ w.op = "checkout" /\ basket[u] # NothingIn
       /\ bought' = [bought EXCEPT ![r] = basket[u]]
       /\ basket' = [basket EXCEPT ![u] = NothingIn]
       /\ picked' = [picked EXCEPT ![u] = NoCoupon]

Grant(r) ==
    /\ outcome[r] = "open"
    /\ outcome' = [outcome EXCEPT ![r] = "granted"]
    /\ Effect(r)
    /\ UNCHANGED wish

Deny(r) ==
    /\ outcome[r] = "open"
    /\ outcome' = [outcome EXCEPT ![r] = "denied"]
    /\ UNCHANGED <<basket, picked, wish, bought>>

PromiseNext == \E r \in Requests : Grant(r) \/ Deny(r)

PromiseSpec == PromiseInit /\ [][PromiseNext]_promiseVars
=============================================================================
