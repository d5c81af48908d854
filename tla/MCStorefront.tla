---------------------------- MODULE MCStorefront ----------------------------
(***************************************************************************)
(* Small instances of Cart, and with it of Catalog and Pricing, for TLC.   *)
(***************************************************************************)
EXTENDS Cart, TLC

CONSTANTS laptop, phone, electronics, laptops, patient, hasty, c1

MCWish(u, op, quantity) ==
    [user |-> u, op |-> op, product |-> laptop, coupon |-> c1, quantity |-> quantity]

MCWishes ==
    {MCWish(u, op, 1) : u \in {patient, hasty},
                        op \in {"get", "add", "drop", "apply", "unapply", "checkout"}}
    \cup {MCWish(u, "set", 2) : u \in {patient, hasty}}

MCStartingCarts == {[p \in Products |-> IF p = laptop THEN 1 ELSE 0]}

MCPrices == {50, 100}
MCTerms == {[type |-> "PERCENTAGE", amount |-> 58, limit |-> 1],
            [type |-> "FIXED", amount |-> 70, limit |-> NoLimit]}
(* 50 * (58 / 100) and so on, in IEEE double precision.                  *)
MCRoundedDown == {50, 100, 200, 400} \X {58}

(* Who is at work in a run: the administrators of the catalog alone; one   *)
(* administrator who has read the laptop to update or remove it, one of    *)
(* the coupons, and two requests of a customer; three requests of a        *)
(* customer alone; or two administrators who have read the laptop, and a   *)
(* visitor who looks at the listing.                                       *)
Working(errands, requests) ==
    /\ errand = [a \in Errands |-> [NewErrand EXCEPT !.step = IF a \in errands THEN "idle" ELSE "done"]]
    /\ pc = [r \in Requests |-> IF r \in requests THEN "idle" ELSE "never"]
    /\ \E u \in Users : /\ wish \in [Requests -> {w \in MCWishes : w.user = u}]
                       /\ opened \in SUBSET {u}
    /\ \A r \in Requests \ requests : wish[r].op = "get"

NoTask == [NewTask EXCEPT !.step = "done"]
Looking(step) ==
    /\ cached = {}
    /\ visitor = [v \in Visitors |-> [step |-> step, shown |-> {}]]

Administration ==
    /\ Empty \/ Seeded
    /\ task = [t \in Tasks |-> NewTask]
    /\ Looking("gone")
    /\ Working({}, {})
    /\ opened = {} /\ coupon = [c \in Coupons |-> Absent]

Laptop(price, active) ==
    [category |-> laptops, price |-> price, active |-> active, removed |-> FALSE]
OnTheShelf == Seeded /\ product[laptop] = Laptop(50, TRUE)

Changes ==
    {[NewTask EXCEPT !.step = "remove", !.id = laptop]} \cup
    {[NewTask EXCEPT !.step = "save product", !.id = laptop, !.row = Laptop(100, active)] :
       active \in BOOLEAN}

Change ==
    /\ OnTheShelf
    /\ \E t \in Tasks, change \in Changes :
         task = [s \in Tasks |-> IF s = t THEN change ELSE NoTask]
    /\ Looking("gone")
    /\ \E r1, r2 \in Requests : r1 # r2 /\ Working(Errands, {r1, r2})
    /\ \A r \in Requests : pc[r] = "idle" => wish[r].op # "get"

Rush ==
    /\ OnTheShelf
    /\ task = [t \in Tasks |-> NoTask]
    /\ Looking("gone")
    /\ Working({}, Requests)

Browsing ==
    /\ OnTheShelf
    /\ task \in [Tasks -> Changes]
    /\ Looking("idle")
    /\ Working({}, {})
    /\ opened = {} /\ coupon = [c \in Coupons |-> Absent]

MCInit ==
    /\ Administration \/ Change \/ Rush \/ Browsing
    /\ CartStart

MCSpec == MCInit /\ [][CartNext]_storeVars

MCSymmetry == Permutations(Tasks) \cup Permutations(Requests)
=============================================================================
