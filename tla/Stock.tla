------------------------------- MODULE Stock -------------------------------
(***************************************************************************)
(* What InventoryService promises its callers, stripped of rows, locks and *)
(* transactions: every call takes effect at one instant, on all products   *)
(* of the order or on none.  `stock' is the inventory table, `hold' is     *)
(* what an order has reserved and nobody has released or deducted yet.     *)
(* Inventory.tla shows that the service's row-by-row transactions          *)
(* implement this; Checkout.tla builds on it.                              *)
(***************************************************************************)
EXTENDS Integers, Functions

CONSTANTS
    Products,       \* product ids, named by their rank in localeCompare order
    Orders,         \* order ids passed as reserveInventory's orderId
    Baskets,        \* item lists a caller may ask for: [Products -> Int]
    Deltas,         \* changes of available stock an administrator may make
    StartingStock   \* available quantities the table may start with

ASSUME StockAssumption ==
    /\ Products \subseteq Nat
    /\ Baskets \subseteq [Products -> Int]
    /\ Deltas \subseteq Int
    /\ StartingStock \subseteq [Products -> Nat]

VARIABLES stock, hold

stockVars == <<stock, hold>>

Row == [available : Nat, reserved : Int]

NothingHeld == [p \in Products |-> 0]

StockTypeOK ==
    /\ stock \in [Products -> Row]
    /\ hold \in [Orders -> [Products -> Nat]]

StockInit ==
    /\ \E f \in StartingStock :
         stock = [p \in Products |-> [available |-> f[p], reserved |-> 0]]
    /\ hold = [o \in Orders |-> NothingHeld]

(* Move units between the shelf and the reserved pile of every product.    *)
Move(shelf, pile) ==
    [p \in Products |-> [available |-> stock[p].available + shelf[p],
                         reserved  |-> stock[p].reserved + pile[p]]]

Negated(f) == [p \in Products |-> -f[p]]

CoversAnyAmount(b) == \A p \in Products : b[p] >= 0      \* mutant: no check

(* reserveInventory: the whole basket or an exception.  A quantity of zero *)
(* in a basket means the product is not in it.                             *)
Covers(b) == \A p \in Products : b[p] \in 0..stock[p].available

Reserve(o, b) ==
    /\ hold[o] = NothingHeld
    /\ Covers(b)
    /\ stock' = Move(Negated(b), b)
    /\ hold' = [hold EXCEPT ![o] = b]

ReleaseShelfOnly(o) ==           \* mutant: the reserved pile is forgotten
    /\ stock' = Move(hold[o], NothingHeld)
    /\ hold' = [hold EXCEPT ![o] = NothingHeld]

(* releaseInventory: what the order holds goes back on the shelf.          *)
Release(o) ==
    /\ stock' = Move(hold[o], Negated(hold[o]))
    /\ hold' = [hold EXCEPT ![o] = NothingHeld]

(* deductInventory: what the order holds leaves the warehouse.             *)
Deduct(o) ==
    /\ stock' = Move(NothingHeld, Negated(hold[o]))
    /\ hold' = [hold EXCEPT ![o] = NothingHeld]

(* adjustInventory: only the available quantity of one product moves, and  *)
(* the table's CHECK constraint keeps it from going below zero.            *)
Adjust(p, d) ==
    /\ stock[p].available + d >= 0
    /\ stock' = [stock EXCEPT ![p].available = @ + d]
    /\ UNCHANGED hold

StockNext ==
    \/ \E o \in Orders : \/ \E b \in Baskets : Reserve(o, b)
                         \/ Release(o)
                         \/ Deduct(o)
    \/ \E p \in Products, d \in Deltas : Adjust(p, d)

StockSpec == StockInit /\ [][StockNext]_stockVars

-----------------------------------------------------------------------------

(* The reserved pile of a product is exactly what the orders hold of it:   *)
(* no unit is reserved for nobody, and no release or deduction takes more  *)
(* out of the pile than some reservation put there.                        *)
ReservedIsHeld ==
    \A p \in Products :
        stock[p].reserved = SumFunction([o \in Orders |-> hold[o][p]])
=============================================================================
