----------------------------- MODULE Inventory -----------------------------
(***************************************************************************)
(* InventoryService (src/inventory/inventory.service.ts) as it runs on     *)
(* PostgreSQL: each public method is one READ COMMITTED transaction that   *)
(* locks the inventory rows it needs one at a time (SELECT ... FOR UPDATE, *)
(* in product order), computes a new row in memory, and writes the row and *)
(* a movement.  Nothing it wrote is visible before its commit.             *)
(*                                                                         *)
(* One step is one row: lock it, check it and write it.  That is as fine   *)
(* as the rows allow, because between its lock and its commit nobody else  *)
(* can read a row for update or write it.                                  *)
(*                                                                         *)
(* Products are named by their rank, so `<' is localeCompare.  Item lists  *)
(* are functions from products to quantities, 0 standing for a product     *)
(* that is not in the list; the code rejects every quantity <= 0, so a     *)
(* negative one stands for all of those.                                   *)
(***************************************************************************)
EXTENDS Integers, Functions

CONSTANTS
    Products,       \* ranks of the product ids
    Orders,         \* order ids (random UUIDs)
    Adjustments,    \* reference ids of administrators' adjustments
    Connections,    \* connections of the pool, one transaction each
    Baskets,        \* item lists that checkouts ask for
    Quantities,     \* dto.quantity of an adjustment: any integer
    Kinds,          \* dto.type of an adjustment: any movement type
    InitialStock,   \* available quantity of the rows that exist at the start
    StockedAtStart  \* products that have an inventory row at the start

MovementTypes == {"ADD", "DEDUCT", "RESERVE", "RELEASE", "ADJUST"}

ASSUME InventoryAssumption ==
    /\ Products \subseteq Nat
    /\ Orders \cap Adjustments = {}
    /\ Baskets \subseteq [Products -> Int]
    /\ Quantities \subseteq Int
    /\ Kinds \subseteq MovementTypes
    /\ InitialStock \in [Products -> Nat]
    /\ StockedAtStart \subseteq Products

VARIABLES
    stock,      \* the committed inventory rows
    stocked,    \* the products that have one
    ledger,     \* committed movements: total quantity by product, type, reference
    lock,       \* the connection that holds the row lock of a product
    tx,         \* the transaction open on a connection
    phase       \* how far the caller has come with a reference id

vars == <<stock, stocked, ledger, lock, tx, phase>>

Refs == Orders \cup Adjustments

Free == "free"
ASSUME FreeAssumption == Free \notin Connections

NoRef == "no ref"

Row == [available : Int, reserved : Int]
EmptyRow == [available |-> 0, reserved |-> 0]

Nowhere == [p \in Products |-> 0]

(* An open transaction: the movement type it inserts, its quantity per     *)
(* product, the rows it has still to lock, those it has saved, and what it  *)
(* saved there.                                                            *)
Transactions ==
    [op    : {"idle", "reserve", "settle", "adjust"},
     type  : MovementTypes \cup {"none"},
     ref   : Refs \cup {NoRef},
     qty   : [Products -> Int],
     todo  : SUBSET Products,
     done  : SUBSET Products,
     wrote : [Products -> Row]]

NoTransaction ==
    [op |-> "idle", type |-> "none", ref |-> NoRef, qty |-> Nowhere,
     todo |-> {}, done |-> {}, wrote |-> [p \in Products |-> EmptyRow]]

(* Callers: OrdersService.checkout reserves once for a fresh random order  *)
(* id, and then releases at most once; nobody calls deductInventory yet,   *)
(* it is taken to be the other way to settle an order, used at most once.  *)
Phases == {"fresh", "active", "held", "closed"}

TypeOK ==
    /\ stock \in [Products -> [available : Nat, reserved : Int]]
    /\ stocked \in SUBSET Products
    /\ ledger \in [Products -> [MovementTypes -> [Refs -> Int]]]
    /\ lock \in [Products -> Connections \cup {Free}]
    /\ tx \in [Connections -> Transactions]
    /\ phase \in [Refs -> Phases]

AvailableAtStart ==
    [p \in Products |-> IF p \in StockedAtStart THEN InitialStock[p] ELSE 0]

Init ==
    /\ stock = [p \in Products |-> [available |-> AvailableAtStart[p], reserved |-> 0]]
    /\ stocked = StockedAtStart
    /\ ledger = [p \in Products |-> [m \in MovementTypes |-> [r \in Refs |-> 0]]]
    /\ lock = [p \in Products |-> Free]
    /\ tx = [c \in Connections |-> NoTransaction]
    /\ phase = [r \in Refs |-> "fresh"]

-----------------------------------------------------------------------------
(* Beginning a transaction                                                 *)

Begin(c, op, type, r, qty, todo) ==
    /\ tx[c].op = "idle"
    /\ tx' = [tx EXCEPT ![c] =
                [op |-> op, type |-> type, ref |-> r, qty |-> qty,
                 todo |-> todo, done |-> {}, wrote |-> NoTransaction.wrote]]
    /\ phase' = [phase EXCEPT ![r] = "active"]
    /\ UNCHANGED <<stock, stocked, ledger, lock>>

Listed(qty) == {p \in Products : qty[p] # 0}

(* reserveInventory(items, orderId)                                        *)
BeginReserve(c, o, b) ==
    /\ phase[o] = "fresh"
    /\ Begin(c, "reserve", "RESERVE", o, b, Listed(b))

SettledAgain(o) == phase[o] \in {"held", "closed"}  \* mutant: a repeated release

(* releaseInventory(orderId) and deductInventory(orderId) read the RESERVE *)
(* movements of the order, without a lock, and settle all of them.         *)
MayBeSettled(o) == phase[o] = "held"

Reservation(o) == [p \in Products |-> ledger[p]["RESERVE"][o]]

BeginSettle(c, o, type) ==
    /\ MayBeSettled(o)
    /\ Begin(c, "settle", type, o, Reservation(o), Listed(Reservation(o)))

(* adjustInventory(productId, dto): one row, whatever the quantity.        *)
BeginAdjust(c, a, p, type, q) ==
    /\ phase[a] = "fresh"
    /\ Begin(c, "adjust", type, a, [Nowhere EXCEPT ![p] = q], {p})

-----------------------------------------------------------------------------
(* Working through the rows                                                *)

AnyRowIsNext(c, p) == p \in tx[c].todo             \* mutant: no sort

(* The next row of a transaction: items and movements are sorted.          *)
IsNext(c, p) == /\ p \in tx[c].todo
                /\ \A q \in tx[c].todo : p <= q

LockIgnored(c, p) == TRUE                          \* mutant: a plain SELECT

(* SELECT ... FOR UPDATE returns when no other transaction has the row.    *)
Lockable(c, p) == lock[p] \in {Free, c}

DeductRestocks(type, op, q) ==    \* mutant: a deduction puts the units back
    CASE op = "reserve"                                       -> -q
      [] op = "settle"                                        -> q
      [] op = "adjust" /\ type \in {"ADD", "ADJUST"}          -> q
      [] op = "adjust" /\ type = "DEDUCT"                     -> -q
      [] OTHER                                                -> 0

(* The row as the method leaves it, given the row it read.                 *)
ShelfChange(type, op, q) ==
    CASE op = "reserve"                                       -> -q
      [] op = "settle" /\ type = "RELEASE"                    -> q
      [] op = "adjust" /\ type \in {"ADD", "ADJUST"}          -> q
      [] op = "adjust" /\ type = "DEDUCT"                     -> -q
      [] OTHER                                                -> 0

PileChange(type, op, q) ==
    CASE op = "reserve" -> q
      [] op = "settle"  -> -q
      [] OTHER          -> 0

NewRow(t, p, row) ==
    [available |-> row.available + ShelfChange(t.type, t.op, t.qty[p]),
     reserved  |-> row.reserved + PileChange(t.type, t.op, t.qty[p])]

(* Exceptions thrown before the row is locked: a quantity that is not      *)
(* positive, and a product without an inventory row.                       *)
BadRequest(c, p) == tx[c].op = "reserve" /\ tx[c].qty[p] <= 0
NotFound(c, p) == tx[c].op # "settle" /\ p \notin stocked

(* Exceptions that need the locked row: InsufficientStock and the refused  *)
(* deduction, and the CHECK constraint "available_quantity" >= 0 when the  *)
(* row is saved.                                                           *)
Insufficient(c, p) ==
    /\ tx[c].op = "reserve" \/ (tx[c].op = "adjust" /\ tx[c].type = "DEDUCT")
    /\ stock[p].available < tx[c].qty[p]
NeverViolated(c, p) == FALSE     \* mutant: no CHECK constraint
CheckViolated(c, p) == NewRow(tx[c], p, stock[p]).available < 0

RowRejected(c, p) ==
    \/ BadRequest(c, p)
    \/ NotFound(c, p)
    \/ Lockable(c, p) /\ (Insufficient(c, p) \/ CheckViolated(c, p))

(* Locked, checked, saved, and its movement inserted.                      *)
Taken(t, p) == [t EXCEPT !.todo = @ \ {p},
                         !.done = @ \cup {p},
                         !.wrote = [@ EXCEPT ![p] = NewRow(t, p, stock[p])]]

TakeRow(c) ==
    \E p \in Products :
        /\ IsNext(c, p)
        /\ Lockable(c, p)
        /\ ~RowRejected(c, p)
        /\ lock' = [lock EXCEPT ![p] = c]
        /\ tx' = [tx EXCEPT ![c] = Taken(tx[c], p)]
        /\ UNCHANGED <<stock, stocked, ledger, phase>>

Held(c) == {p \in Products : lock[p] = c}

Unlocked(c) == [p \in Products |-> IF lock[p] = c THEN Free ELSE lock[p]]

RollBackKeepsRows(c) ==           \* mutant: rows saved outside the transaction
    /\ stock' = [p \in Products |-> IF p \in tx[c].done THEN tx[c].wrote[p] ELSE stock[p]]
    /\ tx' = [tx EXCEPT ![c] = NoTransaction]
    /\ lock' = Unlocked(c)
    /\ phase' = [phase EXCEPT ![tx[c].ref] = "closed"]
    /\ UNCHANGED <<stocked, ledger>>

(* Nothing of a transaction that throws remains, and its caller gives up.  *)
RollBack(c) ==
    /\ tx' = [tx EXCEPT ![c] = NoTransaction]
    /\ lock' = Unlocked(c)
    /\ phase' = [phase EXCEPT ![tx[c].ref] = "closed"]
    /\ UNCHANGED <<stock, stocked, ledger>>

RejectRow(c) ==
    /\ \E p \in Products : IsNext(c, p) /\ RowRejected(c, p)
    /\ RollBack(c)

(* A lost connection, a statement that fails, a process that dies.         *)
Fail(c) ==
    /\ tx[c].op # "idle"
    /\ RollBack(c)

Commit(c) ==
    LET t == tx[c] IN
    /\ t.op # "idle"
    /\ t.todo = {}
    /\ stock' = [p \in Products |-> IF p \in t.done THEN t.wrote[p] ELSE stock[p]]
    /\ ledger' = [p \in Products |->
                    IF p \in t.done
                    THEN [ledger[p] EXCEPT ![t.type][t.ref] = @ + t.qty[p]]
                    ELSE ledger[p]]
    /\ lock' = Unlocked(c)
    /\ tx' = [tx EXCEPT ![c] = NoTransaction]
    /\ phase' = [phase EXCEPT ![t.ref] = IF t.op = "reserve" THEN "held" ELSE "closed"]
    /\ UNCHANGED stocked

(* ProductsService.create and the seed insert an empty row for a product.  *)
InitInventory(p) ==
    /\ p \notin stocked
    /\ stocked' = stocked \cup {p}
    /\ UNCHANGED <<stock, ledger, lock, tx, phase>>

Next ==
    \/ \E c \in Connections :
         \/ \E o \in Orders, b \in Baskets : BeginReserve(c, o, b)
         \/ \E o \in Orders, type \in {"RELEASE", "DEDUCT"} : BeginSettle(c, o, type)
         \/ \E a \in Adjustments, p \in Products, type \in Kinds, q \in Quantities :
              BeginAdjust(c, a, p, type, q)
         \/ TakeRow(c)
         \/ RejectRow(c)
         \/ Fail(c)
         \/ Commit(c)
    \/ \E p \in Products : InitInventory(p)

Spec == Init /\ [][Next]_vars

(* PostgreSQL serves a row's lock queue and node its event loop: a         *)
(* transaction that can take its next step, and keeps being able to, does. *)
(* Nothing makes a connection fail.                                        *)
Fairness ==
    \A c \in Connections : /\ WF_vars(TakeRow(c))
                           /\ WF_vars(RejectRow(c))
                           /\ WF_vars(Commit(c))

FairSpec == Spec /\ Fairness

-----------------------------------------------------------------------------
(* What can go wrong                                                       *)

(* What an order has reserved and not given up, according to the ledger.   *)
Outstanding(o) ==
    [p \in Products |-> ledger[p]["RESERVE"][o] - ledger[p]["RELEASE"][o]
                                               - ledger[p]["DEDUCT"][o]]

(* A row somebody is about to write back was computed from the row as it   *)
(* is committed now: no concurrent reservation, release or adjustment is   *)
(* overwritten (the lost update that SELECT ... FOR UPDATE is there for).  *)
PendingWritesAreFresh ==
    \A c \in Connections : \A p \in tx[c].done :
        tx[c].wrote[p] = NewRow(tx[c], p, stock[p])

(* Locks are taken in product order, so a transaction that waits for a row *)
(* holds only smaller ones ("Sort items by productId to prevent            *)
(* deadlocks").                                                            *)
LockOrder ==
    \A c \in Connections, p \in Products :
        IsNext(c, p) => \A q \in Held(c) : q < p

WaitsFor(c, d) ==
    \E p \in Products : IsNext(c, p) /\ lock[p] = d /\ c # d

(* No group of transactions waits for rows of each other: among any of     *)
(* them, one waits for nobody in the group.                                *)
NoDeadlock ==
    \A S \in SUBSET Connections :
        S # {} => \E c \in S : \A d \in S : ~WaitsFor(c, d)

(* An order never gives back or ships more of a product than it reserved,  *)
(* and does either to all of what it reserved or to none: the methods read *)
(* the RESERVE movements without a lock and without looking for an earlier *)
(* RELEASE or DEDUCT.                                                      *)
SettledAtMostOnce ==
    \A o \in Orders, p \in Products :
        Outstanding(o)[p] \in {0, ledger[p]["RESERVE"][o]}

(* The movements account for every unit: the table is what the ledger      *)
(* replays to, and the reserved quantity is what orders have outstanding.  *)
Moved(p, type, refs) == SumFunctionOnSet(ledger[p][type], refs)

LedgerExplainsStock ==
    \A p \in Products :
        /\ stock[p].available =
              AvailableAtStart[p]
              + Moved(p, "ADD", Adjustments) + Moved(p, "ADJUST", Adjustments)
              - Moved(p, "DEDUCT", Adjustments)
              - Moved(p, "RESERVE", Orders) + Moved(p, "RELEASE", Orders)
        /\ stock[p].reserved =
              Moved(p, "RESERVE", Orders) - Moved(p, "RELEASE", Orders)
              - Moved(p, "DEDUCT", Orders)

(* The transactions are atomic and isolated: seen through the committed    *)
(* rows and the ledger, the service behaves as Stock does.                 *)
Holdings == [o \in Orders |-> Outstanding(o)]

Promise == INSTANCE Stock WITH
    hold   <- Holdings,
    Deltas <- {0} \cup Quantities \cup {-q : q \in Quantities},
    StartingStock <- {AvailableAtStart}

ImplementsStock == Promise!StockSpec

(* No transaction stays open for ever: it commits or rolls back, whatever  *)
(* the other transactions want to lock.                                    *)
TransactionsEnd ==
    \A c \in Connections : (tx[c].op # "idle") ~> (tx[c].op = "idle")
=============================================================================
