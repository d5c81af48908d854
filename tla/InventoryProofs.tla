-------------------------- MODULE InventoryProofs --------------------------
(***************************************************************************)
(* Theorems about Inventory, for any sets of products, orders,             *)
(* adjustments and connections.                                            *)
(***************************************************************************)
EXTENDS Inventory, SumTheorems

Active(c) == tx[c].op # "idle"

(* A transaction works on one reference id, which nobody else works on.    *)
OneTransactionPerReference ==
    /\ \A c \in Connections : ~Active(c) => tx[c] = NoTransaction
    /\ \A c \in Connections :
         Active(c) => tx[c].ref \in Refs /\ phase[tx[c].ref] = "active"
    /\ \A c, d \in Connections :
         Active(c) /\ Active(d) /\ tx[c].ref = tx[d].ref => c = d

(* What the kinds of transaction may be in the middle of.                  *)
ReserveShape(c) ==
    /\ tx[c].ref \in Orders
    /\ tx[c].type = "RESERVE"
    /\ tx[c].qty \in Baskets
    /\ \A p \in Products : /\ tx[c].qty[p] # 0 => p \in tx[c].todo \/ lock[p] = c
                           /\ lock[p] = c => tx[c].qty[p] > 0
    /\ \A p \in Products, m \in {"RESERVE", "RELEASE", "DEDUCT"} :
         ledger[p][m][tx[c].ref] = 0

SettleShape(c) ==
    /\ tx[c].ref \in Orders
    /\ tx[c].type \in {"RELEASE", "DEDUCT"}
    /\ \A p \in Products : /\ tx[c].qty[p] # 0 => p \in tx[c].todo \/ lock[p] = c
                           /\ tx[c].qty[p] = ledger[p]["RESERVE"][tx[c].ref]
                           /\ \A m \in {"RELEASE", "DEDUCT"} : ledger[p][m][tx[c].ref] = 0

OnlyRow(c, p, q) ==
    /\ tx[c].qty = [Nowhere EXCEPT ![p] = q]
    /\ \/ tx[c].todo = {p} /\ \A x \in Products : lock[x] # c
       \/ tx[c].todo = {} /\ \A x \in Products : lock[x] = c <=> x = p

AdjustShape(c) ==
    /\ tx[c].ref \in Adjustments
    /\ tx[c].type \in MovementTypes
    /\ \E p \in Products, q \in Quantities : OnlyRow(c, p, q)

Shapes ==
    \A c \in Connections :
        /\ tx[c].op = "reserve" => ReserveShape(c)
        /\ tx[c].op = "settle" => SettleShape(c)
        /\ tx[c].op = "adjust" => AdjustShape(c)

(* Locked rows belong to an open transaction that is done with them and    *)
(* will not leave them negative.                                           *)
LocksAreHeld ==
    \A c \in Connections, p \in Products :
        lock[p] = c => /\ Active(c)
                       /\ p \notin tx[c].todo
                       /\ tx[c].wrote[p].available >= 0

(* The rows a transaction has saved are those it has locked, so nobody else *)
(* changes them before it commits.                                         *)
SavedRowsAreLocked ==
    \A c \in Connections, p \in Products : p \in tx[c].done <=> lock[p] = c

LockedRowsAreFresh ==
    \A c \in Connections, p \in Products :
        lock[p] = c => tx[c].wrote[p] = NewRow(tx[c], p, stock[p])

(* What the phase of an order says about its movements.                    *)
LedgerFollowsPhase ==
    \A o \in Orders, p \in Products :
        /\ phase[o] = "fresh" => ledger[p]["RESERVE"][o] = 0
        /\ phase[o] \in {"fresh", "held"} => /\ ledger[p]["RELEASE"][o] = 0
                                             /\ ledger[p]["DEDUCT"][o] = 0

(* The inductive invariant.                                                *)
IInv ==
    /\ TypeOK
    /\ OneTransactionPerReference
    /\ Shapes
    /\ LocksAreHeld
    /\ LedgerFollowsPhase
    /\ LockedRowsAreFresh
    /\ SavedRowsAreLocked
    /\ LockOrder
    /\ SettledAtMostOnce

-----------------------------------------------------------------------------

USE InventoryAssumption, FreeAssumption

(* The initial state satisfies the inductive invariant.                    *)
LEMMA InitIInv == Init => IInv
<1> SUFFICES ASSUME Init PROVE IInv
  OBVIOUS
<1> USE DEF Init
<1>1. TypeOK
  BY DEF TypeOK, AvailableAtStart, EmptyRow, NoTransaction, Transactions, Row, Nowhere, Phases
<1>2. OneTransactionPerReference /\ Shapes
  BY DEF OneTransactionPerReference, Shapes, Active, NoTransaction
<1>3. LocksAreHeld /\ LockedRowsAreFresh /\ SavedRowsAreLocked
  BY DEF LocksAreHeld, LockedRowsAreFresh, SavedRowsAreLocked, NoTransaction
<1>4. LockOrder
  BY DEF LockOrder, IsNext, NoTransaction
<1>5. LedgerFollowsPhase /\ SettledAtMostOnce
  BY DEF LedgerFollowsPhase, SettledAtMostOnce, Outstanding, Refs, MovementTypes
<1> QED
  BY <1>1, <1>2, <1>3, <1>4, <1>5 DEF IInv

(* A transaction keeps its shape while others work, because they leave its *)
(* locks and the movements of its reference alone.                         *)
ShapeOf(d) == /\ tx[d].op = "reserve" => ReserveShape(d)
              /\ tx[d].op = "settle" => SettleShape(d)
              /\ tx[d].op = "adjust" => AdjustShape(d)

LEMMA ShapeKept ==
  ASSUME Shapes, NEW d \in Connections, tx'[d] = tx[d],
         \A q \in Products : lock'[q] = d <=> lock[q] = d,
         Active(d) => \A q \in Products, m \in MovementTypes :
                        ledger'[q][m][tx[d].ref] = ledger[q][m][tx[d].ref]
  PROVE  ShapeOf(d)'
<1>0. ShapeOf(d)
  BY DEF Shapes, ShapeOf
<1>1. Nowhere' = Nowhere
  BY DEF Nowhere
<1>2. (tx[d].op = "reserve" => ReserveShape(d))'
  <2> SUFFICES ASSUME tx[d].op = "reserve" PROVE ReserveShape(d)'
    OBVIOUS
  <2>1. ReserveShape(d)
    BY <1>0 DEF ShapeOf
  <2>2. \A q \in Products, m \in {"RESERVE", "RELEASE", "DEDUCT"} :
          ledger'[q][m][tx[d].ref] = ledger[q][m][tx[d].ref]
    BY DEF Active, MovementTypes
  <2> QED
    BY <2>1, <2>2 DEF ReserveShape
<1>3. (tx[d].op = "settle" => SettleShape(d))'
  <2> SUFFICES ASSUME tx[d].op = "settle" PROVE SettleShape(d)'
    OBVIOUS
  <2>1. SettleShape(d)
    BY <1>0 DEF ShapeOf
  <2>2. \A q \in Products : /\ ledger'[q]["RESERVE"][tx[d].ref] = ledger[q]["RESERVE"][tx[d].ref]
                            /\ ledger'[q]["RELEASE"][tx[d].ref] = ledger[q]["RELEASE"][tx[d].ref]
                            /\ ledger'[q]["DEDUCT"][tx[d].ref] = ledger[q]["DEDUCT"][tx[d].ref]
    BY DEF Active, MovementTypes
  <2>3. ASSUME NEW q \in Products
        PROVE  /\ tx'[d].qty[q] # 0 => q \in tx'[d].todo \/ lock'[q] = d
               /\ tx'[d].qty[q] = ledger'[q]["RESERVE"][tx'[d].ref]
               /\ \A m \in {"RELEASE", "DEDUCT"} : ledger'[q][m][tx'[d].ref] = 0
    BY <2>1, <2>2 DEF SettleShape
  <2> QED
    BY <2>1, <2>3 DEF SettleShape
<1>4. (tx[d].op = "adjust" => AdjustShape(d))'
  <2> SUFFICES ASSUME tx[d].op = "adjust" PROVE AdjustShape(d)'
    OBVIOUS
  <2>1. AdjustShape(d)
    BY <1>0 DEF ShapeOf
  <2>2. PICK p \in Products, q \in Quantities : OnlyRow(d, p, q)
    BY <2>1 DEF AdjustShape
  <2>3. OnlyRow(d, p, q)'
    BY <2>2, <1>1 DEF OnlyRow
  <2> QED
    BY <2>1, <2>3 DEF AdjustShape
<1> QED
  BY <1>2, <1>3, <1>4 DEF ShapeOf

(* Beginning a transaction of any shape preserves the invariant, provided  *)
(* its reference is not in use and its quantities have the shape of its    *)
(* kind.                                                                   *)
LEMMA BeginIInv ==
  ASSUME IInv,
         NEW c \in Connections, NEW op \in {"reserve", "settle", "adjust"},
         NEW type \in MovementTypes, NEW r \in Refs,
         NEW qty \in [Products -> Int], NEW todo \in SUBSET Products,
         phase[r] # "active",
         Begin(c, op, type, r, qty, todo),
         op = "reserve" => ReserveShape(c)',
         op = "settle" => SettleShape(c)',
         op = "adjust" => AdjustShape(c)'
  PROVE  IInv'
<1> DEFINE new == [op |-> op, type |-> type, ref |-> r, qty |-> qty,
                   todo |-> todo, done |-> {}, wrote |-> NoTransaction.wrote]
<1>0. /\ TypeOK
      /\ OneTransactionPerReference
      /\ Shapes
      /\ LocksAreHeld
      /\ LedgerFollowsPhase
      /\ LockedRowsAreFresh
      /\ SavedRowsAreLocked
      /\ LockOrder
      /\ SettledAtMostOnce
  BY DEF IInv
<1>1. /\ tx[c].op = "idle"
      /\ tx' = [tx EXCEPT ![c] = new]
      /\ phase' = [phase EXCEPT ![r] = "active"]
      /\ UNCHANGED <<stock, stocked, ledger, lock>>
  BY DEF Begin
<1>2. new \in Transactions
  BY DEF Transactions, NoTransaction, EmptyRow, Row
<1>3. /\ tx'[c] = new
      /\ \A d \in Connections : d # c => tx'[d] = tx[d]
      /\ \A s \in Refs : s # r => phase'[s] = phase[s]
      /\ phase'[r] = "active"
  BY <1>0, <1>1 DEF TypeOK
<1>4. \A p \in Products : lock[p] # c
  BY <1>0, <1>1 DEF LocksAreHeld, Active
<1> HIDE DEF new
<1>5. TypeOK'
  BY <1>0, <1>1, <1>2 DEF TypeOK, Phases
<1>6. OneTransactionPerReference'
  BY <1>0, <1>1, <1>3 DEF OneTransactionPerReference, Active, new
<1>7. Shapes'
  <2>1. ASSUME NEW d \in Connections, d # c PROVE ShapeOf(d)'
    BY <1>0, <1>1, <1>3, <2>1, ShapeKept
  <2> QED
    BY <2>1, <1>3 DEF Shapes, ShapeOf, new
<1>8. LocksAreHeld' /\ LockedRowsAreFresh' /\ SavedRowsAreLocked'
  BY <1>0, <1>1, <1>3, <1>4 DEF LocksAreHeld, LockedRowsAreFresh, SavedRowsAreLocked, Active, new
<1>9. LockOrder'
  BY <1>0, <1>1, <1>3, <1>4 DEF LockOrder, IsNext, Held
<1>10. LedgerFollowsPhase'
  BY <1>0, <1>1, <1>3 DEF LedgerFollowsPhase, Refs
<1>11. SettledAtMostOnce'
  BY <1>0, <1>1 DEF SettledAtMostOnce, Outstanding
<1> QED
  BY <1>5, <1>6, <1>7, <1>8, <1>9, <1>10, <1>11 DEF IInv
(* Rolling back undoes nothing that is committed and frees every lock of   *)
(* the transaction.                                                        *)
LEMMA RollBackIInv ==
  ASSUME IInv, NEW c \in Connections, Active(c), RollBack(c)
  PROVE  IInv'
<1>0. /\ TypeOK
      /\ OneTransactionPerReference
      /\ Shapes
      /\ LocksAreHeld
      /\ LedgerFollowsPhase
      /\ LockedRowsAreFresh
      /\ SavedRowsAreLocked
      /\ LockOrder
      /\ SettledAtMostOnce
  BY DEF IInv
<1>1. /\ tx[c].ref \in Refs
      /\ phase[tx[c].ref] = "active"
  BY <1>0 DEF OneTransactionPerReference
<1>2. /\ tx'[c] = NoTransaction
      /\ \A d \in Connections : d # c => tx'[d] = tx[d]
      /\ \A s \in Refs : s # tx[c].ref => phase'[s] = phase[s]
      /\ phase'[tx[c].ref] = "closed"
      /\ UNCHANGED <<stock, stocked, ledger>>
  BY <1>0, <1>1 DEF TypeOK, RollBack
<1>3. \A p \in Products : /\ lock'[p] # c
                          /\ \A d \in Connections : d # c => (lock'[p] = d <=> lock[p] = d)
  BY <1>0 DEF RollBack, Unlocked, TypeOK
<1>4. ~Active(c)'
  BY <1>2 DEF Active, NoTransaction
<1>5. TypeOK'
  BY <1>0, <1>1 DEF TypeOK, RollBack, Unlocked, Phases, Transactions, NoTransaction,
                    EmptyRow, Row, Nowhere
<1>6. OneTransactionPerReference'
  BY <1>0, <1>1, <1>2, <1>4 DEF OneTransactionPerReference, Active
<1>7. Shapes'
  <2>1. ASSUME NEW d \in Connections, d # c PROVE ShapeOf(d)'
    BY <1>0, <1>2, <1>3, <2>1, ShapeKept
  <2> QED
    BY <2>1, <1>4 DEF Shapes, ShapeOf, Active
<1>8. LocksAreHeld' /\ LockedRowsAreFresh' /\ SavedRowsAreLocked'
  BY <1>0, <1>2, <1>3 DEF LocksAreHeld, LockedRowsAreFresh, SavedRowsAreLocked, Active, NoTransaction
<1>9. LockOrder'
  BY <1>0, <1>2, <1>3 DEF LockOrder, IsNext, Held, NoTransaction
<1>10. LedgerFollowsPhase'
  BY <1>0, <1>2 DEF LedgerFollowsPhase, Refs
<1>11. SettledAtMostOnce'
  BY <1>0, <1>2 DEF SettledAtMostOnce, Outstanding
<1> QED
  BY <1>5, <1>6, <1>7, <1>8, <1>9, <1>10, <1>11 DEF IInv

(* What taking a row changes in the transaction.                           *)
LEMMA TakenFields ==
  ASSUME NEW t \in Transactions, NEW p \in Products, stock[p] \in Row
  PROVE  /\ NewRow(t, p, stock[p]) \in Row
         /\ Taken(t, p) \in Transactions
         /\ Taken(t, p).op = t.op
         /\ Taken(t, p).type = t.type
         /\ Taken(t, p).ref = t.ref
         /\ Taken(t, p).qty = t.qty
         /\ Taken(t, p).todo = t.todo \ {p}
         /\ Taken(t, p).done = t.done \cup {p}
         /\ Taken(t, p).wrote[p] = NewRow(t, p, stock[p])
         /\ \A q \in Products : q # p => Taken(t, p).wrote[q] = t.wrote[q]
<1>1. NewRow(t, p, stock[p]) \in Row
  BY DEF NewRow, ShelfChange, PileChange, Row, Transactions
<1> HIDE DEF NewRow
<1> QED
  BY <1>1 DEF Taken, Transactions

(* A row that is taken was free, so nobody else's pending write is based   *)
(* on it, and it is greater than the rows the transaction already has.     *)
LEMMA TakeRowIInv ==
  ASSUME IInv, NEW c \in Connections, TakeRow(c)
  PROVE  IInv'
<1>0. /\ TypeOK
      /\ OneTransactionPerReference
      /\ Shapes
      /\ LocksAreHeld
      /\ LedgerFollowsPhase
      /\ LockedRowsAreFresh
      /\ SavedRowsAreLocked
      /\ LockOrder
      /\ SettledAtMostOnce
  BY DEF IInv
<1>1. PICK p \in Products :
        /\ IsNext(c, p)
        /\ Lockable(c, p)
        /\ ~RowRejected(c, p)
        /\ lock' = [lock EXCEPT ![p] = c]
        /\ tx' = [tx EXCEPT ![c] = Taken(tx[c], p)]
        /\ UNCHANGED <<stock, stocked, ledger, phase>>
  BY DEF TakeRow
<1>2. /\ tx[c] \in Transactions
      /\ p \in tx[c].todo
      /\ \A q \in tx[c].todo : p <= q
      /\ Active(c)
      /\ lock[p] \in {Free, c}
      /\ ~BadRequest(c, p)
      /\ UNCHANGED <<stock, stocked, ledger, phase>>
  BY <1>0, <1>1 DEF TypeOK, IsNext, Lockable, OneTransactionPerReference, NoTransaction,
                    RowRejected
<1>3. stock[p] \in Row
  BY <1>0 DEF TypeOK, Row
<1>4. /\ tx'[c] = Taken(tx[c], p)
      /\ \A d \in Connections : d # c => tx'[d] = tx[d]
      /\ tx'[c].op = tx[c].op
      /\ tx'[c].type = tx[c].type
      /\ tx'[c].ref = tx[c].ref
      /\ tx'[c].qty = tx[c].qty
      /\ tx'[c].todo = tx[c].todo \ {p}
      /\ tx'[c].done = tx[c].done \cup {p}
      /\ tx'[c].wrote[p] = NewRow(tx[c], p, stock[p])
      /\ \A q \in Products : q # p => tx'[c].wrote[q] = tx[c].wrote[q]
  <2>1. /\ tx'[c] = Taken(tx[c], p)
        /\ \A d \in Connections : d # c => tx'[d] = tx[d]
    BY <1>0, <1>1 DEF TypeOK
  <2> HIDE DEF Taken, NewRow
  <2> QED
    BY <2>1, <1>2, <1>3, TakenFields
<1>5. /\ lock'[p] = c
      /\ \A q \in Products : q # p => lock'[q] = lock[q]
      /\ \A d \in Connections : lock[p] = d => d = c
  BY <1>0, <1>1, <1>2 DEF TypeOK
<1>6. NewRow(tx[c], p, stock[p]) \in Row /\ tx'[c] \in Transactions
  <2>1. Taken(tx[c], p) \in Transactions
    BY <1>2, <1>3, TakenFields
  <2>2. NewRow(tx[c], p, stock[p]) \in Row
    BY <1>2, <1>3, TakenFields
  <2> QED
    BY <2>1, <2>2, <1>4
<1>7. NewRow(tx[c], p, stock[p]).available >= 0
  BY <1>1, <1>6 DEF RowRejected, CheckViolated, Row
<1>8. TypeOK'
  BY <1>0, <1>1, <1>2, <1>4, <1>6 DEF TypeOK
<1>9. OneTransactionPerReference'
  BY <1>0, <1>2, <1>4 DEF OneTransactionPerReference, Active
<1>10. Shapes'
  <2>1. ASSUME NEW d \in Connections, d # c PROVE ShapeOf(d)'
    <3>1. /\ tx'[d] = tx[d]
          /\ \A q \in Products : lock'[q] = d <=> lock[q] = d
      BY <1>4, <1>5, <2>1
    <3> QED
      BY <1>0, <1>2, <3>1, ShapeKept
  <2>2. (tx[c].op = "reserve" => ReserveShape(c))'
    <3>1. SUFFICES ASSUME tx[c].op = "reserve" PROVE ReserveShape(c)'
      BY <1>4
    <3>2. ReserveShape(c)
      BY <1>0, <3>1 DEF Shapes
    <3>3. tx[c].qty[p] > 0
      <4>1. tx[c].qty[p] \in Int
        BY <1>2 DEF Transactions
      <4>2. ~(tx[c].qty[p] <= 0)
        BY <1>2, <3>1 DEF BadRequest
      <4> QED
        BY <4>1, <4>2
    <3>4. /\ tx'[c].qty = tx[c].qty /\ tx'[c].type = tx[c].type
          /\ tx'[c].ref = tx[c].ref /\ ledger' = ledger
          /\ tx'[c].todo = tx[c].todo \ {p}
          /\ lock'[p] = c
          /\ \A q \in Products : q # p => lock'[q] = lock[q]
      BY <1>2, <1>4, <1>5
    <3>5. ASSUME NEW q \in Products
          PROVE  /\ tx'[c].qty[q] # 0 => q \in tx'[c].todo \/ lock'[q] = c
                 /\ lock'[q] = c => tx'[c].qty[q] > 0
      <4>1. CASE q = p
        BY <3>3, <3>4, <4>1
      <4>2. CASE q # p
        BY <3>2, <3>4, <4>2 DEF ReserveShape
      <4> QED
        BY <4>1, <4>2
    <3>6. \A q \in Products, m \in {"RESERVE", "RELEASE", "DEDUCT"} :
            ledger'[q][m][tx'[c].ref] = 0
      BY <3>2, <3>4 DEF ReserveShape
    <3> QED
      BY <3>2, <3>4, <3>5, <3>6 DEF ReserveShape
  <2>3. (tx[c].op = "settle" => SettleShape(c))'
    <3>1. SUFFICES ASSUME tx[c].op = "settle" PROVE SettleShape(c)'
      BY <1>4
    <3>2. SettleShape(c)
      BY <1>0, <3>1 DEF Shapes
    <3> QED
      BY <3>2, <1>2, <1>4, <1>5 DEF SettleShape
  <2>4. (tx[c].op = "adjust" => AdjustShape(c))'
    <3>1. SUFFICES ASSUME tx[c].op = "adjust" PROVE AdjustShape(c)'
      BY <1>4
    <3>2. AdjustShape(c)
      BY <1>0, <3>1 DEF Shapes
    <3>3. PICK x \in Products, q \in Quantities : OnlyRow(c, x, q)
      BY <3>2 DEF AdjustShape
    <3>4. tx[c].todo = {x} /\ x = p
      BY <1>2, <3>3 DEF OnlyRow
    <3>5. /\ tx'[c].todo = {}
          /\ \A y \in Products : lock'[y] = c <=> y = p
      BY <1>4, <1>5, <3>3, <3>4 DEF OnlyRow
    <3>6. Nowhere' = Nowhere
      BY DEF Nowhere
    <3>7. OnlyRow(c, x, q)'
      BY <1>4, <3>3, <3>4, <3>5, <3>6 DEF OnlyRow
    <3> QED
      BY <1>4, <3>2, <3>7 DEF AdjustShape
  <2> QED
    BY <2>1, <2>2, <2>3, <2>4 DEF Shapes, ShapeOf
<1>11. LocksAreHeld'
  BY <1>0, <1>2, <1>4, <1>5, <1>7 DEF LocksAreHeld, Active
<1>12. LockedRowsAreFresh'
  <2>1. ASSUME NEW q \in Products, lock'[q] = c
        PROVE  tx'[c].wrote[q] = NewRow(tx'[c], q, stock'[q])
    <3>1. NewRow(tx'[c], q, stock'[q]) = NewRow(tx[c], q, stock[q])
      BY <1>2, <1>4 DEF NewRow
    <3>2. CASE q = p
      BY <1>4, <3>1, <3>2
    <3>3. CASE q # p
      <4>1. lock[q] = c /\ tx'[c].wrote[q] = tx[c].wrote[q]
        BY <1>4, <1>5, <2>1, <3>3
      <4>2. tx[c].wrote[q] = NewRow(tx[c], q, stock[q])
        BY <1>0, <4>1 DEF LockedRowsAreFresh
      <4> QED
        BY <3>1, <4>1, <4>2
    <3> QED
      BY <3>2, <3>3
  <2> QED
    BY <1>0, <1>2, <1>4, <1>5, <2>1 DEF LockedRowsAreFresh
<1>15. SavedRowsAreLocked'
  BY <1>0, <1>4, <1>5 DEF SavedRowsAreLocked
<1>13. LockOrder'
  <2>1. ASSUME NEW q \in Products, IsNext(c, q)', NEW x \in Held(c)'
        PROVE  x < q
    <3>1. p < q
      <4>1. q \in tx[c].todo /\ q # p
        BY <1>4, <2>1 DEF IsNext
      <4>2. p <= q /\ p \in Nat /\ q \in Nat
        BY <4>1, <1>2
      <4> QED
        BY <4>1, <4>2
    <3>2. x = p \/ x \in Held(c)
      BY <1>5, <2>1 DEF Held
    <3>3. x \in Held(c) => x < p
      BY <1>0, <1>1 DEF LockOrder
    <3>4. x \in Nat /\ p \in Nat /\ q \in Nat
      BY <2>1 DEF Held
    <3> QED
      BY <3>1, <3>2, <3>3, <3>4
  <2>2. ASSUME NEW d \in Connections, d # c, NEW q \in Products, IsNext(d, q)',
               NEW x \in Held(d)'
        PROVE  x < q
    BY <1>0, <1>4, <1>5, <2>2 DEF LockOrder, IsNext, Held
  <2> QED
    BY <2>1, <2>2 DEF LockOrder
<1>14. LedgerFollowsPhase' /\ SettledAtMostOnce'
  BY <1>0, <1>2 DEF LedgerFollowsPhase, SettledAtMostOnce, Outstanding
<1> QED
  BY <1>8, <1>9, <1>10, <1>11, <1>12, <1>13, <1>14, <1>15 DEF IInv
(* What a commit makes of the rows, the locks, the movements and the phase *)
(* of the reference.                                                       *)
LEMMA CommitEffect ==
  ASSUME TypeOK, OneTransactionPerReference, Shapes, SavedRowsAreLocked,
         NEW c \in Connections, Commit(c)
  PROVE  /\ Active(c)
         /\ tx[c] \in Transactions
         /\ tx[c].todo = {}
         /\ tx[c].ref \in Refs
         /\ tx[c].type \in MovementTypes
         /\ phase[tx[c].ref] = "active"
         /\ tx' = [tx EXCEPT ![c] = NoTransaction]
         /\ UNCHANGED stocked
         /\ \A p \in Products : /\ lock[p] = c => stock'[p] = tx[c].wrote[p]
                                /\ lock[p] # c => stock'[p] = stock[p]
         /\ lock' \in [Products -> Connections \cup {Free}]
         /\ \A p \in Products : /\ lock'[p] # c
                                /\ \A d \in Connections :
                                     d # c => (lock'[p] = d <=> lock[p] = d)
         /\ ledger' \in [Products -> [MovementTypes -> [Refs -> Int]]]
         /\ \A p \in Products, m \in MovementTypes, r \in Refs :
              ledger'[p][m][r] =
                IF lock[p] = c /\ m = tx[c].type /\ r = tx[c].ref
                THEN ledger[p][m][r] + tx[c].qty[p]
                ELSE ledger[p][m][r]
         /\ phase' \in [Refs -> Phases]
         /\ phase'[tx[c].ref] = IF tx[c].op = "reserve" THEN "held" ELSE "closed"
         /\ \A r \in Refs : r # tx[c].ref => phase'[r] = phase[r]
<1> DEFINE t == tx[c]
<1>1. /\ Active(c)
      /\ t \in Transactions
      /\ t.todo = {}
      /\ t.ref \in Refs
      /\ phase[t.ref] = "active"
  BY DEF Commit, Active, TypeOK, OneTransactionPerReference
<1>2. t.type \in MovementTypes
  BY <1>1 DEF Shapes, ReserveShape, SettleShape, AdjustShape, Active, Transactions,
              MovementTypes
<1>3. /\ stock' = [p \in Products |-> IF lock[p] = c THEN t.wrote[p] ELSE stock[p]]
      /\ ledger' = [p \in Products |->
                      IF lock[p] = c
                      THEN [ledger[p] EXCEPT ![t.type][t.ref] = @ + t.qty[p]]
                      ELSE ledger[p]]
      /\ lock' = Unlocked(c)
      /\ tx' = [tx EXCEPT ![c] = NoTransaction]
      /\ phase' = [phase EXCEPT ![t.ref] = IF t.op = "reserve" THEN "held" ELSE "closed"]
      /\ UNCHANGED stocked
  BY DEF Commit, SavedRowsAreLocked
<1>4. /\ phase' \in [Refs -> Phases]
      /\ phase'[t.ref] = IF t.op = "reserve" THEN "held" ELSE "closed"
      /\ \A r \in Refs : r # t.ref => phase'[r] = phase[r]
  BY <1>1, <1>3 DEF TypeOK, Phases
<1>5. /\ lock' \in [Products -> Connections \cup {Free}]
      /\ \A p \in Products : /\ lock'[p] # c
                             /\ \A d \in Connections :
                                  d # c => (lock'[p] = d <=> lock[p] = d)
  BY <1>3 DEF Unlocked, TypeOK
<1>6. \A p \in Products : /\ lock[p] = c => stock'[p] = t.wrote[p]
                          /\ lock[p] # c => stock'[p] = stock[p]
  BY <1>3
<1>7. ASSUME NEW p \in Products
      PROVE  /\ ledger'[p] \in [MovementTypes -> [Refs -> Int]]
             /\ \A m \in MovementTypes, r \in Refs :
                  ledger'[p][m][r] =
                    IF lock[p] = c /\ m = t.type /\ r = t.ref
                    THEN ledger[p][m][r] + t.qty[p]
                    ELSE ledger[p][m][r]
  <2>1. /\ ledger[p] \in [MovementTypes -> [Refs -> Int]]
        /\ t.qty[p] \in Int
    BY <1>1, <1>7 DEF TypeOK, Transactions
  <2>2. CASE lock[p] = c
    <3>1. ledger'[p] = [ledger[p] EXCEPT ![t.type][t.ref] = @ + t.qty[p]]
      BY <1>3, <1>7, <2>2
    <3> QED
      BY <1>1, <1>2, <2>1, <2>2, <3>1
  <2>3. CASE lock[p] # c
    BY <1>3, <1>7, <2>1, <2>3
  <2> QED
    BY <2>2, <2>3
<1>8. ledger' \in [Products -> [MovementTypes -> [Refs -> Int]]]
  BY <1>3, <1>7
<1>9. \A p \in Products, m \in MovementTypes, r \in Refs :
         ledger'[p][m][r] =
           IF lock[p] = c /\ m = t.type /\ r = t.ref
           THEN ledger[p][m][r] + t.qty[p]
           ELSE ledger[p][m][r]
  BY <1>7
<1>10. tx' = [tx EXCEPT ![c] = NoTransaction] /\ UNCHANGED stocked
  BY <1>3
<1> QED
  BY <1>1, <1>2, <1>4, <1>5, <1>6, <1>8, <1>9, <1>10

(* What it adds to one sum of movements.                                   *)
LEMMA CommitLedger ==
  ASSUME TypeOK, OneTransactionPerReference, Shapes, SavedRowsAreLocked,
         NEW c \in Connections, Commit(c),
         NEW p \in Products, NEW m \in MovementTypes, NEW r \in Refs
  PROVE  ledger'[p][m][r] = IF lock[p] = c /\ m = tx[c].type /\ r = tx[c].ref
                            THEN ledger[p][m][r] + tx[c].qty[p] ELSE ledger[p][m][r]
<1>1. \A x \in Products, n \in MovementTypes, s \in Refs :
         ledger'[x][n][s] = IF lock[x] = c /\ n = tx[c].type /\ s = tx[c].ref
                            THEN ledger[x][n][s] + tx[c].qty[x] ELSE ledger[x][n][s]
  BY CommitEffect
<1> QED
  BY <1>1

LEMMA CommitIInv ==
  ASSUME IInv, NEW c \in Connections, Commit(c)
  PROVE  IInv'
<1>0. /\ TypeOK
      /\ OneTransactionPerReference
      /\ Shapes
      /\ LocksAreHeld
      /\ LedgerFollowsPhase
      /\ LockedRowsAreFresh
      /\ SavedRowsAreLocked
      /\ LockOrder
      /\ SettledAtMostOnce
  BY DEF IInv
<1> DEFINE t == tx[c]
<1>1. /\ Active(c)
      /\ t \in Transactions
      /\ t.todo = {}
      /\ t.ref \in Refs
      /\ t.type \in MovementTypes
      /\ phase[t.ref] = "active"
      /\ UNCHANGED stocked
  BY <1>0, CommitEffect
<1>2. /\ tx' = [tx EXCEPT ![c] = NoTransaction]
      /\ tx'[c] = NoTransaction
      /\ \A d \in Connections : d # c => tx'[d] = tx[d]
  <2>1. tx' = [tx EXCEPT ![c] = NoTransaction]
    BY <1>0, CommitEffect
  <2> QED
    BY <1>0, <2>1 DEF TypeOK
<1>3. \A p \in Products : /\ lock[p] = c => stock'[p] = t.wrote[p]
                          /\ lock[p] # c => stock'[p] = stock[p]
  BY <1>0, CommitEffect
<1>4. /\ lock' \in [Products -> Connections \cup {Free}]
      /\ \A p \in Products : /\ lock'[p] # c
                             /\ \A d \in Connections :
                                  d # c => (lock'[p] = d <=> lock[p] = d)
  BY <1>0, CommitEffect
<1>5. /\ ledger' \in [Products -> [MovementTypes -> [Refs -> Int]]]
      /\ \A p \in Products, m \in MovementTypes, r \in Refs :
           ledger'[p][m][r] =
             IF lock[p] = c /\ m = t.type /\ r = t.ref
             THEN ledger[p][m][r] + t.qty[p]
             ELSE ledger[p][m][r]
  BY <1>0, CommitEffect
<1>6. /\ phase' \in [Refs -> Phases]
      /\ phase'[t.ref] = IF t.op = "reserve" THEN "held" ELSE "closed"
      /\ \A r \in Refs : r # t.ref => phase'[r] = phase[r]
  BY <1>0, CommitEffect
<1>7. ~Active(c)'
  BY <1>2 DEF Active, NoTransaction
<1>8. TypeOK'
  <2>1. stock' \in [Products -> [available : Nat, reserved : Int]]
    <3>1. ASSUME NEW p \in Products PROVE stock'[p] \in [available : Nat, reserved : Int]
      BY <1>0, <1>1, <1>3, <3>1 DEF TypeOK, LocksAreHeld, Transactions, Row
    <3>2. stock' = [p \in Products |-> stock'[p]]
      BY DEF Commit
    <3> QED
      BY <3>1, <3>2
  <2>2. NoTransaction \in Transactions
    BY DEF NoTransaction, Transactions, EmptyRow, Row, Nowhere
  <2>3. tx' \in [Connections -> Transactions]
    BY <1>0, <1>2, <2>2 DEF TypeOK
  <2> QED
    BY <1>0, <1>1, <1>4, <1>5, <1>6, <2>1, <2>3 DEF TypeOK
<1>9. OneTransactionPerReference'
  BY <1>0, <1>1, <1>2, <1>6, <1>7 DEF OneTransactionPerReference, Active
<1>10. \A d \in Connections : d # c /\ Active(d) => tx[d].ref # t.ref
  BY <1>0, <1>1 DEF OneTransactionPerReference
<1>11. Shapes'
  <2>1. ASSUME NEW d \in Connections, d # c PROVE ShapeOf(d)'
    <3>1. /\ tx'[d] = tx[d]
          /\ \A q \in Products : lock'[q] = d <=> lock[q] = d
      BY <1>2, <1>4, <2>1
    <3>2. Active(d) => tx[d].ref \in Refs /\ tx[d].ref # t.ref
      BY <1>0, <1>10, <2>1 DEF OneTransactionPerReference
    <3>3. Active(d) => \A q \in Products, m \in MovementTypes :
                         ledger'[q][m][tx[d].ref] = ledger[q][m][tx[d].ref]
      BY <1>5, <3>2
    <3> QED
      BY <1>0, <3>1, <3>3, ShapeKept
  <2> QED
    BY <2>1, <1>7 DEF Shapes, ShapeOf, Active
<1>12. LocksAreHeld'
  BY <1>0, <1>2, <1>4 DEF LocksAreHeld, Active
<1>13. LockedRowsAreFresh'
  <2>1. ASSUME NEW d \in Connections, NEW p \in Products, lock'[p] = d
        PROVE  tx'[d].wrote[p] = NewRow(tx'[d], p, stock'[p])
    <3>1. d # c /\ lock[p] = d /\ tx'[d] = tx[d] /\ stock'[p] = stock[p]
      BY <1>2, <1>3, <1>4, <2>1
    <3> QED
      BY <1>0, <3>1 DEF LockedRowsAreFresh
  <2> QED
    BY <2>1 DEF LockedRowsAreFresh
<1>17. SavedRowsAreLocked'
  BY <1>0, <1>2, <1>4 DEF SavedRowsAreLocked, NoTransaction
<1>14. LockOrder'
  BY <1>0, <1>2, <1>4 DEF LockOrder, IsNext, Held, NoTransaction
<1>15. LedgerFollowsPhase'
  <2>1. ASSUME NEW o \in Orders, NEW p \in Products, o # t.ref
        PROVE  /\ phase'[o] = phase[o]
               /\ \A m \in MovementTypes : ledger'[p][m][o] = ledger[p][m][o]
    BY <1>5, <1>6, <2>1 DEF Refs
  <2>2. ASSUME NEW o \in Orders, NEW p \in Products, o = t.ref, phase'[o] \in {"fresh", "held"}
        PROVE  /\ phase'[o] = "held"
               /\ \A m \in {"RELEASE", "DEDUCT"} : ledger'[p][m][o] = 0
    <3>1. t.op = "reserve" /\ phase'[o] = "held"
      BY <1>6, <2>2
    <3>2. ReserveShape(c)
      BY <1>0, <3>1 DEF Shapes
    <3>3. /\ t.type = "RESERVE"
          /\ \A m \in {"RELEASE", "DEDUCT"} : ledger[p][m][o] = 0
      BY <2>2, <3>2 DEF ReserveShape
    <3>4. ASSUME NEW m \in {"RELEASE", "DEDUCT"} PROVE ledger'[p][m][o] = ledger[p][m][o]
      BY <1>5, <3>3 DEF MovementTypes, Refs
    <3> QED
      BY <3>1, <3>3, <3>4
  <2> QED
    BY <1>0, <2>1, <2>2 DEF LedgerFollowsPhase, MovementTypes
<1>16. SettledAtMostOnce'
  <2>1. ASSUME NEW o \in Orders, NEW p \in Products
        PROVE  Outstanding(o)'[p] \in {0, ledger'[p]["RESERVE"][o]}
    <3> DEFINE R == ledger[p]["RESERVE"][o]
               L == ledger[p]["RELEASE"][o]
               D == ledger[p]["DEDUCT"][o]
    <3>1. R \in Int /\ L \in Int /\ D \in Int /\ t.qty[p] \in Int
      BY <1>0, <1>1 DEF TypeOK, MovementTypes, Refs, Transactions
    <3>2. R - L - D \in {0, R}
      BY <1>0 DEF SettledAtMostOnce, Outstanding
    <3>3. CASE o # t.ref \/ lock[p] # c
      <4>1. \A m \in MovementTypes : ledger'[p][m][o] = ledger[p][m][o]
        BY <1>5, <3>3 DEF Refs
      <4> QED
        BY <3>2, <4>1 DEF Outstanding, MovementTypes
    <3>4. CASE o = t.ref /\ lock[p] = c /\ t.op = "reserve"
      <4>1. ReserveShape(c)
        BY <1>0, <3>4 DEF Shapes
      <4>2. t.type = "RESERVE" /\ L = 0 /\ D = 0
        BY <3>4, <4>1 DEF ReserveShape
      <4>3. /\ ledger'[p]["RESERVE"][o] = R + t.qty[p]
            /\ ledger'[p]["RELEASE"][o] = 0
            /\ ledger'[p]["DEDUCT"][o] = 0
        BY <1>5, <3>4, <4>2 DEF MovementTypes, Refs
      <4> QED
        BY <3>1, <4>3 DEF Outstanding
    <3>5. CASE o = t.ref /\ lock[p] = c /\ t.op = "settle"
      <4>1. SettleShape(c)
        BY <1>0, <3>5 DEF Shapes
      <4>2. t.type \in {"RELEASE", "DEDUCT"} /\ L = 0 /\ D = 0 /\ t.qty[p] = R
        BY <3>5, <4>1 DEF SettleShape
      <4>3. /\ ledger'[p]["RESERVE"][o] = R
            /\ ledger'[p]["RELEASE"][o] = IF t.type = "RELEASE" THEN R ELSE 0
            /\ ledger'[p]["DEDUCT"][o] = IF t.type = "DEDUCT" THEN R ELSE 0
        BY <1>5, <3>1, <3>5, <4>2 DEF MovementTypes, Refs
      <4> QED
        BY <3>1, <4>2, <4>3 DEF Outstanding
    <3>6. o = t.ref => t.op \in {"reserve", "settle"}
      <4>1. t.op = "adjust" => t.ref \in Adjustments
        BY <1>0 DEF Shapes, AdjustShape
      <4> QED
        BY <1>1, <4>1 DEF Transactions, Active
    <3> QED
      BY <3>3, <3>4, <3>5, <3>6
  <2> QED
    BY <2>1 DEF SettledAtMostOnce
<1> QED
  BY <1>8, <1>9, <1>11, <1>12, <1>13, <1>14, <1>15, <1>16, <1>17 DEF IInv
LEMMA InitInventoryIInv ==
  ASSUME IInv, NEW p \in Products, InitInventory(p)
  PROVE  IInv'
<1> USE DEF InitInventory, IInv
<1>1. TypeOK'
  BY DEF TypeOK
<1>2. OneTransactionPerReference' /\ LocksAreHeld' /\ LedgerFollowsPhase'
  BY DEF OneTransactionPerReference, LocksAreHeld, LedgerFollowsPhase, Active
<1>3. Shapes'
  <2>1. Shapes /\ tx' = tx /\ lock' = lock /\ ledger' = ledger
    OBVIOUS
  <2> HIDE DEF InitInventory, IInv
  <2>2. ASSUME NEW c \in Connections
        PROVE  /\ ReserveShape(c)' = ReserveShape(c)
               /\ SettleShape(c)' = SettleShape(c)
               /\ AdjustShape(c)' = AdjustShape(c)
    BY <2>1 DEF ReserveShape, SettleShape, AdjustShape, OnlyRow
  <2> QED
    BY <2>1, <2>2 DEF Shapes
<1>4. SavedRowsAreLocked /\ lock' = lock /\ tx' = tx
  OBVIOUS
<1>5. LockedRowsAreFresh /\ stock' = stock
  OBVIOUS
<1>6. SavedRowsAreLocked'
  <2> HIDE DEF InitInventory, IInv
  <2> QED
    BY <1>4 DEF SavedRowsAreLocked
<1>7. LockedRowsAreFresh'
  <2> HIDE DEF InitInventory, IInv
  <2> QED
    BY <1>4, <1>5 DEF LockedRowsAreFresh, NewRow
<1>8. LockOrder' /\ SettledAtMostOnce'
  BY DEF LockOrder, SettledAtMostOnce, Outstanding, IsNext, Held
<1> QED
  BY <1>1, <1>2, <1>3, <1>6, <1>7, <1>8

(* Every step preserves the invariant.                                     *)
LEMMA NextIInv == IInv /\ [Next]_vars => IInv'
<1> SUFFICES ASSUME IInv, [Next]_vars PROVE IInv'
  OBVIOUS
<1>0. TypeOK /\ LedgerFollowsPhase /\ OneTransactionPerReference /\ Shapes
  BY DEF IInv
<1>1. ASSUME NEW c \in Connections, NEW o \in Orders, NEW b \in Baskets, BeginReserve(c, o, b)
      PROVE  IInv'
  <2>1. /\ phase[o] = "fresh"
        /\ Begin(c, "reserve", "RESERVE", o, b, Listed(b))
    BY <1>1 DEF BeginReserve
  <2>2. /\ b \in [Products -> Int] /\ o \in Refs
        /\ Listed(b) \in SUBSET Products /\ "RESERVE" \in MovementTypes
    BY DEF Listed, Refs, MovementTypes
  <2>3. tx'[c] = [op |-> "reserve", type |-> "RESERVE", ref |-> o, qty |-> b,
                  todo |-> Listed(b), done |-> {}, wrote |-> NoTransaction.wrote]
    BY <1>0, <2>1 DEF Begin, TypeOK
  <2>4. \A p \in Products : lock'[p] # c
    BY <2>1 DEF Begin, IInv, LocksAreHeld, Active
  <2>5. \A p \in Products, m \in {"RESERVE", "RELEASE", "DEDUCT"} : ledger'[p][m][o] = 0
    BY <1>0, <2>1 DEF Begin, LedgerFollowsPhase
  <2>6. /\ tx'[c].ref = o /\ tx'[c].type = "RESERVE"
        /\ tx'[c].qty = b /\ tx'[c].todo = Listed(b)
    BY <2>3
  <2>7. \A p \in Products : b[p] # 0 => p \in Listed(b)
    BY DEF Listed
  <2>8. ReserveShape(c)'
    BY <2>4, <2>5, <2>6, <2>7 DEF ReserveShape
  <2> QED
    BY <2>1, <2>2, <2>8, BeginIInv
<1>2. ASSUME NEW c \in Connections, NEW o \in Orders, NEW type \in {"RELEASE", "DEDUCT"},
             BeginSettle(c, o, type)
      PROVE  IInv'
  <2> DEFINE R == Reservation(o)
  <2>1. /\ phase[o] = "held"
        /\ Begin(c, "settle", type, o, R, Listed(R))
    BY <1>2 DEF BeginSettle, MayBeSettled
  <2>2. /\ R \in [Products -> Int] /\ o \in Refs
        /\ Listed(R) \in SUBSET Products /\ type \in MovementTypes
    BY <1>0 DEF Listed, Refs, MovementTypes, Reservation, TypeOK
  <2>3. tx'[c] = [op |-> "settle", type |-> type, ref |-> o, qty |-> R,
                  todo |-> Listed(R), done |-> {}, wrote |-> NoTransaction.wrote]
    BY <1>0, <2>1 DEF Begin, TypeOK
  <2>4. \A p \in Products, m \in {"RELEASE", "DEDUCT"} : ledger'[p][m][o] = 0
    BY <1>0, <2>1 DEF Begin, LedgerFollowsPhase
  <2>5. \A p \in Products : R[p] = ledger'[p]["RESERVE"][o]
    BY <2>1 DEF Begin, Reservation
  <2>6. SettleShape(c)'
    BY <2>3, <2>4, <2>5 DEF SettleShape, Listed
  <2> QED
    BY <2>1, <2>2, <2>6, BeginIInv
<1>3. ASSUME NEW c \in Connections, NEW a \in Adjustments, NEW p \in Products,
             NEW type \in Kinds, NEW q \in Quantities, BeginAdjust(c, a, p, type, q)
      PROVE  IInv'
  <2> DEFINE Q == [Nowhere EXCEPT ![p] = q]
  <2>1. /\ phase[a] = "fresh"
        /\ Begin(c, "adjust", type, a, Q, {p})
    BY <1>3 DEF BeginAdjust
  <2>2. /\ Q \in [Products -> Int] /\ a \in Refs
        /\ {p} \in SUBSET Products /\ type \in MovementTypes
    BY DEF Refs, Nowhere
  <2>3. tx'[c] = [op |-> "adjust", type |-> type, ref |-> a, qty |-> Q,
                  todo |-> {p}, done |-> {}, wrote |-> NoTransaction.wrote]
    BY <1>0, <2>1 DEF Begin, TypeOK
  <2>4. \A x \in Products : lock'[x] # c
    BY <2>1 DEF Begin, IInv, LocksAreHeld, Active
  <2>5. /\ tx'[c].ref = a /\ tx'[c].type = type
        /\ tx'[c].qty = [Nowhere EXCEPT ![p] = q] /\ tx'[c].todo = {p}
    BY <2>3
  <2>6. Nowhere' = Nowhere
    BY DEF Nowhere
  <2>7. OnlyRow(c, p, q)'
    BY <2>4, <2>5, <2>6 DEF OnlyRow
  <2>8. AdjustShape(c)'
    BY <2>2, <2>5, <2>7 DEF AdjustShape
  <2> QED
    BY <2>1, <2>2, <2>8, BeginIInv
<1>4. ASSUME NEW c \in Connections, TakeRow(c) PROVE IInv'
  BY <1>4, TakeRowIInv
<1>5. ASSUME NEW c \in Connections, RejectRow(c) PROVE IInv'
  <2>1. Active(c) /\ RollBack(c)
    BY <1>0, <1>5 DEF RejectRow, IsNext, OneTransactionPerReference, NoTransaction
  <2> QED
    BY <2>1, RollBackIInv
<1>6. ASSUME NEW c \in Connections, Fail(c) PROVE IInv'
  <2>1. Active(c) /\ RollBack(c)
    BY <1>6 DEF Fail, Active
  <2> QED
    BY <2>1, RollBackIInv
<1>7. ASSUME NEW c \in Connections, Commit(c) PROVE IInv'
  BY <1>7, CommitIInv
<1>8. ASSUME NEW p \in Products, InitInventory(p) PROVE IInv'
  BY <1>8, InitInventoryIInv
<1>9. CASE UNCHANGED vars
  <2> USE <1>9 DEF vars, IInv
  <2>1. TypeOK'
    BY DEF TypeOK
  <2>2. OneTransactionPerReference' /\ LocksAreHeld' /\ LedgerFollowsPhase'
    BY DEF OneTransactionPerReference, LocksAreHeld, LedgerFollowsPhase, Active
  <2>3. Shapes'
    BY DEF Shapes, ReserveShape, SettleShape, AdjustShape, OnlyRow
  <2>4. LockedRowsAreFresh' /\ SavedRowsAreLocked'
    BY DEF LockedRowsAreFresh, SavedRowsAreLocked, NewRow
  <2>5. LockOrder' /\ SettledAtMostOnce'
    BY DEF LockOrder, SettledAtMostOnce, Outstanding, IsNext, Held
  <2> HIDE <1>9 DEF vars, IInv
  <2> QED
    BY <2>1, <2>2, <2>3, <2>4, <2>5 DEF IInv
<1> QED
  BY <1>1, <1>2, <1>3, <1>4, <1>5, <1>6, <1>7, <1>8, <1>9 DEF Next

LEMMA Invariance == Spec => []IInv
<1> QED
  BY InitIInv, NextIInv, PTL DEF Spec

-----------------------------------------------------------------------------

(* The rows, locks and transactions always have their types; in particular *)
(* no committed available quantity is ever negative, whatever              *)
(* administrators ask adjustInventory for.                                 *)
THEOREM TypeCorrect == Spec => []TypeOK
<1>1. IInv => TypeOK
  BY DEF IInv
<1> QED
  BY <1>1, Invariance, PTL

(* No transaction of InventoryService overwrites a change that another one *)
(* committed after it read the row.                                        *)
THEOREM NoLostUpdate == Spec => []PendingWritesAreFresh
<1>1. IInv => PendingWritesAreFresh
  BY DEF IInv, LockedRowsAreFresh, SavedRowsAreLocked, PendingWritesAreFresh, TypeOK, Transactions
<1> QED
  BY <1>1, Invariance, PTL

(* An order's reservation is given back or shipped at most once, per       *)
(* product in full.                                                        *)
THEOREM NoDoubleSettlement == Spec => []SettledAtMostOnce
<1>1. IInv => SettledAtMostOnce
  BY DEF IInv
<1> QED
  BY <1>1, Invariance, PTL
(* A set of natural numbers with an upper bound has a greatest element.    *)
LEMMA GreatestElement ==
  ASSUME NEW n \in Nat, NEW S, S \subseteq 0..n, S # {}
  PROVE  \E m \in S : \A x \in S : x <= m
<1> DEFINE T == {y \in 0..n : n - y \in S}
<1>1. T \subseteq Nat /\ T # {}
  <2>1. PICK s \in S : TRUE
    OBVIOUS
  <2>2. s \in 0..n /\ n - s \in 0..n /\ n - (n - s) = s
    BY <2>1
  <2>3. n - s \in T
    BY <2>1, <2>2
  <2>4. T \subseteq Nat
    OBVIOUS
  <2> HIDE DEF T
  <2> QED
    BY <2>3, <2>4
<1>2. PICK y \in T : \A z \in T : y <= z
  <2> HIDE DEF T
  <2> QED
    BY <1>1, SmallestNumber
<1>3. n - y \in S
  OBVIOUS
<1>4. ASSUME NEW x \in S PROVE x <= n - y
  <2>1. x \in 0..n /\ n - x \in 0..n /\ n - (n - x) = x
    OBVIOUS
  <2>2. n - x \in T
    BY <2>1, <1>4
  <2>3. y <= n - x
    <3> HIDE DEF T
    <3> QED
      BY <1>2, <2>2
  <2>4. x \in Int /\ y \in Int /\ n \in Int
    BY <2>1, <1>1
  <2> HIDE DEF T
  <2> QED
    BY <2>3, <2>4
<1> QED
  BY <1>3, <1>4

(* Concurrent checkouts, releases and adjustments never wait for each      *)
(* other's rows in a cycle, for any number of them and any finite number   *)
(* of products: look at the greatest row that anyone in the cycle waits    *)
(* for; its holder waits for a greater one.                                *)
THEOREM DeadlockFree ==
  ASSUME NEW n \in Nat, Products \subseteq 0..n
  PROVE  Spec => []NoDeadlock
<1>1. ASSUME IInv PROVE NoDeadlock
  <2>1. SUFFICES ASSUME NEW S \in SUBSET Connections, S # {},
                        \A c \in S : \E d \in S : WaitsFor(c, d)
                 PROVE  FALSE
    BY DEF NoDeadlock
  <2> DEFINE Wanted == {p \in Products : \E c \in S : IsNext(c, p)}
  <2>2. PICK c0 \in S : TRUE
    BY <2>1
  <2>3. Wanted # {}
    BY <2>1, <2>2 DEF WaitsFor
  <2>4. PICK p \in Wanted : \A x \in Wanted : x <= p
    <3> HIDE DEF Wanted
    <3>1. Wanted \subseteq 0..n
      BY DEF Wanted
    <3> QED
      BY <2>3, <3>1, GreatestElement
  <2>5. PICK c \in S : IsNext(c, p)
    OBVIOUS
  <2>6. PICK d \in S : WaitsFor(c, d)
    BY <2>1
  <2>7. PICK q \in Products : IsNext(c, q) /\ lock[q] = d
    BY <2>6 DEF WaitsFor
  <2>8. q = p
    <3>1. q <= p /\ p <= q
      BY <2>5, <2>7 DEF IsNext
    <3>2. q \in Nat /\ p \in Nat
      OBVIOUS
    <3> QED
      BY <3>1, <3>2
  <2>9. PICK e \in S : WaitsFor(d, e)
    BY <2>1
  <2>10. PICK r \in Products : IsNext(d, r)
    BY <2>9 DEF WaitsFor
  <2>11. p < r
    BY <1>1, <2>7, <2>8, <2>10 DEF IInv, LockOrder, Held
  <2>12. r \in Wanted
    BY <2>10
  <2>13. p \in Nat /\ r \in Nat
    OBVIOUS
  <2> QED
    BY <2>4, <2>11, <2>12, <2>13
<1> QED
  BY <1>1, Invariance, PTL
-----------------------------------------------------------------------------
(* The row-by-row transactions implement the atomic operations of Stock.   *)

Idle == UNCHANGED <<stock, Holdings>>

(* Committing a reservation is Stock's Reserve: the basket was covered     *)
(* when its rows were locked, and they have not changed since.             *)
LEMMA CommitReserve ==
  ASSUME IInv, NEW c \in Connections, Commit(c), tx[c].op = "reserve"
  PROVE  \E o \in Orders, b \in Baskets : Promise!Reserve(o, b)
<1> DEFINE t == tx[c]
<1>0. TypeOK /\ OneTransactionPerReference /\ Shapes /\ LocksAreHeld /\ LockedRowsAreFresh /\ SavedRowsAreLocked
  BY DEF IInv
<1>1. ReserveShape(c)
  BY <1>0 DEF Shapes
<1>a. PICK o \in Orders, b \in Baskets : o = t.ref /\ b = t.qty
  BY <1>1 DEF ReserveShape
<1>2. /\ o \in Orders /\ b \in Baskets /\ b \in [Products -> Int]
      /\ t.type = "RESERVE"
      /\ t.todo = {}
      /\ \A p \in Products, m \in {"RESERVE", "RELEASE", "DEDUCT"} : ledger[p][m][o] = 0
  <2>1. t.todo = {}
    BY <1>0, CommitEffect
  <2> QED
    BY <1>1, <1>a, <2>1 DEF ReserveShape
<1>3. \A p \in Products, m \in MovementTypes, r \in Refs :
        ledger'[p][m][r] =
          IF lock[p] = c /\ m = t.type /\ r = o
          THEN ledger[p][m][r] + b[p]
          ELSE ledger[p][m][r]
  BY <1>0, <1>a, CommitEffect
<1>4. ASSUME NEW p \in Products
      PROVE  /\ b[p] \in 0..stock[p].available
             /\ stock'[p] = [available |-> stock[p].available - b[p],
                             reserved  |-> stock[p].reserved + b[p]]
             /\ Outstanding(o)'[p] = b[p]
  <2>1. stock[p] \in [available : Nat, reserved : Int] /\ b[p] \in Int
    BY <1>0, <1>2 DEF TypeOK
  <2>2. /\ ledger'[p]["RELEASE"][o] = 0 /\ ledger'[p]["DEDUCT"][o] = 0
        /\ ledger'[p]["RESERVE"][o] = IF lock[p] = c THEN b[p] ELSE 0
    BY <1>2, <1>3, <2>1 DEF MovementTypes, Refs
  <2>3. CASE lock[p] = c
    <3>1. /\ stock'[p] = t.wrote[p]
          /\ t.wrote[p] = NewRow(t, p, stock[p])
          /\ t.wrote[p].available >= 0
          /\ b[p] > 0
      <4>1. stock'[p] = t.wrote[p]
        BY <1>0, <2>3, CommitEffect
      <4> QED
        BY <1>0, <1>1, <1>a, <2>3, <4>1 DEF LockedRowsAreFresh, LocksAreHeld, ReserveShape
    <3>2. NewRow(t, p, stock[p]) = [available |-> stock[p].available - b[p],
                                    reserved  |-> stock[p].reserved + b[p]]
      BY <1>a, <2>1 DEF NewRow, ShelfChange, PileChange
    <3> QED
      BY <2>1, <2>2, <2>3, <3>1, <3>2 DEF Outstanding
  <2>4. CASE lock[p] # c
    <3>1. stock'[p] = stock[p] /\ b[p] = 0
      <4>1. stock'[p] = stock[p]
        BY <1>0, <2>4, CommitEffect
      <4> QED
        BY <1>1, <1>a, <1>2, <2>4, <4>1 DEF ReserveShape
    <3> QED
      BY <2>1, <2>2, <2>4, <3>1 DEF Outstanding
  <2> QED
    BY <2>3, <2>4
<1>5. Outstanding(o) = Promise!NothingHeld
  BY <1>2 DEF Outstanding, Promise!NothingHeld
<1>6. Outstanding(o)' = b
  BY <1>2, <1>4 DEF Outstanding
<1>7. ASSUME NEW r \in Orders, r # o PROVE Outstanding(r)' = Outstanding(r)
  BY <1>3, <1>7 DEF Outstanding, MovementTypes, Refs
<1>8. Holdings' = [Holdings EXCEPT ![o] = b]
  BY <1>2, <1>6, <1>7 DEF Holdings
<1>9. stock' = Promise!Move(Promise!Negated(b), b)
  <2>1. stock' = [p \in Products |-> stock'[p]]
    BY DEF Commit
  <2> QED
    BY <1>0, <1>2, <1>4, <2>1 DEF Promise!Move, Promise!Negated, TypeOK
<1>10. Promise!Covers(b)
  BY <1>4 DEF Promise!Covers
<1> QED
  BY <1>2, <1>5, <1>8, <1>9, <1>10 DEF Promise!Reserve, Holdings

(* Committing a release or a deduction is Stock's Release or Deduct: the   *)
(* RESERVE movements it read are still all the order has.                  *)
LEMMA CommitSettle ==
  ASSUME IInv, NEW c \in Connections, Commit(c), tx[c].op = "settle"
  PROVE  \E o \in Orders : Promise!Release(o) \/ Promise!Deduct(o)
<1> DEFINE t == tx[c]
           back == t.type = "RELEASE"
<1>0. TypeOK /\ OneTransactionPerReference /\ Shapes /\ LockedRowsAreFresh /\ SavedRowsAreLocked
  BY DEF IInv
<1>1. SettleShape(c)
  BY <1>0 DEF Shapes
<1>a. PICK o \in Orders : o = t.ref
  BY <1>1 DEF SettleShape
<1>2. /\ o \in Orders
      /\ t.qty \in [Products -> Int]
      /\ t.type \in {"RELEASE", "DEDUCT"}
      /\ t.todo = {}
      /\ \A p \in Products : /\ t.qty[p] = ledger[p]["RESERVE"][o]
                             /\ ledger[p]["RELEASE"][o] = 0
                             /\ ledger[p]["DEDUCT"][o] = 0
  <2>1. t.todo = {} /\ t \in Transactions
    BY <1>0, CommitEffect
  <2> QED
    BY <1>1, <1>a, <2>1 DEF SettleShape, Transactions
<1>3. \A p \in Products, m \in MovementTypes, r \in Refs :
        ledger'[p][m][r] =
          IF lock[p] = c /\ m = t.type /\ r = o
          THEN ledger[p][m][r] + t.qty[p]
          ELSE ledger[p][m][r]
  BY <1>0, <1>a, CommitEffect
<1>b. \A p \in Products : /\ lock[p] = c => stock'[p] = t.wrote[p]
                          /\ lock[p] # c => stock'[p] = stock[p]
  BY <1>0, CommitEffect
<1>4. ASSUME NEW p \in Products
      PROVE  /\ Outstanding(o)[p] = t.qty[p]
             /\ Outstanding(o)'[p] = 0
             /\ stock'[p] = [available |-> stock[p].available + (IF back THEN t.qty[p] ELSE 0),
                             reserved  |-> stock[p].reserved - t.qty[p]]
  <2>1. stock[p] \in [available : Nat, reserved : Int] /\ t.qty[p] \in Int
    BY <1>0, <1>2 DEF TypeOK
  <2>2. Outstanding(o)[p] = t.qty[p]
    BY <1>2, <2>1 DEF Outstanding
  <2>3. CASE lock[p] = c
    <3>1. stock'[p] = t.wrote[p] /\ t.wrote[p] = NewRow(t, p, stock[p]) /\ t.op = "settle"
      <4>1. stock'[p] = t.wrote[p]
        BY <1>b, <2>3
      <4> QED
        BY <1>0, <2>3, <4>1 DEF LockedRowsAreFresh
    <3>2. NewRow(t, p, stock[p]) =
            [available |-> stock[p].available + (IF back THEN t.qty[p] ELSE 0),
             reserved  |-> stock[p].reserved - t.qty[p]]
      BY <1>2, <2>1, <3>1 DEF NewRow, ShelfChange, PileChange
    <3>3. /\ ledger'[p]["RESERVE"][o] = t.qty[p]
          /\ ledger'[p]["RELEASE"][o] = IF back THEN t.qty[p] ELSE 0
          /\ ledger'[p]["DEDUCT"][o] = IF back THEN 0 ELSE t.qty[p]
      <4>1. \A m \in MovementTypes :
              ledger'[p][m][o] = IF m = t.type THEN ledger[p][m][o] + t.qty[p] ELSE ledger[p][m][o]
        BY <1>2, <1>3, <2>3 DEF Refs
      <4> QED
        BY <1>2, <2>1, <4>1 DEF MovementTypes
    <3> QED
      BY <2>1, <2>2, <3>1, <3>2, <3>3 DEF Outstanding
  <2>4. CASE lock[p] # c
    <3>1. stock'[p] = stock[p] /\ t.qty[p] = 0
      <4>1. stock'[p] = stock[p]
        BY <1>0, <2>4, CommitEffect
      <4> QED
        BY <1>1, <1>2, <2>4, <4>1 DEF SettleShape
    <3>2. \A m \in MovementTypes : ledger'[p][m][o] = ledger[p][m][o]
      BY <1>2, <1>3, <2>4 DEF Refs
    <3> QED
      BY <1>2, <2>1, <2>2, <3>1, <3>2 DEF Outstanding, MovementTypes
  <2> QED
    BY <2>2, <2>3, <2>4
<1>5. Outstanding(o) = t.qty /\ Outstanding(o)' = Promise!NothingHeld
  BY <1>2, <1>4 DEF Outstanding, Promise!NothingHeld
<1>6. ASSUME NEW r \in Orders, r # o PROVE Outstanding(r)' = Outstanding(r)
  BY <1>3, <1>6 DEF Outstanding, MovementTypes, Refs
<1>7. /\ Holdings[o] = t.qty
      /\ Holdings' = [Holdings EXCEPT ![o] = Promise!NothingHeld]
  BY <1>2, <1>5, <1>6 DEF Holdings
<1>8. stock' = [p \in Products |-> stock'[p]]
  BY DEF Commit
<1>9. CASE back
  <2>1. stock' = Promise!Move(t.qty, Promise!Negated(t.qty))
    BY <1>0, <1>2, <1>4, <1>8, <1>9 DEF Promise!Move, Promise!Negated, TypeOK
  <2> QED
    BY <1>2, <1>7, <2>1 DEF Promise!Release
<1>10. CASE ~back
  <2>1. stock' = Promise!Move(Promise!NothingHeld, Promise!Negated(t.qty))
    BY <1>0, <1>2, <1>4, <1>8, <1>10
    DEF Promise!Move, Promise!Negated, Promise!NothingHeld, TypeOK
  <2> QED
    BY <1>2, <1>7, <2>1 DEF Promise!Deduct
<1> QED
  BY <1>2, <1>9, <1>10

(* Committing an adjustment is Stock's Adjust.                             *)
LEMMA CommitAdjust ==
  ASSUME IInv, NEW c \in Connections, Commit(c), tx[c].op = "adjust"
  PROVE  \E p \in Products, d \in {0} \cup Quantities \cup {-q : q \in Quantities} :
            Promise!Adjust(p, d)
<1> DEFINE t == tx[c]
<1>0. TypeOK /\ OneTransactionPerReference /\ Shapes /\ LocksAreHeld /\ LockedRowsAreFresh /\ SavedRowsAreLocked
  BY DEF IInv
<1>1. AdjustShape(c)
  BY <1>0 DEF Shapes
<1>2. t.todo = {}
  BY <1>0, CommitEffect
<1>3. PICK p \in Products, q \in Quantities :
        /\ t.qty = [Nowhere EXCEPT ![p] = q]
        /\ \A x \in Products : lock[x] = c <=> x = p
  BY <1>1, <1>2 DEF AdjustShape, OnlyRow
<1>4. q \in Int /\ t.qty[p] = q /\ stock[p] \in [available : Nat, reserved : Int]
  BY <1>0, <1>3 DEF Nowhere, TypeOK
<1> DEFINE d == ShelfChange(t.type, "adjust", q)
<1>5. d \in {0, q, -q}
  BY <1>4 DEF ShelfChange
<1>6. /\ stock'[p] = NewRow(t, p, stock[p])
      /\ stock'[p].available >= 0
      /\ \A x \in Products : x # p => stock'[x] = stock[x]
  <2>1. \A x \in Products : /\ lock[x] = c => stock'[x] = t.wrote[x]
                            /\ lock[x] # c => stock'[x] = stock[x]
    BY <1>0, CommitEffect
  <2>2. lock[p] = c /\ t.wrote[p] = NewRow(t, p, stock[p]) /\ t.wrote[p].available >= 0
    BY <1>0, <1>3 DEF LockedRowsAreFresh, LocksAreHeld
  <2> QED
    BY <1>3, <2>1, <2>2
<1>7. NewRow(t, p, stock[p]) = [available |-> stock[p].available + d,
                                reserved  |-> stock[p].reserved]
  BY <1>4, <1>5 DEF NewRow, PileChange
<1>8. stock' = [stock EXCEPT ![p].available = @ + d]
  <2>1. stock' = [x \in Products |-> stock'[x]]
    BY DEF Commit
  <2> HIDE DEF d
  <2> QED
    BY <1>0, <1>4, <1>6, <1>7, <2>1 DEF TypeOK
<1>9. stock[p].available + d >= 0
  BY <1>6, <1>7
<1>10. UNCHANGED Holdings
  <2>1. ASSUME NEW o \in Orders PROVE Outstanding(o)' = Outstanding(o)
    <3>1. o # t.ref /\ o \in Refs
      BY <1>1 DEF AdjustShape, Refs
    <3>2. \A x \in Products, m \in MovementTypes : ledger'[x][m][o] = ledger[x][m][o]
      BY <1>0, <3>1, CommitEffect
    <3> QED
      BY <3>2 DEF Outstanding, MovementTypes
  <2> QED
    BY <2>1 DEF Holdings
<1> QED
  BY <1>3, <1>5, <1>8, <1>9, <1>10 DEF Promise!Adjust

(* Every step of a service transaction is a step of Stock or none at all.  *)
LEMMA StepImplements ==
  IInv /\ [Next]_vars => [Promise!StockNext]_(Promise!stockVars)
<1> SUFFICES ASSUME IInv, [Next]_vars
             PROVE  Promise!StockNext \/ Idle
  BY DEF Promise!stockVars, Idle
<1>0. TypeOK
  BY DEF IInv
<1>1. ASSUME UNCHANGED <<stock, ledger>> PROVE Idle
  BY <1>1 DEF Idle, Holdings, Outstanding
<1>2. ASSUME NEW c \in Connections, Commit(c) PROVE Promise!StockNext
  <2>1. tx[c].op \in {"reserve", "settle", "adjust"}
    BY <1>0, <1>2 DEF TypeOK, Transactions, Commit
  <2>2. CASE tx[c].op = "reserve"
    BY <1>2, <2>2, CommitReserve DEF Promise!StockNext
  <2>3. CASE tx[c].op = "settle"
    BY <1>2, <2>3, CommitSettle DEF Promise!StockNext
  <2>4. CASE tx[c].op = "adjust"
    BY <1>2, <2>4, CommitAdjust DEF Promise!StockNext
  <2> QED
    BY <2>1, <2>2, <2>3, <2>4
<1>3. (\E c \in Connections : Commit(c)) \/ UNCHANGED <<stock, ledger>>
  BY DEF Next, vars, BeginReserve, BeginSettle, BeginAdjust, Begin, TakeRow, RejectRow,
         Fail, RollBack, InitInventory
<1> QED
  BY <1>1, <1>2, <1>3

(* InventoryService's row-locking transactions implement the atomic stock  *)
(* operations that Stock promises, for any number of concurrent callers.   *)
THEOREM Refinement == Spec => ImplementsStock
<1>1. Init => Promise!StockInit
  <2> SUFFICES ASSUME Init PROVE Promise!StockInit
    OBVIOUS
  <2>1. stock = [p \in Products |-> [available |-> AvailableAtStart[p], reserved |-> 0]]
    BY DEF Init
  <2>2. Holdings = [o \in Orders |-> Promise!NothingHeld]
    BY DEF Init, Holdings, Outstanding, Promise!NothingHeld, MovementTypes, Refs
  <2> QED
    BY <2>1, <2>2 DEF Promise!StockInit
<1> QED
  BY <1>1, Invariance, StepImplements, PTL DEF Spec, ImplementsStock, Promise!StockSpec

-----------------------------------------------------------------------------
(* The movements account for every unit.                                   *)

Explained(p) ==
    /\ stock[p].available =
          AvailableAtStart[p]
          + Moved(p, "ADD", Adjustments) + Moved(p, "ADJUST", Adjustments)
          - Moved(p, "DEDUCT", Adjustments)
          - Moved(p, "RESERVE", Orders) + Moved(p, "RELEASE", Orders)
    /\ stock[p].reserved =
          Moved(p, "RESERVE", Orders) - Moved(p, "RELEASE", Orders)
          - Moved(p, "DEDUCT", Orders)

LEMMA MovedType ==
  ASSUME TypeOK, NEW p \in Products, NEW m \in MovementTypes,
         NEW refs \in SUBSET Refs, IsFiniteSet(refs)
  PROVE  Moved(p, m, refs) \in Int
<1>1. \A r \in refs : ledger[p][m][r] \in Int
  BY DEF TypeOK
<1> QED
  BY <1>1, SumType DEF Moved

(* A movement of q units with reference r adds q to a total that counts r. *)
LEMMA MovedStep ==
  ASSUME TypeOK, TypeOK', NEW p \in Products, NEW m \in MovementTypes,
         NEW refs \in SUBSET Refs, IsFiniteSet(refs), NEW r \in Refs, NEW q \in Int,
         \A x \in refs : ledger'[p][m][x] = IF x = r THEN ledger[p][m][x] + q
                                                    ELSE ledger[p][m][x]
  PROVE  Moved(p, m, refs)' = Moved(p, m, refs) + (IF r \in refs THEN q ELSE 0)
<1> DEFINE f == ledger[p][m]
           h == ledger'[p][m]
<1>1. \A x \in refs : f[x] \in Int /\ h[x] \in Int
  BY DEF TypeOK
<1>2. Moved(p, m, refs) = SumFunctionOnSet(f, refs) /\ Moved(p, m, refs)' = SumFunctionOnSet(h, refs)
  BY DEF Moved
<1>3. \A x \in refs : h[x] = IF x = r THEN f[x] + q ELSE f[x]
  OBVIOUS
<1>4. SumFunctionOnSet(f, refs) \in Int
  BY <1>1, SumType
<1> HIDE DEF f, h
<1>5. CASE r \in refs
  <2>1. SumFunctionOnSet(h, refs) = SumFunctionOnSet(f, refs) + (h[r] - f[r])
    BY <1>1, <1>3, <1>5, SumOfChanged
  <2> QED
    BY <1>1, <1>2, <1>3, <1>4, <1>5, <2>1
<1>6. CASE r \notin refs
  <2>1. SumFunctionOnSet(h, refs) = SumFunctionOnSet(f, refs)
    BY <1>3, <1>6, SumOfEqual
  <2> QED
    BY <1>2, <1>4, <1>6, <2>1
<1> QED
  BY <1>5, <1>6

(* Whatever its kind, a transaction changes a row as its movements say.    *)
LEMMA CommitIsExplained ==
  ASSUME IsFiniteSet(Orders), IsFiniteSet(Adjustments), IInv, TypeOK',
         NEW c \in Connections, Commit(c), NEW p \in Products, Explained(p)
  PROVE  Explained(p)'
<1> DEFINE t == tx[c]
           q == IF lock[p] = c THEN t.qty[p] ELSE 0
<1>0. TypeOK /\ OneTransactionPerReference /\ Shapes /\ LockedRowsAreFresh /\ SavedRowsAreLocked
  BY DEF IInv
<1>1. /\ t \in Transactions /\ t.ref \in Refs /\ t.type \in MovementTypes /\ Active(c)
      /\ lock[p] = c => stock'[p] = t.wrote[p]
      /\ lock[p] # c => stock'[p] = stock[p]
      /\ \A m \in MovementTypes, r \in Refs :
           ledger'[p][m][r] = IF lock[p] = c /\ m = t.type /\ r = t.ref
                              THEN ledger[p][m][r] + t.qty[p] ELSE ledger[p][m][r]
  <2>1. t \in Transactions /\ t.ref \in Refs /\ t.type \in MovementTypes /\ Active(c)
    BY <1>0, CommitEffect
  <2>2. /\ lock[p] = c => stock'[p] = t.wrote[p]
        /\ lock[p] # c => stock'[p] = stock[p]
    BY <1>0, CommitEffect
  <2>3. ASSUME NEW m \in MovementTypes, NEW r \in Refs
        PROVE  ledger'[p][m][r] = IF lock[p] = c /\ m = t.type /\ r = t.ref
                                  THEN ledger[p][m][r] + t.qty[p] ELSE ledger[p][m][r]
    BY <1>0, CommitLedger
  <2> QED
    BY <2>1, <2>2, <2>3
<1>2. q \in Int
  <2>1. t.qty \in [Products -> Int]
    <3> HIDE DEF t, q
    <3> QED
      BY <1>1 DEF Transactions
  <2> QED
    BY <2>1
<1>3. ASSUME NEW m \in MovementTypes, NEW refs \in SUBSET Refs, IsFiniteSet(refs)
      PROVE  /\ Moved(p, m, refs) \in Int
             /\ Moved(p, m, refs)' = Moved(p, m, refs)
                                     + (IF m = t.type /\ t.ref \in refs THEN q ELSE 0)
  <2> DEFINE moved == IF m = t.type THEN q ELSE 0
  <2>1. moved \in Int
    BY <1>2
  <2>2. \A x \in refs : ledger'[p][m][x] = IF x = t.ref THEN ledger[p][m][x] + moved
                                                       ELSE ledger[p][m][x]
    <3>1. \A x \in refs : ledger[p][m][x] \in Int
      BY <1>0 DEF TypeOK
    <3> QED
      BY <1>1, <3>1
  <2>3. Moved(p, m, refs) \in Int
    BY <1>0, <1>3, MovedType
  <2> HIDE DEF moved
  <2>4. Moved(p, m, refs)' = Moved(p, m, refs) + (IF t.ref \in refs THEN moved ELSE 0)
    BY <1>0, <1>1, <1>3, <2>1, <2>2, MovedStep
  <2> QED
    BY <2>3, <2>4 DEF moved
<1>4. stock[p] \in [available : Nat, reserved : Int]
  BY <1>0 DEF TypeOK
<1>5. /\ stock'[p].available = stock[p].available + ShelfChange(t.type, t.op, q)
      /\ stock'[p].reserved = stock[p].reserved + PileChange(t.type, t.op, q)
  <2>1. CASE lock[p] = c
    <3>1. stock'[p] = NewRow(t, p, stock[p])
      BY <1>0, <1>1, <2>1 DEF LockedRowsAreFresh
    <3>2. q = t.qty[p]
      BY <2>1
    <3> HIDE DEF q, t
    <3> QED
      BY <3>1, <3>2 DEF NewRow
  <2>2. CASE lock[p] # c
    BY <1>1, <1>4, <2>2 DEF ShelfChange, PileChange
  <2> QED
    BY <2>1, <2>2
<1>6. /\ t.op \in {"reserve", "settle", "adjust"}
      /\ t.op = "reserve" => t.ref \in Orders /\ t.ref \notin Adjustments /\ t.type = "RESERVE"
      /\ t.op = "settle" => t.ref \in Orders /\ t.ref \notin Adjustments /\ t.type \in {"RELEASE", "DEDUCT"}
      /\ t.op = "adjust" => t.ref \in Adjustments /\ t.ref \notin Orders
  BY <1>0, <1>1 DEF Shapes, ReserveShape, SettleShape, AdjustShape, Active, Transactions
<1>7. AvailableAtStart[p] \in Int /\ AvailableAtStart' = AvailableAtStart
  BY DEF AvailableAtStart
<1>8. \A m \in MovementTypes, refs \in {Orders, Adjustments} :
         /\ Moved(p, m, refs) \in Int
         /\ Moved(p, m, refs)' = Moved(p, m, refs) + (IF m = t.type /\ t.ref \in refs THEN q ELSE 0)
  BY <1>3 DEF Refs
<1> HIDE DEF q, t
<1>9. CASE t.op = "reserve"
  BY <1>2, <1>4, <1>5, <1>6, <1>7, <1>8, <1>9 DEF Explained, ShelfChange, PileChange, MovementTypes
<1>10. CASE t.op = "settle"
  BY <1>2, <1>4, <1>5, <1>6, <1>7, <1>8, <1>10 DEF Explained, ShelfChange, PileChange, MovementTypes
<1>11. CASE t.op = "adjust"
  BY <1>2, <1>4, <1>5, <1>6, <1>7, <1>8, <1>11, <1>1 DEF Explained, ShelfChange, PileChange, MovementTypes
<1> QED
  BY <1>6, <1>9, <1>10, <1>11

LEMMA NextIsExplained ==
  ASSUME IsFiniteSet(Orders), IsFiniteSet(Adjustments), IInv, TypeOK', [Next]_vars,
         LedgerExplainsStock
  PROVE  LedgerExplainsStock'
<1>1. (\E c \in Connections : Commit(c)) \/ UNCHANGED <<stock, ledger>>
  BY DEF Next, vars, BeginReserve, BeginSettle, BeginAdjust, Begin, TakeRow, RejectRow,
         Fail, RollBack, InitInventory
<1>2. CASE UNCHANGED <<stock, ledger>>
  BY <1>2 DEF LedgerExplainsStock, Moved, AvailableAtStart
<1>3. ASSUME NEW c \in Connections, Commit(c) PROVE LedgerExplainsStock'
  <2>1. \A p \in Products : Explained(p)
    BY DEF LedgerExplainsStock, Explained
  <2>2. \A p \in Products : Explained(p)'
    BY <1>3, <2>1, CommitIsExplained
  <2> QED
    BY <2>2 DEF LedgerExplainsStock, Explained
<1> QED
  BY <1>1, <1>2, <1>3

(* The movements of any finite number of orders and adjustments, however   *)
(* their transactions interleave, fail or are refused, add up to the rows: *)
(* no unit appears, disappears or stays reserved without a movement that   *)
(* says so.                                                                *)
THEOREM LedgerIsComplete ==
  ASSUME IsFiniteSet(Orders), IsFiniteSet(Adjustments)
  PROVE  Spec => []LedgerExplainsStock
<1>1. Init => LedgerExplainsStock
  <2> SUFFICES ASSUME Init, NEW p \in Products PROVE Explained(p)
    BY DEF LedgerExplainsStock, Explained
  <2>1. ASSUME NEW m \in MovementTypes, NEW refs \in SUBSET Refs, IsFiniteSet(refs)
        PROVE  Moved(p, m, refs) = 0
    <3>1. \A r \in refs : ledger[p][m][r] = 0
      BY DEF Init
    <3> QED
      BY <2>1, <3>1, SumOfZeros DEF Moved
  <2>2. \A m \in MovementTypes, refs \in {Orders, Adjustments} : Moved(p, m, refs) = 0
    BY <2>1 DEF Refs
  <2>3. AvailableAtStart[p] \in Int
    BY DEF AvailableAtStart
  <2> QED
    BY <2>2, <2>3 DEF Init, Explained, MovementTypes
<1>2. IInv /\ IInv' /\ [Next]_vars /\ LedgerExplainsStock => LedgerExplainsStock'
  BY NextIsExplained DEF IInv
<1> QED
  BY <1>1, <1>2, Invariance, PTL DEF Spec
=============================================================================
