--------------------------- MODULE CatalogProofs ---------------------------
(***************************************************************************)
(* Theorems about Catalog, for any products, categories, administrators'   *)
(* tasks and visitors.  The lemmas are about its steps, so that those of   *)
(* Cart, which takes them too, can use them.                               *)
(***************************************************************************)
EXTENDS Catalog, TLAPS

(* What a task has read when it is about to write.                         *)
Shape(k) ==
    /\ k.step = "insert" => k.row \in ProductRows
    /\ k.step = "stock" => k.id \in Products
    /\ k.step = "save product" => k.id \in Products /\ product[k.id] # Absent /\ k.row \in ProductRows
    /\ k.step = "remove" => k.id \in Products /\ product[k.id] # Absent
    /\ k.step = "save category" => k.id \in Categories /\ k.row \in Parents
    /\ k.step = "delete" => k.id \in Categories
    /\ \A p \in k.products : product[p] # Absent

TasksHold == \A t \in Tasks : Shape(task[t])

(* The inductive invariant.                                                *)
CatalogInv == CatalogTypeOK /\ TasksHold /\ ReferencesHold /\ ProductsAreStocked

USE CatalogAssumption, RowsAssumption

-----------------------------------------------------------------------------
(* Tasks                                                                   *)

LEMMA NewTaskTyped == NewTask \in TaskRecords
BY DEF NewTask, TaskRecords

LEMMA StepTyped ==
  ASSUME CatalogTypeOK, NEW t \in Tasks, NEW step, Step(t, step),
         step \in {"done", "failed", "unstocked"}
  PROVE  /\ task' \in [Tasks -> TaskRecords]
         /\ \A s \in Tasks \ {t} : task'[s] = task[s]
         /\ task'[t].step = step /\ task'[t].id = task[t].id
         /\ task'[t].products = task[t].products
<1> DEFINE k == [task[t] EXCEPT !.step = step]
<1>1. task[t] \in TaskRecords
  BY DEF CatalogTypeOK
<1>2. /\ k \in TaskRecords
      /\ k.step = step /\ k.id = task[t].id /\ k.products = task[t].products
  BY <1>1 DEF TaskRecords
<1>3. task' = [task EXCEPT ![t] = k]
  BY DEF Step
<1> HIDE DEF k
<1> QED
  BY <1>2, <1>3 DEF CatalogTypeOK

LEMMA TakeTyped ==
  ASSUME CatalogTypeOK, NEW t \in Tasks, NEW step, NEW id, NEW row, Take(t, step, id, row),
         step \in {"insert", "stock", "save product", "remove", "delete"},
         id \in Products \cup Categories \cup {Nothing},
         row \in ProductRows \cup {Nothing}
  PROVE  /\ task' \in [Tasks -> TaskRecords]
         /\ \A s \in Tasks \ {t} : task'[s] = task[s]
         /\ task'[t].step = step /\ task'[t].id = id /\ task'[t].row = row
         /\ task'[t].products = {}
<1> DEFINE k == [NewTask EXCEPT !.step = step, !.id = id, !.row = row]
<1>1. k \in TaskRecords
  BY DEF NewTask, TaskRecords
<1>2. /\ k.step = step /\ k.id = id /\ k.row = row /\ k.products = {}
  BY DEF NewTask
<1>3. task' = [task EXCEPT ![t] = k]
  BY DEF Take
<1> HIDE DEF k
<1> QED
  BY <1>1, <1>2, <1>3 DEF CatalogTypeOK

(* A finished task needs nothing more, and the others keep what they have  *)
(* read as long as no product vanishes.                                    *)
ProductsStay == \A p \in Products : product[p] # Absent => product'[p] # Absent

LEMMA OthersHold ==
  ASSUME CatalogTypeOK, TasksHold, ProductsStay, NEW s \in Tasks, task'[s] = task[s]
  PROVE  Shape(task[s])'
<1>1. task[s] \in TaskRecords
  BY DEF CatalogTypeOK
<1>2. task[s].products \subseteq Products
  BY <1>1 DEF TaskRecords
<1> QED
  BY <1>2 DEF TasksHold, Shape, ProductsStay

LEMMA StepHolds ==
  ASSUME CatalogTypeOK, TasksHold, ProductsStay, NEW t \in Tasks, NEW step, Step(t, step),
         step \in {"done", "failed", "unstocked"}
  PROVE  TasksHold'
<1> SUFFICES ASSUME NEW s \in Tasks PROVE Shape(task[s])'
  BY DEF TasksHold
<1>1. CASE s # t
  BY <1>1, StepTyped, OthersHold
<1>2. CASE s = t
  <2>1. task'[t].step = step /\ task'[t].products = task[t].products
    BY StepTyped
  <2>2. task[t].products \subseteq Products
    BY DEF CatalogTypeOK, TaskRecords
  <2>3. \A p \in task'[t].products : product'[p] # Absent
    BY <2>1, <2>2 DEF TasksHold, Shape, ProductsStay
  <2> QED
    BY <1>2, <2>1, <2>3 DEF Shape
<1> QED
  BY <1>1, <1>2

LEMMA TakeHolds ==
  ASSUME CatalogTypeOK, TasksHold, ProductsStay, NEW t \in Tasks, NEW step, NEW id, NEW row,
         Take(t, step, id, row),
         step \in {"insert", "stock", "save product", "remove", "delete"},
         id \in Products \cup Categories \cup {Nothing},
         row \in ProductRows \cup {Nothing},
         step = "insert" => row \in ProductRows,
         step = "stock" => id \in Products,
         step = "save product" => id \in Products /\ product'[id] # Absent /\ row \in ProductRows,
         step = "remove" => id \in Products /\ product'[id] # Absent,
         step = "delete" => id \in Categories
  PROVE  TasksHold'
<1> SUFFICES ASSUME NEW s \in Tasks PROVE Shape(task[s])'
  BY DEF TasksHold
<1>1. CASE s # t
  BY <1>1, TakeTyped, OthersHold
<1>2. CASE s = t
  <2>2. /\ task'[t].step = step /\ task'[t].id = id /\ task'[t].row = row
        /\ task'[t].products = {}
    BY TakeTyped
  <2> QED
    BY <1>2, <2>2 DEF Shape
<1> QED
  BY <1>1, <1>2

(* A product stays stocked, or its creation under way, through a step that *)
(* creates none and leaves the tasks that create one alone.                *)
LEMMA StockedKept ==
  ASSUME ProductsAreStocked, stocked \subseteq stocked',
         \A p \in Products : product'[p] # Absent => product[p] # Absent,
         \A t \in Tasks : task[t].step \in {"stock", "unstocked"} =>
                             task'[t].id = task[t].id /\ task'[t].step \in {"stock", "unstocked"}
  PROVE  ProductsAreStocked'
BY DEF ProductsAreStocked

LEMMA TakeKeepsStocked ==
  ASSUME CatalogTypeOK, ProductsAreStocked, NEW t \in Tasks, task[t].step = "idle",
         \A s \in Tasks \ {t} : task'[s] = task[s], UNCHANGED <<product, stocked>>
  PROVE  ProductsAreStocked'
BY StockedKept

LEMMA StepKeepsStocked ==
  ASSUME CatalogTypeOK, ProductsAreStocked, NEW t \in Tasks, NEW step, Step(t, step),
         step \in {"done", "failed", "unstocked"},
         task[t].step \notin {"stock", "unstocked"} \/ step = "unstocked",
         \A p \in Products : product'[p] # Absent => product[p] # Absent,
         UNCHANGED stocked
  PROVE  ProductsAreStocked'
<1>1. task'[t].id = task[t].id /\ task'[t].step = step
  BY StepTyped
<1> QED
  BY <1>1, StepTyped, StockedKept

-----------------------------------------------------------------------------
(* Administrators' steps                                                   *)

(* A request that only reads.                                              *)
LEMMA ReadsKeep ==
  ASSUME CatalogInv, NEW t \in Tasks, task[t].step = "idle", NEW step, NEW id, NEW row,
         Take(t, step, id, row), UNCHANGED <<tables, listingVars>>,
         step \in {"insert", "save product", "remove", "delete"},
         id \in Products \cup Categories \cup {Nothing},
         row \in ProductRows \cup {Nothing},
         step = "insert" => row \in ProductRows,
         step = "save product" => id \in Products /\ product[id] # Absent /\ row \in ProductRows,
         step = "remove" => id \in Products /\ product[id] # Absent,
         step = "delete" => id \in Categories
  PROVE  CatalogInv'
<1> USE DEF CatalogInv, tables
<1>1. CatalogTypeOK'
  BY TakeTyped DEF CatalogTypeOK, listingVars
<1>2. TasksHold'
  BY TakeHolds DEF ProductsStay
<1>3. ReferencesHold'
  BY DEF ReferencesHold, Exists, ParentHolds
<1>4. ProductsAreStocked'
  BY TakeTyped, TakeKeepsStocked
<1> QED
  BY <1>1, <1>2, <1>3, <1>4

(* A request that ends, having written rows that are in order.             *)
LEMMA WritesKeep ==
  ASSUME CatalogInv, NEW t \in Tasks, NEW step, Step(t, step),
         step \in {"done", "failed", "unstocked"},
         task[t].step \notin {"stock", "unstocked"} \/ step = "unstocked",
         category' \in [Categories -> Parents \cup {Absent}],
         product' \in [Products -> ProductRows \cup {Absent}],
         \A p \in Products : product'[p] = Absent <=> product[p] = Absent,
         ReferencesHold', UNCHANGED <<stocked, listingVars>>
  PROVE  CatalogInv'
<1> USE DEF CatalogInv
<1>1. CatalogTypeOK'
  BY StepTyped DEF CatalogTypeOK, listingVars
<1>2. TasksHold'
  BY StepHolds DEF ProductsStay
<1>3. ProductsAreStocked'
  BY StepKeepsStocked
<1> QED
  BY <1>1, <1>2, <1>3

LEMMA RowsTyped ==
  ASSUME CatalogTypeOK, NEW p \in Products
  PROVE  /\ product[p] \in ProductRows \cup {Absent}
         /\ product[p] # Absent => /\ product[p] \in ProductRows
                                  /\ product[p].category \in Categories
         /\ \A row \in ProductRows : row # Absent /\ row.category \in Categories
BY DEF CatalogTypeOK, ProductRows

LEMMA CheckProductKeeps ==
  ASSUME CatalogInv, NEW t \in Tasks, CheckProduct(t), UNCHANGED listingVars
  PROVE  CatalogInv'
<1>1. PICK c \in Categories, price \in Prices, active \in BOOLEAN :
        Take(t, "insert", Nothing, [category |-> c, price |-> price,
                                    active |-> active, removed |-> FALSE])
  BY DEF CheckProduct
<1> DEFINE row == [category |-> c, price |-> price, active |-> active, removed |-> FALSE]
<1>2. row \in ProductRows
  BY DEF ProductRows
<1>3. Take(t, "insert", Nothing, row)
  BY <1>1
<1>4. task[t].step = "idle" /\ UNCHANGED <<tables, listingVars>>
  BY DEF CheckProduct
<1> HIDE DEF row
<1> QED
  BY <1>2, <1>3, <1>4, ReadsKeep

LEMMA ReadProductKeeps ==
  ASSUME CatalogInv, NEW t \in Tasks, NEW p \in Products, ReadProduct(t, p), UNCHANGED listingVars
  PROVE  CatalogInv'
<1>1. PICK c \in Categories, price \in Prices, active \in BOOLEAN :
        Take(t, "save product", p, [category |-> c, price |-> price,
                                    active |-> active, removed |-> FALSE])
  BY DEF ReadProduct
<1> DEFINE row == [category |-> c, price |-> price, active |-> active, removed |-> FALSE]
<1>2. row \in ProductRows
  BY DEF ProductRows
<1>3. Take(t, "save product", p, row)
  BY <1>1
<1>4. task[t].step = "idle" /\ product[p] # Absent /\ UNCHANGED <<tables, listingVars>>
  BY DEF ReadProduct, Found, Visible
<1> HIDE DEF row
<1> QED
  BY <1>2, <1>3, <1>4, ReadsKeep

LEMMA FindProductKeeps ==
  ASSUME CatalogInv, NEW t \in Tasks, NEW p \in Products, FindProduct(t, p), UNCHANGED listingVars
  PROVE  CatalogInv'
BY ReadsKeep DEF FindProduct, Found, Visible

LEMMA FindCategoryKeeps ==
  ASSUME CatalogInv, NEW t \in Tasks, NEW c \in Categories, FindCategory(t, c), UNCHANGED listingVars
  PROVE  CatalogInv'
BY ReadsKeep DEF FindCategory

LEMMA ReadCategoryKeeps ==
  ASSUME CatalogInv, NEW t \in Tasks, NEW c \in Categories, ReadCategory(t, c), UNCHANGED listingVars
  PROVE  CatalogInv'
<1> USE DEF CatalogInv
<1>1. PICK parent \in Parents :
        task' = [task EXCEPT ![t] = [step |-> "save category", id |-> c, row |-> parent,
                                     children |-> ChildrenOf(c), products |-> ProductsOf(c)]]
  BY DEF ReadCategory
<1> DEFINE k == [step |-> "save category", id |-> c, row |-> parent,
                 children |-> ChildrenOf(c), products |-> ProductsOf(c)]
<1>2. k \in TaskRecords
  BY DEF TaskRecords, ChildrenOf, ProductsOf
<1>3. /\ k.step = "save category" /\ k.id = c /\ k.row = parent
      /\ \A p \in k.products : product[p] # Absent
  BY DEF ProductsOf, Visible
<1>4. UNCHANGED tables
  BY DEF ReadCategory
<1> HIDE DEF k
<1>5. /\ task' \in [Tasks -> TaskRecords]
      /\ task'[t] = k
      /\ \A s \in Tasks \ {t} : task'[s] = task[s]
  BY <1>1, <1>2 DEF k, CatalogTypeOK
<1>6. CatalogTypeOK'
  BY <1>4, <1>5 DEF CatalogTypeOK, tables, listingVars
<1>7. TasksHold'
  <2> SUFFICES ASSUME NEW s \in Tasks PROVE Shape(task[s])'
    BY DEF TasksHold
  <2>1. CASE s # t
    BY <1>4, <1>5, <2>1, OthersHold DEF ProductsStay, tables
  <2>2. CASE s = t
    BY <1>3, <1>4, <1>5, <2>2 DEF Shape, tables
  <2> QED
    BY <2>1, <2>2
<1>8. ReferencesHold'
  BY <1>4 DEF ReferencesHold, Exists, ParentHolds, tables
<1>9. ProductsAreStocked'
  BY <1>4, <1>5, TakeKeepsStocked DEF ReadCategory, tables
<1> QED
  BY <1>6, <1>7, <1>8, <1>9

(* The product is inserted; its creator has yet to insert its inventory.   *)
LEMMA InsertProductKeeps ==
  ASSUME CatalogInv, NEW t \in Tasks, InsertProduct(t), UNCHANGED listingVars
  PROVE  CatalogInv'
<1> USE DEF CatalogInv
<1>1. PICK p \in Products : /\ product[p] = Absent
                            /\ product' = [product EXCEPT ![p] = task[t].row]
                            /\ Take(t, "stock", p, Nothing)
  BY DEF InsertProduct
<1>2. task[t].row \in ProductRows /\ CategoryHolds(task[t].row) /\ UNCHANGED <<category, stocked>>
  BY DEF InsertProduct, TasksHold, Shape
<1>3. /\ product' \in [Products -> ProductRows \cup {Absent}]
      /\ product'[p] = task[t].row /\ product'[p] # Absent
      /\ \A q \in Products \ {p} : product'[q] = product[q]
  BY <1>1, <1>2, RowsTyped DEF CatalogTypeOK
<1>4. CatalogTypeOK'
  BY <1>1, <1>2, <1>3, TakeTyped DEF CatalogTypeOK, listingVars
<1>5. TasksHold'
  BY <1>1, <1>3, TakeHolds DEF ProductsStay
<1>6. ReferencesHold'
  BY <1>2, <1>3 DEF ReferencesHold, CategoryHolds, Exists, ParentHolds
<1>7. ProductsAreStocked'
  <2>1. task'[t].id = p /\ task'[t].step = "stock" /\ \A s \in Tasks \ {t} : task'[s] = task[s]
    <3>1. /\ CatalogTypeOK /\ Take(t, "stock", p, Nothing)
          /\ "stock" \in {"insert", "stock", "save product", "remove", "delete"}
          /\ p \in Products \cup Categories \cup {Nothing}
          /\ Nothing \in ProductRows \cup {Nothing}
      BY <1>1
    <3> HIDE DEF CatalogInv
    <3> QED
      BY <3>1, TakeTyped
  <2>2. task[t].step = "insert"
    BY DEF InsertProduct
  <2> QED
    BY <1>2, <1>3, <2>1, <2>2 DEF ProductsAreStocked
<1> QED
  BY <1>4, <1>5, <1>6, <1>7

LEMMA InsertInventoryKeeps ==
  ASSUME CatalogInv, NEW t \in Tasks, InsertInventory(t), UNCHANGED listingVars
  PROVE  CatalogInv'
<1> USE DEF CatalogInv
<1>1. /\ task[t].step = "stock" /\ task[t].id \in Products
      /\ stocked' = stocked \cup {task[t].id} /\ Step(t, "done")
      /\ UNCHANGED <<category, product>>
  BY DEF InsertInventory, TasksHold, Shape
<1>2. CatalogTypeOK'
  BY <1>1, StepTyped DEF CatalogTypeOK, listingVars
<1>3. TasksHold'
  BY <1>1, StepHolds DEF ProductsStay
<1>4. ReferencesHold'
  BY <1>1 DEF ReferencesHold, Exists, ParentHolds
<1>5. ProductsAreStocked'
  <2>1. \A s \in Tasks \ {t} : task'[s] = task[s]
    BY <1>1, StepTyped
  <2> QED
    BY <1>1, <2>1 DEF ProductsAreStocked
<1> QED
  BY <1>2, <1>3, <1>4, <1>5

LEMMA SaveProductKeeps ==
  ASSUME CatalogInv, NEW t \in Tasks, SaveProduct(t), UNCHANGED listingVars
  PROVE  CatalogInv'
<1> DEFINE p == task[t].id
<1>1. /\ task[t].step = "save product" /\ p \in Products /\ product[p] # Absent
      /\ task[t].row \in ProductRows /\ CategoryHolds(task[t].row)
      /\ product' = [product EXCEPT ![p] = task[t].row]
      /\ Step(t, "done") /\ UNCHANGED <<category, stocked>>
  BY DEF SaveProduct, CatalogInv, TasksHold, Shape
<1> HIDE DEF p
<1>2. /\ product' \in [Products -> ProductRows \cup {Absent}]
      /\ product'[p] = task[t].row /\ product'[p] # Absent
      /\ \A q \in Products \ {p} : product'[q] = product[q]
  BY <1>1, RowsTyped DEF CatalogInv, CatalogTypeOK
<1>3. ReferencesHold'
  BY <1>1, <1>2 DEF CatalogInv, ReferencesHold, CategoryHolds, Exists, ParentHolds
<1>4. category' \in [Categories -> Parents \cup {Absent}]
  BY <1>1 DEF CatalogInv, CatalogTypeOK
<1> QED
  BY <1>1, <1>2, <1>3, <1>4, WritesKeep

LEMMA SoftRemoveKeeps ==
  ASSUME CatalogInv, NEW t \in Tasks, SoftRemove(t), UNCHANGED listingVars
  PROVE  CatalogInv'
<1> DEFINE p == task[t].id
           row == [product[p] EXCEPT !.removed = TRUE]
<1>1. /\ task[t].step = "remove" /\ p \in Products /\ product[p] # Absent
      /\ product' = [product EXCEPT ![p].removed = TRUE]
      /\ Step(t, "done") /\ UNCHANGED <<category, stocked>>
  BY DEF SoftRemove, CatalogInv, TasksHold, Shape
<1>2. product[p] \in ProductRows
  BY <1>1, RowsTyped DEF CatalogInv
<1>3. row \in ProductRows /\ row.category = product[p].category
  BY <1>2 DEF ProductRows
<1>4. product' = [product EXCEPT ![p] = row]
  BY <1>1
<1> HIDE DEF p, row
<1>5. /\ product' \in [Products -> ProductRows \cup {Absent}]
      /\ product'[p] = row /\ product'[p] # Absent
      /\ \A q \in Products \ {p} : product'[q] = product[q]
  <2>1. p \in Products
    BY <1>1
  <2> QED
    BY <2>1, <1>3, <1>4, RowsTyped DEF CatalogInv, CatalogTypeOK
<1>6. ReferencesHold'
  BY <1>1, <1>3, <1>5 DEF CatalogInv, ReferencesHold, Exists, ParentHolds
<1>7. category' \in [Categories -> Parents \cup {Absent}]
  BY <1>1 DEF CatalogInv, CatalogTypeOK
<1> QED
  BY <1>1, <1>5, <1>6, <1>7, WritesKeep

LEMMA AddCategoryKeeps ==
  ASSUME CatalogInv, NEW t \in Tasks, NEW c \in Categories, NEW parent \in Parents,
         AddCategory(t, c, parent), UNCHANGED listingVars
  PROVE  CatalogInv'
<1>1. /\ task[t].step = "idle" /\ ParentHolds(parent)
      /\ category' = [category EXCEPT ![c] = parent]
      /\ Step(t, "done") /\ UNCHANGED <<product, stocked>>
  BY DEF AddCategory
<1>2. /\ category' \in [Categories -> Parents \cup {Absent}]
      /\ category'[c] = parent /\ parent # Absent
      /\ \A d \in Categories \ {c} : category'[d] = category[d]
  BY <1>1 DEF CatalogInv, CatalogTypeOK, Parents
<1>3. ReferencesHold'
  <2>1. \A d \in Categories : Exists(d) => Exists(d)'
    BY <1>2 DEF Exists
  <2>2. \A p \in Products : product[p] # Absent => product[p].category \in Categories
    BY RowsTyped DEF CatalogInv
  <2> QED
    BY <1>1, <1>2, <2>1, <2>2 DEF CatalogInv, ReferencesHold, ParentHolds, Exists
<1>4. product' \in [Products -> ProductRows \cup {Absent}]
  BY <1>1 DEF CatalogInv, CatalogTypeOK
<1> QED
  BY <1>1, <1>2, <1>3, <1>4, WritesKeep

(* Saving a category brings it back if it is gone, so that no reference    *)
(* loses its target; the children that it lets go become roots.            *)
LEMMA SaveCategoryKeeps ==
  ASSUME CatalogInv, NEW t \in Tasks, SaveCategory(t), UNCHANGED listingVars
  PROVE  CatalogInv'
<1> DEFINE c == task[t].id
           row == task[t].row
           children == task[t].children
           listed == task[t].products
<1>1. /\ task[t].step = "save category" /\ c \in Categories /\ row \in Parents
      /\ children \subseteq Categories /\ listed \subseteq Products
      /\ \A p \in listed : product[p] # Absent
  BY DEF SaveCategory, CatalogInv, TasksHold, Shape, CatalogTypeOK, TaskRecords
<1>2. /\ row # c => ParentHolds(row)
      /\ Step(t, "done") /\ UNCHANGED stocked
      /\ category' = [d \in Categories |->
           CASE d = c -> row
             [] d # c /\ Exists(d) /\ d \in children -> c
             [] d # c /\ d \notin children /\ category[d] = c -> Root
             [] OTHER -> category[d]]
      /\ product' = [p \in Products |->
           IF p \in listed THEN [product[p] EXCEPT !.category = c] ELSE product[p]]
  BY DEF SaveCategory
<1> HIDE DEF c, row, children, listed
<1>3. /\ row # Absent /\ c # Absent /\ Root # Absent
      /\ \A d \in Categories : category[d] \in Parents \cup {Absent}
  BY <1>1 DEF CatalogInv, CatalogTypeOK, Parents
<1>4. ASSUME NEW d \in Categories
      PROVE  \/ d = c /\ category'[d] = row
             \/ Exists(d) /\ category'[d] \in {c, Root}
             \/ category'[d] = category[d]
  BY <1>1, <1>2, <1>3 DEF Exists
<1>5. category' \in [Categories -> Parents \cup {Absent}]
  <2>1. \A d \in Categories : category'[d] \in Parents \cup {Absent}
    BY <1>1, <1>3, <1>4 DEF Parents
  <2>2. category' = [d \in Categories |-> category'[d]]
    BY <1>2
  <2> QED
    BY <2>1, <2>2
<1>6. /\ category'[c] # Absent
      /\ \A d \in Categories : Exists(d) => Exists(d)'
      /\ \A d \in Categories \ {c} : Exists(d)' => Exists(d)
  <2>1. category'[c] = row
    BY <1>1, <1>2
  <2> QED
    BY <1>1, <1>3, <1>4, <2>1 DEF Exists
<1>7. ASSUME NEW p \in Products
      PROVE  /\ product'[p] \in ProductRows \cup {Absent}
             /\ product'[p] = Absent <=> product[p] = Absent
             /\ product'[p] # Absent => \/ product'[p].category = c
                                       \/ product'[p] = product[p]
  <2>1. CASE p \in listed
    <3>1. product[p] \in ProductRows /\ product[p] # Absent
      BY <1>1, <2>1, RowsTyped DEF CatalogInv
    <3>2. /\ [product[p] EXCEPT !.category = c] \in ProductRows
          /\ [product[p] EXCEPT !.category = c].category = c
      BY <1>1, <3>1 DEF ProductRows
    <3>3. product'[p] = [product[p] EXCEPT !.category = c]
      BY <1>2, <2>1
    <3> QED
      BY <3>1, <3>2, <3>3, RowsTyped DEF CatalogInv
  <2>2. CASE p \notin listed
    BY <1>2, <2>2, RowsTyped DEF CatalogInv
  <2> QED
    BY <2>1, <2>2
<1>8. product' \in [Products -> ProductRows \cup {Absent}]
  BY <1>2, <1>7
<1>9. ReferencesHold'
  <2>1. ASSUME NEW p \in Products, product'[p] # Absent PROVE Exists(product[p].category)'
    <3>1. product[p] # Absent
      BY <1>7, <2>1
    <3>2. product[p].category \in Categories /\ Exists(product[p].category)
      BY <3>1, RowsTyped DEF CatalogInv, ReferencesHold
    <3>3. product'[p].category = c \/ product'[p].category = product[p].category
      BY <1>7, <2>1
    <3> QED
      BY <1>6, <3>2, <3>3 DEF Exists
  <2>2. ASSUME NEW d \in Categories, Exists(d)' PROVE ParentHolds(category[d])'
    <3>1. CASE category'[d] = row
      <4>1. row = c \/ row = Root \/ row \in {e \in Categories : Exists(e)}
        BY <1>2 DEF ParentHolds
      <4> QED
        BY <1>1, <1>6, <3>1, <4>1 DEF ParentHolds, Exists
    <3>2. CASE category'[d] \in {c, Root}
      BY <1>1, <1>6, <3>2 DEF ParentHolds, Exists
    <3>3. CASE category'[d] = category[d]
      <4>1. Exists(d)
        BY <2>2, <3>3 DEF Exists
      <4> QED
        BY <1>6, <3>3, <4>1 DEF CatalogInv, ReferencesHold, ParentHolds, Exists
    <3> QED
      BY <1>4, <3>1, <3>2, <3>3
  <2> QED
    BY <2>1, <2>2 DEF ReferencesHold
<1> QED
  BY <1>1, <1>2, <1>5, <1>7, <1>8, <1>9, WritesKeep

LEMMA DeleteCategoryKeeps ==
  ASSUME CatalogInv, NEW t \in Tasks, DeleteCategory(t), UNCHANGED listingVars
  PROVE  CatalogInv'
<1> DEFINE c == task[t].id
<1>1. /\ task[t].step = "delete" /\ c \in Categories /\ ~Referenced(c)
      /\ category' = [category EXCEPT ![c] = Absent]
      /\ Step(t, "done") /\ UNCHANGED <<product, stocked>>
  BY DEF DeleteCategory, CatalogInv, TasksHold, Shape
<1> HIDE DEF c
<1>2. /\ category' \in [Categories -> Parents \cup {Absent}]
      /\ category'[c] = Absent
      /\ \A d \in Categories \ {c} : category'[d] = category[d]
  BY <1>1 DEF CatalogInv, CatalogTypeOK
<1>3. ReferencesHold'
  BY <1>1, <1>2, RowsTyped DEF CatalogInv, ReferencesHold, Referenced, ParentHolds, Exists
<1>4. product' \in [Products -> ProductRows \cup {Absent}]
  BY <1>1 DEF CatalogInv, CatalogTypeOK
<1> QED
  BY <1>1, <1>2, <1>3, <1>4, WritesKeep

LEMMA TaskFailsKeeps ==
  ASSUME CatalogInv, NEW t \in Tasks, TaskFails(t), UNCHANGED listingVars
  PROVE  CatalogInv'
<1> DEFINE step == IF task[t].step = "stock" THEN "unstocked" ELSE "failed"
<1>1. /\ step \in {"failed", "unstocked"} /\ Step(t, step)
      /\ task[t].step \notin {"stock", "unstocked"} \/ step = "unstocked"
      /\ UNCHANGED <<category, product, stocked>>
  BY DEF TaskFails, tables
<1> HIDE DEF step
<1>2. ReferencesHold'
  BY <1>1 DEF CatalogInv, ReferencesHold, Exists, ParentHolds
<1>3. /\ category' \in [Categories -> Parents \cup {Absent}]
      /\ product' \in [Products -> ProductRows \cup {Absent}]
  BY <1>1 DEF CatalogInv, CatalogTypeOK
<1> QED
  BY <1>1, <1>2, <1>3, WritesKeep

LEMMA AdministratorKeeps ==
  ASSUME CatalogInv, AdministratorStep, UNCHANGED listingVars
  PROVE  CatalogInv'
BY CheckProductKeeps, InsertProductKeeps, InsertInventoryKeeps, ReadProductKeeps, FindProductKeeps,
   SaveProductKeeps, SoftRemoveKeeps, AddCategoryKeeps, ReadCategoryKeeps, FindCategoryKeeps,
   SaveCategoryKeeps, DeleteCategoryKeeps, TaskFailsKeeps
DEF AdministratorStep

-----------------------------------------------------------------------------
(* Visitors' steps                                                         *)

LEMMA VisitTyped ==
  ASSUME CatalogTypeOK, NEW v \in Visitors, NEW step, NEW shown, Visit(v, step, shown),
         step \in {"idle", "query", "store"}, shown \in SUBSET Products
  PROVE  /\ visitor' \in [Visitors -> [step : {"gone", "idle", "query", "store"},
                                       shown : SUBSET Products]]
         /\ visitor'[v].step = step /\ visitor'[v].shown = shown
         /\ \A w \in Visitors \ {v} : visitor'[w] = visitor[w]
<1> DEFINE k == [step |-> step, shown |-> shown]
<1>1. /\ k \in [step : {"gone", "idle", "query", "store"}, shown : SUBSET Products]
      /\ k.step = step /\ k.shown = shown
  OBVIOUS
<1>2. visitor' = [visitor EXCEPT ![v] = k]
  BY DEF Visit
<1> HIDE DEF k
<1> QED
  BY <1>1, <1>2 DEF CatalogTypeOK

LEMMA StoreTyped ==
  ASSUME CatalogTypeOK, NEW v \in Visitors, StoreAnswer(v)
  PROVE  /\ visitor' \in [Visitors -> [step : {"gone", "idle", "query", "store"},
                                       shown : SUBSET Products]]
         /\ visitor'[v].step = "idle"
         /\ \A w \in Visitors \ {v} : visitor'[w] = visitor[w]
         /\ visitor[v].step = "store" /\ visitor[v].shown \in SUBSET Products
         /\ cached' = {visitor[v].shown}
<1> DEFINE k == [visitor[v] EXCEPT !.step = "idle"]
<1>1. visitor[v] \in [step : {"gone", "idle", "query", "store"}, shown : SUBSET Products]
  BY DEF CatalogTypeOK
<1>2. /\ k \in [step : {"gone", "idle", "query", "store"}, shown : SUBSET Products]
      /\ k.step = "idle"
  BY <1>1
<1>3. visitor' = [visitor EXCEPT ![v] = k]
  BY DEF StoreAnswer
<1>4. visitor[v].step = "store" /\ cached' = {visitor[v].shown}
  BY DEF StoreAnswer
<1> HIDE DEF k
<1> QED
  BY <1>1, <1>2, <1>3, <1>4 DEF CatalogTypeOK

LEMMA VisitorTyped ==
  ASSUME CatalogTypeOK, VisitorStep
  PROVE  /\ cached' \in SUBSET (SUBSET Products)
         /\ visitor' \in [Visitors -> [step : {"gone", "idle", "query", "store"},
                                       shown : SUBSET Products]]
<1>0. cached \in SUBSET (SUBSET Products)
  BY DEF CatalogTypeOK
<1>1. ASSUME NEW v \in Visitors, AskCache(v)
      PROVE  /\ cached' = cached
             /\ \E step \in {"query", "idle"}, shown \in SUBSET Products : Visit(v, step, shown)
  BY <1>0, <1>1 DEF AskCache
<1>2. ASSUME NEW v \in Visitors, QueryProducts(v)
      PROVE  cached' = cached /\ \E shown \in SUBSET Products : Visit(v, "store", shown)
  BY <1>2 DEF QueryProducts
<1>3. ASSUME NEW v \in Visitors, StoreAnswer(v) PROVE cached' \in SUBSET (SUBSET Products)
  BY <1>3, StoreTyped
<1>4. CASE CacheExpires
  BY <1>4 DEF CacheExpires, CatalogTypeOK
<1>5. ASSUME NEW v \in Visitors, AskCache(v) \/ QueryProducts(v) \/ StoreAnswer(v)
      PROVE  /\ cached' \in SUBSET (SUBSET Products)
             /\ visitor' \in [Visitors -> [step : {"gone", "idle", "query", "store"},
                                           shown : SUBSET Products]]
  <2>1. CASE AskCache(v)
    BY <2>1, <1>0, <1>1, VisitTyped
  <2>2. CASE QueryProducts(v)
    BY <2>2, <1>0, <1>2, VisitTyped
  <2>3. CASE StoreAnswer(v)
    BY <2>3, <1>3, StoreTyped
  <2> QED
    BY <1>5, <2>1, <2>2, <2>3
<1> QED
  BY <1>4, <1>5 DEF VisitorStep

LEMMA TablesStay ==
  ASSUME CatalogInv, UNCHANGED <<tables, task>>,
         cached' \in SUBSET (SUBSET Products),
         visitor' \in [Visitors -> [step : {"gone", "idle", "query", "store"},
                                    shown : SUBSET Products]]
  PROVE  CatalogInv'
<1> USE DEF CatalogInv, tables
<1>1. CatalogTypeOK'
  BY DEF CatalogTypeOK
<1>2. TasksHold'
  BY DEF TasksHold, Shape
<1>3. ReferencesHold'
  BY DEF ReferencesHold, Exists, ParentHolds
<1>4. ProductsAreStocked'
  BY DEF ProductsAreStocked
<1> QED
  BY <1>1, <1>2, <1>3, <1>4

-----------------------------------------------------------------------------
(* The invariant                                                           *)

LEMMA CatalogStarts ==
  ASSUME CatalogInit
  PROVE  CatalogInv
<1>1. /\ \A t \in Tasks : task[t] \in TaskRecords /\ Shape(task[t])
      /\ task \in [Tasks -> TaskRecords]
  <2>1. /\ [NewTask EXCEPT !.step = "done"] \in TaskRecords
        /\ Shape([NewTask EXCEPT !.step = "done"]) /\ Shape(NewTask)
    BY DEF NewTask, TaskRecords, Shape
  <2>2. task \in [Tasks -> {NewTask, [NewTask EXCEPT !.step = "done"]}]
    BY DEF CatalogInit
  <2> QED
    BY <2>1, <2>2, NewTaskTyped
<1>2. /\ cached \in SUBSET (SUBSET Products)
      /\ visitor \in [Visitors -> [step : {"gone", "idle", "query", "store"},
                                   shown : SUBSET Products]]
  BY DEF CatalogInit
<1>3. CASE Empty
  <2>1. CatalogTypeOK
    BY <1>1, <1>2, <1>3 DEF CatalogTypeOK, Empty
  <2>2. ReferencesHold /\ ProductsAreStocked
    BY <1>3 DEF Empty, ReferencesHold, ProductsAreStocked, Exists
  <2> QED
    BY <1>1, <2>1, <2>2 DEF CatalogInv, TasksHold
<1>4. CASE Seeded
  <2>1. PICK electronics \in Categories, laptops \in Categories, laptop \in Products,
             price \in Prices :
          /\ electronics # laptops
          /\ category = [c \in Categories |-> CASE c = electronics -> Root
                                                [] c = laptops -> electronics
                                                [] OTHER -> Absent]
          /\ product = [p \in Products |->
                IF p = laptop THEN [category |-> laptops, price |-> price,
                                    active |-> TRUE, removed |-> FALSE]
                ELSE Absent]
          /\ stocked = {laptop}
    BY <1>4 DEF Seeded
  <2> DEFINE row == [category |-> laptops, price |-> price, active |-> TRUE, removed |-> FALSE]
  <2>2. row \in ProductRows /\ row.category = laptops
    BY DEF ProductRows
  <2>3. product = [p \in Products |-> IF p = laptop THEN row ELSE Absent]
    BY <2>1
  <2> HIDE DEF row
  <2>4. product \in [Products -> ProductRows \cup {Absent}]
    BY <2>2, <2>3
  <2>5. /\ category \in [Categories -> Parents \cup {Absent}]
        /\ category[electronics] = Root /\ category[laptops] = electronics
        /\ \A c \in Categories : category[c] # Absent => category[c] \in {Root, electronics}
    BY <2>1 DEF Parents
  <2>6. CatalogTypeOK
    BY <1>1, <1>2, <2>1, <2>4, <2>5 DEF CatalogTypeOK
  <2>7. ReferencesHold
    <3>1. Root # Absent /\ electronics # Absent
      OBVIOUS
    <3> QED
      BY <2>2, <2>3, <2>5, <3>1 DEF ReferencesHold, Exists, ParentHolds
  <2>8. ProductsAreStocked
    BY <2>1, <2>3 DEF ProductsAreStocked
  <2> QED
    BY <1>1, <2>6, <2>7, <2>8 DEF CatalogInv, TasksHold
<1> QED
  BY <1>3, <1>4 DEF CatalogInit

LEMMA CatalogKeeps ==
  ASSUME CatalogInv, [CatalogNext]_catalogVars
  PROVE  CatalogInv'
<1>1. CASE AdministratorStep /\ UNCHANGED listingVars
  BY <1>1, AdministratorKeeps
<1>2. CASE VisitorStep /\ UNCHANGED <<tables, task>>
  BY <1>2, VisitorTyped, TablesStay DEF CatalogInv
<1>3. CASE UNCHANGED catalogVars
  <2>1. UNCHANGED <<tables, task>> /\ UNCHANGED <<cached, visitor>>
    BY <1>3 DEF catalogVars, listingVars
  <2> QED
    BY <2>1, TablesStay DEF CatalogInv, CatalogTypeOK
<1> QED
  BY <1>1, <1>2, <1>3 DEF CatalogNext

(* The invariant holds in every state.                                     *)
THEOREM CatalogInvariant == CatalogSpec => []CatalogInv
BY CatalogStarts, CatalogKeeps, PTL DEF CatalogSpec

(* Every variable keeps its type; in particular what a request has read is *)
(* a row, when it writes it.                                               *)
THEOREM CatalogTypes == CatalogSpec => []CatalogTypeOK
<1>1. CatalogInv => CatalogTypeOK
  BY DEF CatalogInv
<1> QED
  BY <1>1, CatalogInvariant, PTL

(* No category goes while a product, removed or not, or another category   *)
(* refers to it, however long ago CategoriesService looked for them; and   *)
(* saving a category leaves no child without a parent.                     *)
THEOREM ForeignKeysHold == CatalogSpec => []ReferencesHold
<1>1. CatalogInv => ReferencesHold
  BY DEF CatalogInv
<1> QED
  BY <1>1, CatalogInvariant, PTL

(* A product without an inventory row comes only from a creation that is   *)
(* under way or that broke off between its inserts.                        *)
THEOREM EveryProductHasStock == CatalogSpec => []ProductsAreStocked
<1>1. CatalogInv => ProductsAreStocked
  BY DEF CatalogInv
<1> QED
  BY <1>1, CatalogInvariant, PTL

-----------------------------------------------------------------------------
(* Action properties                                                       *)

(* A product that changes from removed to visible was being saved: insert  *)
(* takes a free id, and saving a category keeps the products' other        *)
(* columns.                                                                *)
LEMMA RemovedStays ==
  ASSUME CatalogInv, NEW p \in Products, Gone(p), AdministratorStep
  PROVE  product'[p] # Absent /\ product'[p].removed
<1>0. /\ product[p] \in ProductRows /\ product[p] # Absent /\ product[p].removed
      /\ \A t \in Tasks : task[t].step = "save product" => task[t].id # p
      /\ product \in [Products -> ProductRows \cup {Absent}]
  BY RowsTyped DEF Gone, CatalogInv, CatalogTypeOK
<1>1. PICK t \in Tasks :
        \/ CheckProduct(t) \/ InsertProduct(t) \/ InsertInventory(t)
        \/ \E q \in Products : ReadProduct(t, q) \/ FindProduct(t, q)
        \/ SaveProduct(t) \/ SoftRemove(t)
        \/ \E c \in Categories, parent \in Parents : AddCategory(t, c, parent)
        \/ \E c \in Categories : ReadCategory(t, c) \/ FindCategory(t, c)
        \/ SaveCategory(t) \/ DeleteCategory(t)
        \/ TaskFails(t)
  BY DEF AdministratorStep
<1>2. CASE InsertProduct(t)
  BY <1>0, <1>2 DEF InsertProduct
<1>3. CASE SaveProduct(t)
  BY <1>0, <1>3 DEF SaveProduct
<1>4. CASE SoftRemove(t)
  <2>1. product' = [product EXCEPT ![task[t].id].removed = TRUE]
    BY <1>4 DEF SoftRemove
  <2>2. CASE task[t].id # p
    BY <1>0, <2>1, <2>2
  <2>3. CASE task[t].id = p
    <3> DEFINE row == [product[p] EXCEPT !.removed = TRUE]
    <3>1. row \in ProductRows /\ row.removed
      BY <1>0 DEF ProductRows
    <3>2. product'[p] = row
      BY <1>0, <2>1, <2>3
    <3> HIDE DEF row
    <3> QED
      BY <3>1, <3>2, RowsTyped DEF CatalogInv
  <2> QED
    BY <2>2, <2>3
<1>5. CASE SaveCategory(t)
  <2> DEFINE row == [product[p] EXCEPT !.category = task[t].id]
  <2>1. task[t].id \in Categories
    BY <1>5 DEF SaveCategory, CatalogInv, TasksHold, Shape
  <2>2. row \in ProductRows /\ row.removed
    BY <1>0, <2>1 DEF ProductRows
  <2>3. product'[p] = row \/ product'[p] = product[p]
    BY <1>5 DEF SaveCategory
  <2> HIDE DEF row
  <2> QED
    BY <1>0, <2>2, <2>3, RowsTyped DEF CatalogInv
<1>6. CASE \/ CheckProduct(t) \/ InsertInventory(t)
           \/ \E q \in Products : ReadProduct(t, q) \/ FindProduct(t, q)
           \/ \E c \in Categories, parent \in Parents : AddCategory(t, c, parent)
           \/ \E c \in Categories : ReadCategory(t, c) \/ FindCategory(t, c)
           \/ DeleteCategory(t) \/ TaskFails(t)
  <2>1. product' = product
    BY <1>6 DEF CheckProduct, InsertInventory, ReadProduct, FindProduct, AddCategory,
                ReadCategory, FindCategory, DeleteCategory, TaskFails, tables
  <2> QED
    BY <1>0, <2>1
<1> QED
  BY <1>1, <1>2, <1>3, <1>4, <1>5, <1>6

(* And no update of it begins, for an update does not find it.             *)
LEMMA NoUpdateBegins ==
  ASSUME CatalogInv, NEW p \in Products, Gone(p), AdministratorStep,
         NEW s \in Tasks, task'[s].step = "save product"
  PROVE  task'[s].id # p
<1>0. CatalogTypeOK /\ (task[s].step = "save product" => task[s].id # p)
  BY DEF Gone, CatalogInv
<1>1. PICK t \in Tasks :
        \/ CheckProduct(t) \/ InsertProduct(t) \/ InsertInventory(t)
        \/ \E q \in Products : ReadProduct(t, q) \/ FindProduct(t, q)
        \/ SaveProduct(t) \/ SoftRemove(t)
        \/ \E c \in Categories, parent \in Parents : AddCategory(t, c, parent)
        \/ \E c \in Categories : ReadCategory(t, c) \/ FindCategory(t, c)
        \/ SaveCategory(t) \/ DeleteCategory(t)
        \/ TaskFails(t)
  BY DEF AdministratorStep
<1>2. ASSUME NEW step \in {"done", "failed", "unstocked"}, Step(t, step)
      PROVE  task'[s].id # p
  <2>1. /\ \A r \in Tasks \ {t} : task'[r] = task[r]
        /\ task'[t].step = step
    BY <1>0, <1>2, StepTyped
  <2> QED
    BY <1>0, <2>1
<1>3. ASSUME NEW step \in {"insert", "stock", "remove", "delete"}, NEW id, NEW row,
             Take(t, step, id, row)
      PROVE  task'[s].id # p
  <2> DEFINE k == [NewTask EXCEPT !.step = step, !.id = id, !.row = row]
  <2>1. k.step = step
    BY DEF NewTask
  <2>2. task' = [task EXCEPT ![t] = k]
    BY <1>3 DEF Take
  <2> HIDE DEF k
  <2> QED
    BY <1>0, <2>1, <2>2 DEF CatalogTypeOK
<1>4. CASE \E q \in Products : ReadProduct(t, q)
  <2>1. PICK q \in Products : ReadProduct(t, q)
    BY <1>4
  <2>2. PICK row : Take(t, "save product", q, row)
    BY <2>1 DEF ReadProduct
  <2> DEFINE k == [NewTask EXCEPT !.step = "save product", !.id = q, !.row = row]
  <2>3. k.id = q
    BY DEF NewTask
  <2>4. task' = [task EXCEPT ![t] = k]
    BY <2>2 DEF Take
  <2>5. q # p
    BY <2>1 DEF ReadProduct, Found, Visible, Gone
  <2> HIDE DEF k
  <2> QED
    BY <1>0, <2>3, <2>4, <2>5 DEF CatalogTypeOK
<1>5. CASE \E c \in Categories : ReadCategory(t, c)
  <2>1. PICK c \in Categories, parent \in Parents :
          task' = [task EXCEPT ![t] = [step |-> "save category", id |-> c, row |-> parent,
                                       children |-> ChildrenOf(c), products |-> ProductsOf(c)]]
    BY <1>5 DEF ReadCategory
  <2> DEFINE k == [step |-> "save category", id |-> c, row |-> parent,
                   children |-> ChildrenOf(c), products |-> ProductsOf(c)]
  <2>2. k.step = "save category"
    OBVIOUS
  <2>3. task' = [task EXCEPT ![t] = k]
    BY <2>1
  <2> HIDE DEF k
  <2> QED
    BY <1>0, <2>2, <2>3 DEF CatalogTypeOK
<1>6. CASE CheckProduct(t)
  BY <1>3, <1>6 DEF CheckProduct
<1>7. CASE InsertProduct(t)
  BY <1>3, <1>7 DEF InsertProduct
<1>8. CASE \E q \in Products : FindProduct(t, q)
  BY <1>3, <1>8 DEF FindProduct
<1>9. CASE \E c \in Categories : FindCategory(t, c)
  BY <1>3, <1>9 DEF FindCategory
<1>10. CASE \/ InsertInventory(t) \/ SaveProduct(t) \/ SoftRemove(t)
            \/ \E c \in Categories, parent \in Parents : AddCategory(t, c, parent)
            \/ SaveCategory(t) \/ DeleteCategory(t)
  BY <1>2, <1>10 DEF InsertInventory, SaveProduct, SoftRemove, AddCategory, SaveCategory,
                     DeleteCategory
<1>11. CASE TaskFails(t)
  <2>1. Step(t, "failed") \/ Step(t, "unstocked")
    BY <1>11 DEF TaskFails
  <2> QED
    BY <1>2, <2>1
<1> QED
  BY <1>1, <1>4, <1>5, <1>6, <1>7, <1>8, <1>9, <1>10, <1>11

(* ProductsService.remove is final unless an update that had read the      *)
(* product before is still to be saved.                                    *)
THEOREM RemovedForGood == CatalogSpec => RemovalIsFinal
<1>1. ASSUME CatalogInv, [CatalogNext]_catalogVars
      PROVE  [\A p \in Products : Gone(p) => Gone(p)']_catalogVars
  <2> SUFFICES ASSUME NEW p \in Products, Gone(p) PROVE Gone(p)'
    OBVIOUS
  <2>1. CASE AdministratorStep
    BY <1>1, <2>1, RemovedStays, NoUpdateBegins DEF Gone
  <2>2. CASE UNCHANGED <<tables, task>>
    BY <2>2 DEF Gone, tables
  <2> QED
    BY <1>1, <2>1, <2>2 DEF CatalogNext, catalogVars
<1> QED
  BY <1>1, CatalogInvariant, PTL DEF CatalogSpec, RemovalIsFinal
=============================================================================
