------------------------------ MODULE Catalog ------------------------------
(***************************************************************************)
(* ProductsService and CategoriesService (src/catalog): the administrators'*)
(* requests that create, update and remove products and categories, and    *)
(* the cached listing that customers are shown.                            *)
(*                                                                         *)
(* A step ends where the code awaits the database.  update and remove read *)
(* an entity and write it back later: what they have read is in their      *)
(* task.  Names, slugs and SKUs are left out: a request that is refused    *)
(* for them changes nothing (TaskFails).                                   *)
(***************************************************************************)
EXTENDS Integers, FiniteSets

CONSTANTS
    Products,     \* ids that products.id may get
    Categories,   \* ids that categories.id may get
    Prices,
    Tasks,        \* administrators' requests, each made once
    Visitors,     \* customers who ask for a listing, again and again
    Root,         \* parent_id is null
    Absent,       \* there is no such row
    Nothing

ASSUME CatalogAssumption ==
    /\ Prices \subseteq Nat
    /\ {Root, Absent, Nothing} \cap (Categories \cup Products) = {}
    /\ Absent # Root /\ Nothing # Root

VARIABLES
    category,   \* categories.parent_id
    product,    \* products
    stocked,    \* products with a row in inventories
    task,
    cached,     \* the answer that the cache has for GET /products, if any
    visitor

tables == <<category, product, stocked>>
listingVars == <<cached, visitor>>
catalogVars == <<tables, task, listingVars>>

Parents == Categories \cup {Root}
ProductRows == [category : Categories, price : Prices, active : BOOLEAN, removed : BOOLEAN]

ASSUME RowsAssumption ==
    {Absent, Nothing} \cap ProductRows = {}

(* row: the entity in memory; children, products: the lists that are       *)
(* loaded with a category.                                                 *)
TaskRecords ==
    [step     : {"idle", "insert", "stock", "save product", "remove", "save category",
                 "delete", "done", "failed", "unstocked"},
     id       : Products \cup Categories \cup {Nothing},
     row      : ProductRows \cup Parents \cup {Nothing},
     children : SUBSET Categories,
     products : SUBSET Products]
NewTask == [step |-> "idle", id |-> Nothing, row |-> Nothing, children |-> {}, products |-> {}]

CatalogTypeOK ==
    /\ category \in [Categories -> Parents \cup {Absent}]
    /\ product \in [Products -> ProductRows \cup {Absent}]
    /\ stocked \in SUBSET Products
    /\ task \in [Tasks -> TaskRecords]
    /\ cached \in SUBSET (SUBSET Products)
    /\ visitor \in [Visitors -> [step : {"gone", "idle", "query", "store"}, shown : SUBSET Products]]

Exists(c) == category[c] # Absent
Visible(p) == product[p] # Absent /\ ~product[p].removed
OnSale(p) == Visible(p) /\ product[p].active

(* An empty database, or the one that the seed script leaves behind: a     *)
(* category, one below it, and a product there with stock.                 *)
Empty ==
    /\ category = [c \in Categories |-> Absent]
    /\ product = [p \in Products |-> Absent]
    /\ stocked = {}

Seeded ==
    \E electronics, laptops \in Categories, laptop \in Products, price \in Prices :
        /\ electronics # laptops
        /\ category = [c \in Categories |-> CASE c = electronics -> Root
                                              [] c = laptops -> electronics
                                              [] OTHER -> Absent]
        /\ product = [p \in Products |->
              IF p = laptop THEN [category |-> laptops, price |-> price,
                                  active |-> TRUE, removed |-> FALSE]
              ELSE Absent]
        /\ stocked = {laptop}

(* Some of the tasks may never be started, and some visitors not be there. *)
CatalogInit ==
    /\ Empty \/ Seeded
    /\ task \in [Tasks -> {NewTask, [NewTask EXCEPT !.step = "done"]}]
    /\ cached = {}
    /\ visitor \in [Visitors -> [step : {"gone", "idle"}, shown : {{}}]]

-----------------------------------------------------------------------------

Step(t, step) == task' = [task EXCEPT ![t].step = step]
Take(t, step, id, row) ==
    task' = [task EXCEPT ![t] = [NewTask EXCEPT !.step = step, !.id = id, !.row = row]]

(* products.category_id references categories.                             *)
CategoryHolds(row) == Exists(row.category)

(* ProductsService.create: the category is there; then the product is      *)
(* inserted, with an id that the database draws; then its inventory row.   *)
CheckProduct(t) ==
    /\ task[t].step = "idle"
    /\ \E c \in Categories, price \in Prices, active \in BOOLEAN :
         /\ Exists(c)
         /\ Take(t, "insert", Nothing, [category |-> c, price |-> price,
                                        active |-> active, removed |-> FALSE])
    /\ UNCHANGED tables

InsertProductOnly(t) ==          \* mutant: no inventory row is created
    /\ task[t].step = "insert"
    /\ CategoryHolds(task[t].row)
    /\ \E p \in Products :
         /\ product[p] = Absent
         /\ product' = [product EXCEPT ![p] = task[t].row]
    /\ Step(t, "done")
    /\ UNCHANGED <<category, stocked>>

InsertProduct(t) ==
    /\ task[t].step = "insert"
    /\ CategoryHolds(task[t].row)
    /\ \E p \in Products :
         /\ product[p] = Absent
         /\ product' = [product EXCEPT ![p] = task[t].row]
         /\ Take(t, "stock", p, Nothing)
    /\ UNCHANGED <<category, stocked>>

InsertInventory(t) ==
    /\ task[t].step = "stock"
    /\ stocked' = stocked \cup {task[t].id}
    /\ Step(t, "done")
    /\ UNCHANGED <<category, product>>

FoundWithRemoved(p) == product[p] # Absent    \* mutant: removed rows are found
(* findOne(id, true) does not see a removed product.                       *)
Found(p) == Visible(p)

(* ProductsService.update: Object.assign of the request to the entity,     *)
(* which has its category loaded.  Whether the ORM then stores the loaded  *)
(* category or the new category_id is left open.                           *)
ReadProduct(t, p) ==
    /\ task[t].step = "idle"
    /\ Found(p)
    /\ \E c \in {d \in Categories : Exists(d)}, price \in Prices, active \in BOOLEAN :
         Take(t, "save product", p, [category |-> c, price |-> price,
                                     active |-> active, removed |-> FALSE])
    /\ UNCHANGED tables

(* save() writes every column in which the entity differs from the row as  *)
(* it is now, deleted_at too.                                              *)
SaveProduct(t) ==
    /\ task[t].step = "save product"
    /\ CategoryHolds(task[t].row)
    /\ product' = [product EXCEPT ![task[t].id] = task[t].row]
    /\ Step(t, "done")
    /\ UNCHANGED <<category, stocked>>

(* ProductsService.remove                                                  *)
FindProduct(t, p) ==
    /\ task[t].step = "idle"
    /\ Found(p)
    /\ Take(t, "remove", p, Nothing)
    /\ UNCHANGED tables

SoftRemove(t) ==
    /\ task[t].step = "remove"
    /\ product' = [product EXCEPT ![task[t].id].removed = TRUE]
    /\ Step(t, "done")
    /\ UNCHANGED <<category, stocked>>

-----------------------------------------------------------------------------
(* CategoriesService                                                       *)

ParentHolds(parent) == parent \in {Root} \cup {c \in Categories : Exists(c)}
ChildrenOf(c) == {d \in Categories : category[d] = c}
ProductsOf(c) == {p \in Products : Visible(p) /\ product[p].category = c}

(* create inserts any parent_id that exists.                               *)
AddCategory(t, c, parent) ==
    /\ task[t].step = "idle"
    /\ ~Exists(c) /\ ParentHolds(parent)
    /\ category' = [category EXCEPT ![c] = parent]
    /\ Step(t, "done")
    /\ UNCHANGED <<product, stocked>>

(* update checks names only: any parent_id will do.  As above, it may be   *)
(* stored or give way to the loaded parent.                                *)
ReadCategory(t, c) ==
    /\ task[t].step = "idle"
    /\ Exists(c)
    /\ \E parent \in Parents :
         task' = [task EXCEPT ![t] = [step |-> "save category", id |-> c, row |-> parent,
                                      children |-> ChildrenOf(c),
                                      products |-> ProductsOf(c)]]
    /\ UNCHANGED tables

(* save() inserts a row that is gone, and makes the rows that refer to the *)
(* category those of the loaded lists: other children lose their parent,   *)
(* and a product, which cannot be without a category, makes it fail.       *)
SaveCategory(t) ==
    LET c == task[t].id IN
    /\ task[t].step = "save category"
    /\ task[t].row # c => ParentHolds(task[t].row)
    /\ ProductsOf(c) \subseteq task[t].products
    /\ category' = [d \in Categories |->
          CASE d = c -> task[t].row
            [] d # c /\ Exists(d) /\ d \in task[t].children -> c
            [] d # c /\ d \notin task[t].children /\ category[d] = c -> Root
            [] OTHER -> category[d]]
    /\ product' = [p \in Products |->
          IF p \in task[t].products THEN [product[p] EXCEPT !.category = c] ELSE product[p]]
    /\ Step(t, "done")
    /\ UNCHANGED stocked

(* remove refuses a category with children or with products that it sees.  *)
FindCategory(t, c) ==
    /\ task[t].step = "idle"
    /\ Exists(c)
    /\ ChildrenOf(c) = {}
    /\ ProductsOf(c) = {}
    /\ Take(t, "delete", c, Nothing)
    /\ UNCHANGED tables

ReferencedVisibly(c) ==          \* mutant: removed products do not count
    \/ \E d \in Categories \ {c} : category[d] = c
    \/ ProductsOf(c) # {}
(* The foreign keys of categories.parent_id and products.category_id.      *)
Referenced(c) ==
    \/ \E d \in Categories \ {c} : category[d] = c
    \/ \E p \in Products : product[p] # Absent /\ product[p].category = c

DeleteCategory(t) ==
    /\ task[t].step = "delete"
    /\ ~Referenced(task[t].id)
    /\ category' = [category EXCEPT ![task[t].id] = Absent]
    /\ Step(t, "done")
    /\ UNCHANGED <<product, stocked>>

(* A check refuses the request, a statement fails, or the process dies.    *)
TaskFails(t) ==
    /\ task[t].step \notin {"idle", "done", "failed", "unstocked"}
    /\ Step(t, IF task[t].step = "stock" THEN "unstocked" ELSE "failed")
    /\ UNCHANGED tables

AdministratorStep ==
    \E t \in Tasks :
        \/ CheckProduct(t) \/ InsertProduct(t) \/ InsertInventory(t)
        \/ \E p \in Products : ReadProduct(t, p) \/ FindProduct(t, p)
        \/ SaveProduct(t) \/ SoftRemove(t)
        \/ \E c \in Categories, parent \in Parents : AddCategory(t, c, parent)
        \/ \E c \in Categories : ReadCategory(t, c) \/ FindCategory(t, c)
        \/ SaveCategory(t) \/ DeleteCategory(t)
        \/ TaskFails(t)

-----------------------------------------------------------------------------
(* ProductsController.findAll.  Its interceptor answers from the cache, or *)
(* passes the request on and then keeps the answer, under one key for all  *)
(* filters and pages.  A visitor keeps the last answer until the next one. *)

Shown(p) == OnSale(p)

Visit(v, step, shown) == visitor' = [visitor EXCEPT ![v] = [step |-> step, shown |-> shown]]

AskCache(v) ==
    /\ visitor[v].step = "idle"
    /\ \/ cached = {} /\ Visit(v, "query", {})
       \/ \E answer \in cached : Visit(v, "idle", answer)
    /\ UNCHANGED cached

(* ProductsService.findAll: some of the products on sale, as the filters   *)
(* and the page have it.                                                   *)
QueryProducts(v) ==
    /\ visitor[v].step = "query"
    /\ \E page \in SUBSET {p \in Products : Shown(p)} : Visit(v, "store", page)
    /\ UNCHANGED cached

StoreAnswer(v) ==
    /\ visitor[v].step = "store"
    /\ cached' = {visitor[v].shown}
    /\ visitor' = [visitor EXCEPT ![v].step = "idle"]

(* After CacheTTL, or because the cache is gone.  Nothing that changes a   *)
(* product touches the cache.                                              *)
CacheExpires ==
    /\ cached # {}
    /\ cached' = {}
    /\ UNCHANGED visitor

VisitorStep ==
    \/ \E v \in Visitors : AskCache(v) \/ QueryProducts(v) \/ StoreAnswer(v)
    \/ CacheExpires

CatalogNext ==
    \/ AdministratorStep /\ UNCHANGED listingVars
    \/ VisitorStep /\ UNCHANGED <<tables, task>>

CatalogSpec == CatalogInit /\ [][CatalogNext]_catalogVars

(* The cache keeps its time to live.  Nobody has to ask for anything, and  *)
(* an answer may be stored late.                                           *)
FairCatalogSpec == CatalogSpec /\ WF_catalogVars(CacheExpires /\ UNCHANGED <<tables, task>>)

-----------------------------------------------------------------------------
(* What can go wrong                                                       *)

(* The foreign keys hold behind every check that other requests make       *)
(* obsolete before it is acted upon: a product's category exists, also a   *)
(* removed product's, and so does a category's parent, although removing a *)
(* category looks for visible products and for children long before it     *)
(* deletes the row.                                                        *)
ReferencesHold ==
    /\ \A p \in Products : product[p] # Absent => Exists(product[p].category)
    /\ \A c \in Categories : Exists(c) => ParentHolds(category[c])

(* A product without an inventory row, of which every reservation ends in  *)
(* 404, comes only from a creation that is still under way or that broke   *)
(* off between its two inserts; nothing else ever parts the two.           *)
ProductsAreStocked ==
    \A p \in Products :
        product[p] # Absent =>
            \/ p \in stocked
            \/ \E t \in Tasks : task[t].id = p /\ task[t].step \in {"stock", "unstocked"}

(* An update that read a product before its removal brings it back, for    *)
(* save() writes deleted_at as well.  That is all that can: a product that *)
(* is removed while no such update is under way stays removed.             *)
Gone(p) ==
    /\ product[p] # Absent /\ product[p].removed
    /\ \A t \in Tasks : task[t].step = "save product" => task[t].id # p

RemovalIsFinal == [][\A p \in Products : Gone(p) => Gone(p)']_catalogVars

(* Customers see "active products" (F-CAT-02), and "cache invalidation     *)
(* logic must be rigorously maintained" (ADR-003): an answer from the      *)
(* cache shows no product that is not on sale.  It does not hold: nothing  *)
(* that changes a product touches the cache, and an answer may be stored   *)
(* long after it was queried.                                              *)
ListsOnlyOnSale ==
    [][\A v \in Visitors :
          visitor[v].step = "idle" /\ visitor'[v].step = "idle" /\ visitor'[v] # visitor[v] =>
              \A p \in visitor'[v].shown : OnSale(p)]_catalogVars
=============================================================================
