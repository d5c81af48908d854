\* Administrators; administrators and a customer; three requests of a
\* customer; or administrators and a visitor.
SPECIFICATION MCSpec
CONSTANTS
    laptop = laptop
    phone = phone
    electronics = electronics
    laptops = laptops
    patient = patient
    hasty = hasty
    c1 = c1
    Products = {laptop, phone}
    Categories = {electronics, laptops}
    Prices <- MCPrices
    Tasks = {t1, t2}
    Visitors = {v1}
    Root = Root
    Absent = Absent
    Nothing = Nothing
    Terms <- MCTerms
    RoundedDown <- MCRoundedDown
    Users = {patient, hasty}
    Patient = {patient}
    Requests = {r1, r2, r3}
    Wishes <- MCWishes
    Coupons = {c1}
    Errands = {a1}
    StartingCarts <- MCStartingCarts
    NoCoupon = NoCoupon
    NoQuote = NoQuote
SYMMETRY MCSymmetry
INVARIANTS
    CartTypeOK
    ReferencesHold
    ProductsAreStocked
    NothingCountedTwice
    CouponsInUseExist
    OrdersAddUp
PROPERTIES
    RemovalIsFinal
    ImplementsPromise
CHECK_DEADLOCK FALSE
