\* Two requests with one key at the same time; nothing fails.
CONSTANTS
    Products <- MCProducts
    Orders = {r1, r2}
    Baskets <- MCBaskets
    Deltas <- MCNoDeltas
    StartingStock <- MCStartingStock
    Users = {u1}
    Keys = {k1}
    Faults = {}
    Overlap = TRUE
    MaxStock = 3
    NoRow = NoRow
    InProgress = InProgress
    NoOrder = NoOrder
SYMMETRY Symmetry
SPECIFICATION CheckoutSpec
CHECK_DEADLOCK FALSE
INVARIANTS
    AtMostOneOrderPerKey
