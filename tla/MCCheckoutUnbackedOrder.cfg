\* Storing the response may fail after the order was committed.
CONSTANTS
    Products <- MCProducts
    Orders = {r1, r2}
    Baskets <- MCBaskets
    Deltas <- MCNoDeltas
    StartingStock <- MCStartingStock
    Users = {u1}
    Keys = {k1}
    Faults = {"complete"}
    Overlap = FALSE
    MaxStock = 3
    NoRow = NoRow
    InProgress = InProgress
    NoOrder = NoOrder
SYMMETRY Symmetry
SPECIFICATION CheckoutSpec
CHECK_DEADLOCK FALSE
INVARIANTS
    OrderHoldsStock
