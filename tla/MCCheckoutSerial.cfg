\* Clients repeat a key only after an answer or a crash; anything may fail
\* except storing the response.
CONSTANTS
    Products <- MCProducts
    Orders = {r1, r2, r3}
    Baskets <- MCBaskets
    Deltas <- MCDeltas
    StartingStock <- MCStartingStock
    Users = {u1, u2}
    Keys = {k1}
    Faults = {"reserve", "order", "unregister", "release", "crash"}
    Overlap = FALSE
    MaxStock = 3
    NoRow = NoRow
    InProgress = InProgress
    NoOrder = NoOrder
SYMMETRY Symmetry
SPECIFICATION CheckoutSpec
CHECK_DEADLOCK FALSE
INVARIANTS
    CheckoutTypeOK
    OrderHoldsStock
    AtMostOneOrderPerKey
    KeyGuardsItsRequest
PROPERTIES
    ResponseIsFinal
