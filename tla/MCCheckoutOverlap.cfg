\* Clients repeat keys at any moment and every call may fail.
CONSTANTS
    Products <- MCProducts
    Orders = {r1, r2, r3}
    Baskets <- MCBaskets
    Deltas <- MCNoDeltas
    StartingStock <- MCStartingStock
    Users = {u1, u2}
    Keys = {k1}
    Faults = {"reserve", "order", "complete", "unregister", "release", "crash"}
    Overlap = TRUE
    MaxStock = 3
    NoRow = NoRow
    InProgress = InProgress
    NoOrder = NoOrder
SYMMETRY Symmetry
SPECIFICATION CheckoutSpec
CHECK_DEADLOCK FALSE
INVARIANTS
    AnswerIsOwnOrder
    ReleasesItsReservation
    ReservedIsHeld
PROPERTIES
    CallersProtocol
