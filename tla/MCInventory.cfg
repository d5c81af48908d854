\* Two checkouts and two adjustments on two products, over two connections.
CONSTANTS
    Products <- MCProducts
    Orders = {o1, o2}
    Adjustments = {a1, a2}
    Connections = {c1, c2}
    Baskets <- MCBaskets
    Quantities <- MCQuantities
    Kinds <- MovementTypes
    InitialStock <- MCStock
    StockedAtStart = {1}
SPECIFICATION FairSpec
CHECK_DEADLOCK FALSE
INVARIANTS
    TypeOK
    PendingWritesAreFresh
    NoDeadlock
    SettledAtMostOnce
    LedgerExplainsStock
PROPERTIES
    ImplementsStock
    TransactionsEnd
