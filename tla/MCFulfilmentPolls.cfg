\* Two runs of the notification job overlap and may die; one request at a time
\* to the rest.
SPECIFICATION FairSpec
CONSTANTS
    Orders = {o1}
    Events <- MCEvents
    OrderOf <- MCOrderOf
    TypeOf <- MCTypeOf
    Handlers = {w1}
    Clerks = {a1}
    Polls = {p1, p2}
    BatchSize = 1
    Faults = {"read", "save", "commit", "listener", "clerk", "poll"}
INVARIANT
    ShipmentHistory
PROPERTIES
    EveryNotificationIsTried
    ShipmentLifeCycle
CHECK_DEADLOCK FALSE
