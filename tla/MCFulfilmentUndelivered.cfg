\* Two administrators at the same shipment; nothing fails.
SPECIFICATION FairSpec
CONSTANTS
    Orders = {o1}
    Events <- MCEvents
    OrderOf <- MCOrderOf
    TypeOf <- MCTypeOf
    Handlers = {w1}
    Clerks = {a1, a2}
    Polls = {}
    BatchSize = 1
    Faults = {}
PROPERTY
    ShipmentLifeCycle
CHECK_DEADLOCK FALSE
