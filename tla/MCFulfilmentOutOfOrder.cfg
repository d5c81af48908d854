\* One request at a time, nothing fails; the events arrive in any order.
SPECIFICATION FairSpec
CONSTANTS
    Orders = {o1}
    Events <- MCEvents
    OrderOf <- MCOrderOf
    TypeOf <- MCTypeOf
    Handlers = {w1}
    Clerks = {}
    Polls = {}
    BatchSize = 1
    Faults = {}
PROPERTY
    PaidStaysPaid
CHECK_DEADLOCK FALSE
