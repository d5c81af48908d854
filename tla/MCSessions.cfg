\* Four requests of a user who waits for the answers, or of one who does not.
SPECIFICATION MCSpec
CONSTANTS
    Users = {patient, hasty}
    Patient = {patient}
    Requests = {1, 2, 3, 4}
    Expiration <- MCExpiration
    Hour = 1
    NoSession = NoSession
INVARIANTS
    SessionsTypeOK
    RegisteredOnce
    NewestOnly
PROPERTIES
    SignedOutStays
    DisabledGetsNothing
    EveryTokenEnds
CHECK_DEADLOCK FALSE
