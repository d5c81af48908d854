\* Overlapping webhooks, shipping requests and reviews; a handler may break off
\* anywhere.
SPECIFICATION ReviewsSpec
CONSTANTS
    Orders = {o1}
    Events <- MCEvents
    OrderOf <- MCOrderOf
    TypeOf <- MCTypeOf
    Handlers = {w1, w2, w3}
    Clerks = {a1}
    Polls = {}
    BatchSize = 1
    Faults = {"read", "save", "commit", "listener", "clerk", "poll"}
    bought = bought
    other = other
    Subjects <- MCSubjects
    Bought <- MCBought
    Reviewers = {r1, r2}
SYMMETRY MCReviewsSymmetry
INVARIANTS
    ReviewsTypeOK
    EmittedAtMostOnce
    StatusMatchesEvents
    EffectsAreExplained
    ReviewsVerified
PROPERTIES
    NoFurtherReview
CHECK_DEADLOCK FALSE
