SPECIFICATION FairSpec
CONSTANTS
    m1 = m1
    w1 = w1
    w2 = w2
    NoId = NoId
    MediaIds = {}
    Ids <- MCIds
    Workers <- MCWorkers
    Staleness = 2
    RetryCutoff = 4
    MaxAttempts = 2
    CallTimeout = 1
    MediaTimeout = 2
    MaxStalls = 0
    LateDispatch = FALSE
    MaxFaults = 2
    MaxResends = 1
INVARIANTS
    TypeOK
    ExclusiveDispatch
    AtMostOncePerRequest
    RequeuedIsUnsent
    AttemptCap
    OrphanRecoverable
PROPERTIES
    ConfirmedIsFinal
    ImplementsLifecycle
    EventualOutcome
CHECK_DEADLOCK FALSE
