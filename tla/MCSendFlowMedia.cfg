SPECIFICATION Spec
CONSTANTS
    m1 = m1
    w1 = w1
    w2 = w2
    NoId = NoId
    MediaIds <- MCIds
    Ids <- MCIds
    Workers <- MCWorkers
    Staleness = 2
    RetryCutoff = 4
    MaxAttempts = 2
    CallTimeout = 1
    MediaTimeout = 2
    MaxStalls = 1
    LateDispatch = FALSE
    MaxFaults = 1
    MaxResends = 0
SYMMETRY Symmetry
INVARIANTS
    ConfirmedWasDelivered
PROPERTIES
    DeletedStaysDeleted
CHECK_DEADLOCK FALSE
