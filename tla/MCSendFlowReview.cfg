SPECIFICATION Spec
CONSTANTS
    m1 = m1
    w1 = w1
    w2 = w2
    NoId = NoId
    MediaIds <- MCIds
    Ids <- MCIds
    Workers <- MCWorkers
    Staleness = 2
    RetryCutoff = 4
    MaxAttempts = 3
    CallTimeout = 1
    MediaTimeout = 2
    MaxStalls = 0
    LateDispatch = FALSE
    MaxFaults = 0
    MaxResends = 1
PROPERTIES
    ReviewedIsNotLive
CHECK_DEADLOCK FALSE
