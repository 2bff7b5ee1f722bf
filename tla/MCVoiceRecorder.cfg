SPECIFICATION FairSpec
CONSTANTS
    FlushThreshold = 3
    Lens = {1, 2}
    MaxFrames = 5
    InputSlots = 3
    MinDuration = 2
INVARIANTS
    StreamWellFormed
    NothingLost
    AttachedIsFinished
PROPERTY
    StopEnds
CHECK_DEADLOCK FALSE
