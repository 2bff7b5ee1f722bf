SPECIFICATION FairSpec
CONSTANT MaxStarts = 2
INVARIANTS
    ClientIsTheOpenSocket
    CutOnlyByNewerOrUser
    NoIdleService
PROPERTIES
    DispatchEnds
CHECK_DEADLOCK FALSE
