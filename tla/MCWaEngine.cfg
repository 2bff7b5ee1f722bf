SPECIFICATION FairSpec
CONSTANTS
    c1 = c1
    c2 = c2
    c3 = c3
    Calls <- MCCalls
    MaxCloses = 2
    MaxPairings = 1
INVARIANTS
    OneSocket
    CodeFromReadySocket
PROPERTIES
    ConnectAnswered
    ReconnectFollows
    PairingAnswered
CHECK_DEADLOCK FALSE
