SPECIFICATION Spec
CONSTANTS
    c1 = c1
    c2 = c2
    c3 = c3
    Calls <- MCCalls
    MaxCloses = 2
    MaxPairings = 1
PROPERTIES
    NoReconnectAfterDisconnect
CHECK_DEADLOCK FALSE
