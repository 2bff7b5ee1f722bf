SPECIFICATION Spec
CONSTANTS
    m1 = m1
    m2 = m2
    k1 = k1
    k2 = k2
    k3 = k3
    Msgs <- MCMsgs
    Calls <- MCCalls
    NoMsg = NoMsg
    NoCall = NoCall
    Payloads <- MCPayloads
    MaxLost = 1
    MaxGiveUps = 2
    Cap = 1
    MaxRestarts = 1
SYMMETRY Symmetry
INVARIANTS
    PartsOnce
    SuccessIsComplete
PROPERTIES
    InOrder
CHECK_DEADLOCK FALSE
