SPECIFICATION FairSpec
CONSTANTS
    k1 = k1
    Keys = {k1}
    Creds = Creds
    Cap = 1
    MaxOps = 4
    MaxErrors = 1
    MaxCrashes = 1
INVARIANTS
    NeverTorn
    NoSilentReset
PROPERTIES
    CallsSettle
    ImplementsRegisters
CHECK_DEADLOCK FALSE
