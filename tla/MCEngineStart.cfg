SPECIFICATION FairSpec
CONSTANTS
    Scripts = {"index.js"}
    Sentinels = {"index.js", "baileys"}
    Assets = {"index.js", "baileys", "other"}
    EntryPoint = "index.js"
    DefaultPort = 1
    MaxPortScan = 2
    MaxPortAttempts = 2
    Flag = 9
    Node = 8
    Entry = 7
    ArgumentLists <- ShortLists
    MaxSetups = 2
    MaxFaults = 1
INVARIANTS
    TrustedTreeIsWhole
    NodeFindsItsFiles
    ArgumentsArrive
PROPERTIES
    NoEngineBesideAListeningOne
    EngineListens
    ConnectsAgain
CHECK_DEADLOCK FALSE
