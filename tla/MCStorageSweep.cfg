SPECIFICATION Spec
CONSTANTS
    m1 = m1
    voice = voice
    doc1 = doc1
    doc2 = doc2
    NoMsg = NoMsg
    NoFile = NoFile
    Msgs <- MCMsgs
    Files <- MCFiles
    VoiceFiles <- MCVoice
    SentDelay = 1
    FailedDelay = 2
    MaxMedia = 2
    MaxCrashes = 1
PROPERTIES
    SweepSparesLiveMedia
CHECK_DEADLOCK FALSE
