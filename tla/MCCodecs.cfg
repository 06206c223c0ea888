CONSTANTS
    Playlists <- MCPlaylists
    SCap = 5
    OCap = 7
    MinRead = 1
    MinSpace = 4
    Threshold = 3
    Latency = 2
    Patience = 2
    Period = 1
    MaxPauses = 1
    MadDelay = 1
    ReadBuf = 3
    WriteBuf = 2
    FrameUnits = 2
    WrapBuf = 3
    Word = 16
SPECIFICATION FairSpec
INVARIANTS
    Delivery
    CompleteMeansAll
    StartIsFirst
PROPERTIES
    Ends
CHECK_DEADLOCK FALSE
