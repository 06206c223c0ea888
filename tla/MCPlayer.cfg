CONSTANTS
    Tracks = 2
    TrackLen = 2
    StreamThreshold = 0
    OutThreshold = 0
    MaxDecode = 2
    Plans <- ThreePlans
SPECIFICATION MCSpec
INVARIANTS
    ReportsAreTrue
    FlushedIsGone
PROPERTIES
    InOrder
    PlaysOut
    RefusalIsReported
