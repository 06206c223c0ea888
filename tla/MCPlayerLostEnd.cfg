CONSTANTS
    Tracks = 1
    TrackLen = 2
    StreamThreshold = 0
    OutThreshold = 0
    MaxDecode = 1
    Plans <- ResetPlans
SPECIFICATION FairSpec
PROPERTIES
    FailureIsReported
