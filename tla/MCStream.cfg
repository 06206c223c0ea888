CONSTANTS
    Wires <- MCWires
    SCap = 4
    MaxHeader = 9
    Threshold = 2
SPECIFICATION FairSpec
INVARIANTS
    FramingIsTrue
    HeaderIsWhole
    CauseIsTrue
PROPERTIES
    Finishes
CHECK_DEADLOCK FALSE
