CONSTANTS
    A = A
    B = B
    Bad = Bad
    cd = cd
    low = low
    None = None
    NoRate = NoRate
    Docs = {A, B, Bad}
    Invalid = {Bad}
    First = A
    Rates = {cd, low}
    Unfits <- MCUnfits
    Ramp = 2
    Blocks = {1}
    Chains <- MCChains
    MaxSaves = 2
    MaxFaults = 1
    MaxStreams = 2
    MaxStarts = 1
SPECIFICATION FairSpec
INVARIANTS
    ChainsAreSound
    StartFindsDocument
    FlagsAreCurrent
PROPERTIES
    LastIsApplied
CHECK_DEADLOCK FALSE
