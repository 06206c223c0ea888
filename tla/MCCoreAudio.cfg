CONSTANTS
    Rates = {1, 2}
    DefaultRate = 1
    Tracks = 1
    Plans <- ThreePlans
SPECIFICATION MCSpec
INVARIANTS
    GivenBack
    BitPerfectIsTrue
    FallbackOnlyIfNeeded
PROPERTIES
    Resumes
    RateFollows
CHECK_DEADLOCK FALSE
