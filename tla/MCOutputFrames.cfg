CONSTANTS
    Tracks = 3
    TrackLen = 2
    BufFrames = 4
    DefaultFrames = 0
    CrossFrames = 8
    Wanted = {2}
    MaxSilence = 2
    Threshold = 0
    Formats = {r44, r48}
    HalfDelay = 1
    FadeFrames = 2
    FadeModes = {"INOUT"}
    Counts = {1}
    Commands = {"f", "a"}
    Junk = Junk
    Null = Null
    Dangling = Dangling
SPECIFICATION MCSpec
INVARIANTS
    TrackIsTrue
    FadeOnTime
    NoGarbage
    CrossfadeKeeps
    NoAbruptSwitch
