CONSTANTS
    Tracks = 2
    TrackLen = 3
    BufFrames = 5
    DefaultFrames = 5
    CrossFrames = 6
    Wanted = {1}
    MaxSilence = 2
    Threshold = 1
    Formats = {r44}
    HalfDelay = 0
    FadeFrames = 2
    FadeModes = {"CROSSFADE"}
    Counts = {}
    Commands = {}
    Junk = Junk
    Null = Null
    Dangling = Dangling
SPECIFICATION Spec
INVARIANTS
    PlayedWereAnnounced
