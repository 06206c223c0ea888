CONSTANTS
    v1 = v1
    v2 = v2
    Junk = Junk
    Data <- MCData
    BufSize = 6
    Sizes <- MCSizes
    Mods <- MCMods
    MaxCont = 3
SPECIFICATION SpecUnwrap
INVARIANTS
    TypeOK
    UnreadIsWritten
    FrameNeverStraddles
PROPERTIES
    Implements
    Unwraps
