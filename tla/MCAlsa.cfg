CONSTANTS
    cd = cd
    hires = hires
    NoKind = NoKind
    Kinds <- MCKinds
    Music <- MCMusic
    BufferOf <- MCBufferOf
    PeriodOf <- MCPeriodOf
    Direct = {cd}
    Setups <- MCSetups
    RecoverLimit = 2
    DefaultKind = cd
    MaxToggles = 2
SPECIFICATION FairSpec
INVARIANTS
    DeviceIsFit
    HeardWhole
PROPERTIES
    Resumes
    LetsGo
CHECK_DEADLOCK FALSE
