CONSTANTS
    A = A
    B = B
    cap = cap
    None = None
    Caps = {cap}
    Servers <- MCServers
    Packets <- MCPackets
    Homes <- MCHomes
    MaxBuf = 2
    MinLen = 1
    Patience = 1
    Retries = 1
    NameLen = 2
    MaxPackets = 2
    MaxEvents = 2
    MaxFaults = 2
    MaxAll = 3
SPECIFICATION FairSpec
INVARIANTS
    ExactlyOnce
    HeloIsTrue
PROPERTIES
    NameSurvives
    ComesBackOrStops
CHECK_DEADLOCK FALSE
