SPECIFICATION FairSpec
CONSTANTS
    Events = {e1, e2}
    Clients = {c1, c2}
    NoClient = noClient
    Sessions = {s1, s2}
    MaxClock = 2
    MaxFaults = 1
INVARIANTS
    LinkCovers
    DeviceIsTold
    TokensAreOfClient
PROPERTIES
    ChangesArrive
CHECK_DEADLOCK FALSE
