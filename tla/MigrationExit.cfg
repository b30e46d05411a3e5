SPECIFICATION FairSpec
CONSTANTS
    None = None
    Off = Off
    p1 = p1 p2 = p2
    a = a b = b new = new
    Cpu = {p1, p2}
    Ctx = {a, b, new}
    InitHome <- NewThread
    InitReady = {a, b}
    Ops <- Exits
    Careful = FALSE
    MaxCalls = 2
PROPERTY MigrationEnds
CHECK_DEADLOCK FALSE
