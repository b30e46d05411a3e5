SPECIFICATION FairSpec
CONSTANTS
    None = None
    Off = Off
    p1 = p1 p2 = p2
    a = a b = b new = new
    Cpu = {p1, p2}
    Ctx = {a, b, new}
    InitHome <- NewThread
    InitReady = {a, b}
    Ops <- Moves
    Careful = TRUE
    MaxCalls = 3
INVARIANTS
    AtHome
    StackIsAlive
    ExecutedOnce
    TimersHere
PROPERTIES
    MigrationEnds
    RequestAnswered
    ReadyRuns
\* every call has been made
CHECK_DEADLOCK FALSE
