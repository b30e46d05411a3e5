SPECIFICATION SceneSpec
CONSTANTS
    Nil = Nil
    MaxPrio = 2
    Scx = {a, b, c}

    t1 = t1
    t2 = t2
    s1 = s1
    s2 = s2
    Thread = {t1, t2}
    Idle = idle
    Sc = {s1, s2}
    Of <- MCOf
    Budget <- MCBudget
    Period <- MCPeriod
    Wrap = 16
    Late = 1
    MaxClock = 9
    MaxSlices = 4

    None = None
    Timeout = {t1, t2}
    QueueCount = 2
    Distance = 2
    MaxSleep = 3
    Forever = 100
    OneShot = TRUE
    MaxTime = 6
    MaxDelay = 4
INVARIANTS
    HighestIsExact
    BudgetIsGranted
    BudgetIsKept
    ReplenishmentAhead
    Filed
    NoneForgotten
    OneTurnLate
    InterruptInTime
PROPERTIES
    ImplementsRunQueue
    SetOnlyUnset
    ImplementsTimers
