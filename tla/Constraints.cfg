SPECIFICATION SceneSpec
CONSTANTS
    Nil = Nil
    c0 = c0 c1 = c1
    idle0 = idle0 idle1 = idle1
    a = a b = b far = far
    s1 = s1 s2 = s2
    Cpu = {c0, c1}
    Thread = {idle0, idle1, a, far}
    SC = {s1, s2}
    MaxPrio = 2
    Idle <- IdleOf
    Home <- HomeOf
    Kind <- BudgetAndWindow
    TimerCpu <- OnC0
    ScxMaxSc = 2
    InitPrio <- SamePrio
    InitSlots <- AOnBudget
    TickMax = 2
    Ops = {"attach", "oob", "repl", "window", "quant"}
INVARIANTS
    NoStranded
    BlocksOnce
    ReplenishmentPending
    OneHookOneList
    MostUrgentRuns
PROPERTIES
    OpenerGetsDone
\* an idle CPU may have no timeout set
CHECK_DEADLOCK FALSE
