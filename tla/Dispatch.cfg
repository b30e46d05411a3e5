SPECIFICATION SceneSpec
CONSTANTS
    Nil = Nil
    c0 = c0 c1 = c1
    idle0 = idle0 idle1 = idle1
    a = a b = b far = far
    s1 = s1 s2 = s2
    Cpu = {c0, c1}
    Thread = {idle0, idle1, a, b, far}
    SC = {s1, s2}
    MaxPrio = 2
    Idle <- IdleOf
    Home <- HomeOf
    Kind <- AllWindows
    TimerCpu <- OnC0
    ScxMaxSc = 2
    InitPrio <- SamePrio
    InitSlots <- OnBoth
    TickMax = 1
    Ops = {"detach", "quant"}
INVARIANTS
    TypeOK
    OneList
    Notified
    NoThreadLost
    DispatcherFindsNext
PROPERTIES
    SleepersRun
    SleeperWakes
\* all user threads may be asleep or blocked
CHECK_DEADLOCK FALSE
