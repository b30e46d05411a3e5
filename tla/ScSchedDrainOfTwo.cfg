SPECIFICATION FairSpec
CONSTANTS
    Nil = Nil
    c0 = c0
    idle0 = idle0
    a = a b = b
    s1 = s1
    Cpu = {c0}
    Thread = {idle0, a, b}
    SC = {s1}
    MaxPrio = 1
    Idle <- IdleOf
    Home <- HomeOf
    Kind <- AllWindow
    TimerCpu <- OnC0
    ScxMaxSc = 1
    InitPrio <- SamePrio
    InitSlots <- BothOnS1
    TickMax = 1
    Ops = {"window", "quant"}
PROPERTY OpenDrains
CHECK_DEADLOCK FALSE
