SPECIFICATION Spec
CONSTANTS
    Nil = Nil
    c0 = c0
    idle0 = idle0 
    a = a b = b
    s1 = s1
    Cpu = {c0}
    Thread = {idle0, a, b}
    SC = {s1}
    MaxPrio = 1
    Idle <- IdleOf
    Home <- HomeOf
    Kind <- AllCond
    TimerCpu <- OnC0
    ScxMaxSc = 1
    InitPrio <- SamePrio
    InitSlots <- AOnS1
    TickMax = 1
    Ops = {"flip", "quant", "setPrio"}
INVARIANT DispatcherFindsNext
CHECK_DEADLOCK FALSE
