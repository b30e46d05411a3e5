SPECIFICATION FairSpec
CONSTANTS
    None = None
    Cpu = {p1, p2}
    Item = {i1, i2}
    UserCpu = {p1}
    CreateIn = {6, 7, 0}
    Half = 4
    FirstBatch = 6
INVARIANTS
    TypeOK
    WaitedForKnows
PROPERTIES
    ImplementsGracePeriod
    EventuallyReclaimed
\* a CPU without work for RCU is in user code
CHECK_DEADLOCK FALSE
