---------------------------- MODULE MCConstraints ----------------------------
(* Five scenes of ScSched for TLC, on two CPUs c0 and c1 with their idle     *)
(* threads, with user thread a at home on c0 and far on c1.  In the scene    *)
(* Timers, the instance of the configuration, a is constrained by a budget,  *)
(* and a window is attached to a or to far; in Flip a condition constrains   *)
(* a, and b on c0 and far flip it; in Share one condition constrains a and   *)
(* far, who both flip it; in Prio priorities change while a and far sleep    *)
(* and wake each other; in Own a, more urgent than the others, b on c0 and   *)
(* far do so at fixed priorities, each on its own time slice.                *)
EXTENDS ScSched

CONSTANTS c0, c1, idle0, idle1, a, b, far, s1, s2

VARIABLE scene

IdleOf == [c \in Cpu |-> IF c = c0 THEN idle0 ELSE idle1]
HomeIn(T) == [t \in T |-> IF t \in {idle1, far} THEN c1 ELSE c0]
HomeOf == HomeIn(Thread)
OnC0 == [s \in SC |-> c0]
BudgetAnd(kind) == [s \in SC |-> IF s = s1 THEN "budget" ELSE kind]
BudgetAndWindow == BudgetAnd("window")

\* only the idle thread of a CPU that is not the boot CPU calls set_idle()
PrioIn(T) == [t \in T |-> IF t = idle1 THEN 0 ELSE 1]
SamePrio == PrioIn(Thread)

SlotsIn(T, OfA, OfFar) ==
    [t \in T |-> <<CASE t = a -> OfA [] t = far -> OfFar [] OTHER -> Nil, Nil>>]
AOnBudget == SlotsIn(Thread, s1, Nil)
AndB == Thread \cup {b}

Flips == INSTANCE ScSched WITH
    Thread <- AndB, Home <- HomeIn(AndB), InitPrio <- PrioIn(AndB),
    Kind <- BudgetAnd("cond"), InitSlots <- SlotsIn(AndB, s2, Nil),
    TickMax <- 1, Ops <- {"flip", "quant"}

Shared == INSTANCE ScSched WITH
    Kind <- BudgetAnd("cond"), InitSlots <- SlotsIn(Thread, s2, s2),
    TickMax <- 1, Ops <- {"flip", "quant"}

Prios == INSTANCE ScSched WITH
    InitPrio <- [SamePrio EXCEPT ![a] = 2], InitSlots <- SlotsIn(Thread, Nil, Nil),
    TickMax <- 1,
    Ops <- {"sleep", "wakeRemote", "wakeSwitch", "ipcTimeout", "setPrio", "quant"}

Own == INSTANCE ScSched WITH
    Thread <- AndB, Home <- HomeIn(AndB),
    InitPrio <- [PrioIn(AndB) EXCEPT ![a] = 2], InitSlots <- SlotsIn(AndB, Nil, Nil),
    Ops <- {"sleep", "wakeRemote", "wakeLazy", "ipcTimeout", "quant"}

InTimers == scene = "timers"
InFlip   == scene = "flip"
InShare  == scene = "share"
InPrios  == scene = "prios"
InOwn    == scene = "own"

SceneInit == \/ InTimers /\ Init
             \/ InFlip /\ Flips!Init
             \/ InShare /\ Shared!Init
             \/ InPrios /\ Prios!Init
             \/ InOwn /\ Own!Init
SceneNext == /\ UNCHANGED scene
             /\ \/ InTimers /\ Next
                \/ InFlip /\ Flips!Next
                \/ InShare /\ Shared!Next
                \/ InPrios /\ Prios!Next
                \/ InOwn /\ Own!Next

sceneVars == <<scene, vars>>

\* The steps of a kernel path; they depend on the threads of a scene only,
\* and b is not in all of them.
WithB == InFlip \/ InOwn
SceneStep(c) ==
    /\ (~ WithB /\ KernelStep(c)) \/ (WithB /\ Own!KernelStep(c))
    /\ UNCHANGED scene

\* Kernel paths run on.
SceneSpec == SceneInit /\ [][SceneNext]_sceneVars /\ \A c \in Cpu : WF_sceneVars(SceneStep(c))

(* A context is in one list of the kernel, constrained or not, while its     *)
(* priority is changed and while it is woken, unless one list of blocked     *)
(* threads may hold two of them.                                             *)
OneHookOneList == /\ InTimers \/ InPrios => OneList
                  /\ InFlip => Flips!OneList
                  /\ InOwn => Own!OneList

(* A CPU in user mode is with the most urgent, whoever sleeps or is woken,   *)
(* as long as IPC hands no time slice over.                                  *)
MostUrgentRuns == InOwn => Own!RunsMostUrgent

(* Who opens a constraint that blocks one thread at most gets done with it:  *)
(* the list is emptied and the lock of the constraint comes free.            *)
OpenerGetsDone ==
    \A s \in SC :
       (~ InShare /\ run[s] /\ blocked[s] # Nil) ~> (InShare \/ Drained(s))
=============================================================================
