-------------------------- MODULE ScSchedConstants --------------------------
(* What an instance of ScSched consists of. *)
EXTENDS ReadyQueue

CONSTANTS
    Cpu, Thread, SC,
    Idle,         \* [Cpu -> Thread]: the kernel thread of the CPU
    Home,         \* [Thread -> Cpu]; threads do not migrate here
    Kind,         \* [SC -> {"cond", "budget", "window"}]
    TimerCpu,     \* [SC -> Cpu]: whose timeout queue holds the timer of it
    ScxMaxSc,     \* Config::Scx_max_sc, without the slot of the Quant_sc
    InitPrio,     \* [Thread -> Prio]
    InitSlots,    \* [Thread -> [Slot -> SC or Nil]]
    TickMax,      \* bound: timeouts that expire in one timer interrupt
    Ops           \* what the threads and the timers of the instance do

\* "share": a constraint is attached to several threads.
AllOps == {"flip", "attach", "share", "detach", "quant", "oob", "repl", "window",
           "sleep", "wakeRemote", "wakeSwitch", "wakeLazy", "ipcTimeout",
           "setPrio"}

ASSUME ConstantAssumption ==
    /\ Nil \notin Thread /\ Nil \notin Cpu /\ Nil \notin SC
    /\ IsFiniteSet(Thread)
    /\ Idle \in [Cpu -> Thread]
    /\ Home \in [Thread -> Cpu]
    /\ \A c \in Cpu : Home[Idle[c]] = c
    /\ Kind \in [SC -> {"cond", "budget", "window"}]
    /\ TimerCpu \in [SC -> Cpu]
    /\ ScxMaxSc \in Nat
    /\ InitPrio \in [Thread -> Prio]
    /\ InitSlots \in [Thread -> [1 .. ScxMaxSc -> SC \cup {Nil}]]
    /\ TickMax \in Nat
    /\ Ops \subseteq AllOps
=============================================================================
