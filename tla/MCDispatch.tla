----------------------------- MODULE MCDispatch -----------------------------
(* Two scenes of ScSched for TLC, on two CPUs c0 and c1 with their idle      *)
(* threads, with user threads a and b at home on c0 and far on c1.  In the   *)
(* scene Detach, the instance of the configuration, two closed windows       *)
(* constrain a and far and are detached by b; in the scene Sleep nothing is  *)
(* constrained but by its quantum, a is more urgent than the others, and     *)
(* threads sleep and wake one another.                                       *)
EXTENDS ScSched

CONSTANTS c0, c1, idle0, idle1, a, b, far, s1, s2

VARIABLE scene

IdleOf == [c \in Cpu |-> IF c = c0 THEN idle0 ELSE idle1]
HomeOf == [t \in Thread |-> IF t \in {idle1, far} THEN c1 ELSE c0]
AllWindows == [s \in SC |-> "window"]
OnC0 == [s \in SC |-> c0]

\* only the idle thread of a CPU that is not the boot CPU calls set_idle()
SamePrio == [t \in Thread |-> IF t = idle1 THEN 0 ELSE 1]
OnBoth == [t \in Thread |-> IF t \in {a, far} THEN <<s1, s2>> ELSE <<Nil, Nil>>]

Sleepers == INSTANCE ScSched WITH
    InitPrio <- [SamePrio EXCEPT ![a] = 2],
    InitSlots <- [t \in Thread |-> <<Nil, Nil>>],
    Ops <- {"sleep", "wakeRemote", "wakeSwitch", "wakeLazy", "ipcTimeout", "quant"}

InDetach == scene = "detach"
InSleep == scene = "sleep"

SceneInit == \/ InDetach /\ Init
             \/ InSleep /\ Sleepers!Init
SceneNext == ((InDetach /\ Next) \/ (InSleep /\ Sleepers!Next)) /\ UNCHANGED scene

sceneVars == <<scene, vars>>

\* Kernel paths run on, an interrupt request stays until it is taken, and what
\* runs uses up its quantum, which is kept over a switch (Quant_sc::deactivate()).
\* None of these steps depends on what the scenes differ in.
SceneSpec ==
    /\ SceneInit /\ [][SceneNext]_sceneVars
    /\ \A c \in Cpu : /\ WF_sceneVars(KernelStep(c) /\ UNCHANGED scene)
                      /\ SF_sceneVars(IpiArrives(c) /\ UNCHANGED scene)
                      /\ SF_sceneVars(QuantExpired(c) /\ UNCHANGED scene)

(* Who is queued at the highest priority gets a time slice. *)
SleepersRun == \A t \in User : (InSleep /\ Waits(t)) ~> (InDetach \/ HasTurn(t))

(* A wake-up from another CPU is carried out, where nobody spins on a lock.  *)
SleeperWakes ==
    \A t \in User : (InSleep /\ pending[t]) ~> (InDetach \/ (ready[t] /\ ~ pending[t]))
=============================================================================
