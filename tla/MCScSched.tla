------------------------------ MODULE MCScSched ------------------------------
(* Instances of ScSched on one CPU: a condition that constrains a, or a      *)
(* window that constrains a and b.                                           *)
EXTENDS ScSched

CONSTANTS c0, idle0, a, b, s1

IdleOf == [c \in Cpu |-> idle0]
HomeOf == [t \in Thread |-> c0]
AllCond == [s \in SC |-> "cond"]
OnC0 == [s \in SC |-> c0]
SamePrio == [t \in Thread |-> 1]
AOnS1 == [t \in Thread |-> [i \in Slot |-> IF t = a THEN s1 ELSE Nil]]

AllWindow == [s \in SC |-> "window"]
BothOnS1 == [t \in Thread |-> [i \in Slot |-> IF t \in User THEN s1 ELSE Nil]]

\* Kernel paths run on.
FairSpec == Spec /\ \A c \in Cpu : WF_vars(KernelStep(c))
=============================================================================
