------------------------------- MODULE MCOneCpu -------------------------------
(* Three components of one CPU that share no state, in one model for TLC: the  *)
(* scene says which of them takes the steps, the others stay as they are at    *)
(* boot.  Two budgets, with a thread each, two timeouts, three contexts.       *)
EXTENDS ReadyQueueSys, BudgetSc, TimeoutQ

CONSTANTS t1, t2, s1, s2

VARIABLE scene

MCOf == [s \in Sc |-> IF s = s1 THEN t1 ELSE t2]

\* s2 is what the constructor makes: the budget is the period.
MCBudget == [s \in Sc |-> IF s = s1 THEN 1 ELSE 2]
MCPeriod == [s \in Sc |-> IF s = s1 THEN 3 ELSE 2]

SceneInit == /\ scene \in {"queue", "budgets", "timeouts"}
             /\ QueueInit /\ BudgetInit /\ WheelInit
             /\ scene # "queue" => \A e \in Scx : prio[e] = 0

SceneNext ==
    /\ UNCHANGED scene
    /\ \/ scene = "queue" /\ QueueNext /\ UNCHANGED <<budgetVars, wheelVars>>
       \/ scene = "budgets" /\ BudgetNext /\ UNCHANGED <<queueVars, wheelVars>>
       \/ scene = "timeouts" /\ WheelNext /\ UNCHANGED <<queueVars, budgetVars>>

SceneSpec == SceneInit /\ [][SceneNext]_<<scene, queueVars, budgetVars, wheelVars>>
=============================================================================
