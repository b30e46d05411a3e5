------------------------------- MODULE BudgetSc -------------------------------
(***************************************************************************)
(* The arithmetic of Budget_sc on one CPU: what a budget has left, its     *)
(* out-of-budget timeout, which runs while a thread it constrains runs,    *)
(* and its replenishment timeout.  The timer interrupt may be late.        *)
(*                                                                         *)
(* A budget constrains one thread, from before the thread is started.      *)
(***************************************************************************)
EXTENDS Integers

CONSTANTS
    Thread, Idle,
    Sc,           \* budgets
    Of,           \* [Sc -> Thread]: whom a budget constrains
    Budget,       \* [Sc -> time]: _budget
    Period,       \* [Sc -> time]: _period
    Wrap,         \* 2^32: `unsigned n` in calc_and_schedule_next_repl()
    Late,         \* how late the timer interrupt may be
    MaxClock,     \* bound: uptime
    MaxSlices     \* bound: activations of a budget in a period

ASSUME BudgetAssumption ==
    /\ Idle \notin Thread
    /\ Of \in [Sc -> Thread]
    /\ Budget \in [Sc -> Nat \ {0}]
    /\ Period \in [Sc -> Nat \ {0}]
    /\ Wrap \in Nat \ {0}
    /\ Late \in Nat
    /\ MaxClock \in Nat
    /\ MaxSlices \in Nat

\* Timers tick in microseconds: 2^32 default periods are 497 days.
ASSUME UptimeAssumption ==
    \A s \in Sc : MaxClock \div Period[s] + 1 < Wrap

VARIABLES
    uptime,       \* Timer::system_clock()
    run, left,    \* [Sc -> ...]: _run and _left
    oobSet, oobAt,        \* [Sc -> ...]: _oob_timeout, is_set() and _wakeup
    replSet, nextRepl,    \* [Sc -> ...]: _repl_timeout is set; _next_repl
    started,      \* the threads that have been started
    owner,        \* the owner of Ready_queue::_current
    curr,         \* current()
    phase,        \* "user", "irq" in do_timeouts(), "sched" after it
    consumed,     \* history [Sc -> time the thread has run since replenish()]
    slices        \* history [Sc -> activations since replenish()]

timeouts == <<oobSet, oobAt, replSet, nextRepl>>
budgetVars == <<uptime, run, left, timeouts, started, owner, curr, phase, consumed,
                slices>>

BudgetInit ==
    /\ uptime = 0
    /\ run = [s \in Sc |-> TRUE]
    /\ left = Budget
    /\ oobSet = [s \in Sc |-> FALSE]
    /\ oobAt = [s \in Sc |-> 0]
    /\ replSet = [s \in Sc |-> FALSE]
    /\ nextRepl = [s \in Sc |-> 0]
    /\ started = {}
    /\ owner = Idle
    /\ curr = Idle
    /\ phase = "user"
    /\ consumed = [s \in Sc |-> 0]
    /\ slices = [s \in Sc |-> 0]

ScsOf(t) == {s \in Sc : Of[s] = t}

Positive(n) == IF n > 0 THEN n ELSE 0

Due(s) == \/ oobSet[s] /\ oobAt[s] <= uptime
          \/ replSet[s] /\ nextRepl[s] <= uptime

\* Mutation: calc_and_schedule_next_repl() forgets the period that has begun
NextReplShort(s) ==
    nextRepl[s] + ((uptime - nextRepl[s]) \div Period[s] % Wrap) * Period[s]

\* _next_repl after calc_and_schedule_next_repl(), if it is not ahead
NextRepl(s) ==
    LET n == ((uptime - nextRepl[s]) \div Period[s]) % Wrap
    IN  nextRepl[s] + ((n + 1) % Wrap) * Period[s]

-----------------------------------------------------------------------------
\* deactivate() leaves `rest` of the budgets of the old context, and of all
\* timeouts those of `running` set; activate() sets those of the new context.
ChangeCurrent(t, rest, running) ==
    /\ owner' = t
    /\ IF t = owner
       THEN UNCHANGED <<left, oobSet, oobAt, slices>>
       ELSE /\ left' = [s \in Sc |-> IF Of[s] = owner THEN rest[s] ELSE left[s]]
            /\ oobSet' = [s \in Sc |-> Of[s] = t \/ s \in running]
            /\ oobAt' = [s \in Sc |-> IF Of[s] = t THEN uptime + left[s] ELSE oobAt[s]]
            /\ \A s \in ScsOf(t) : slices[s] < MaxSlices
            /\ slices' = [s \in Sc |-> IF Of[s] = t THEN slices[s] + 1 ELSE slices[s]]

Rest == [s \in Sc |-> Positive(oobAt[s] - uptime)]

Running == {s \in Sc : oobSet[s] /\ Of[s] # owner}

(* Mutations: what the code would be with a plausible bug.                  *)

\* deactivate() does not save what is left
SetCurrentForgets(t) == ChangeCurrent(t, left, Running)

\* deactivate() does not reset the timeout
SetCurrentKeepsTimer(t) == ChangeCurrent(t, Rest, {s \in Sc : oobSet[s]})

\* period_expired() does not rearm the timeout of the running thread
ReplExpiredUnarmed(s) ==
    /\ phase = "irq"
    /\ replSet[s] /\ nextRepl[s] <= uptime
    /\ nextRepl' = [nextRepl EXCEPT ![s] = NextRepl(s)]
    /\ run' = [run EXCEPT ![s] = TRUE]
    /\ left' = [left EXCEPT ![s] = Budget[s]]
    /\ consumed' = [consumed EXCEPT ![s] = 0]
    /\ slices' = [slices EXCEPT ![s] = IF Of[s] = curr THEN 1 ELSE 0]
    /\ UNCHANGED <<uptime, oobSet, oobAt, replSet, started, owner, curr, phase>>

-----------------------------------------------------------------------------
\* Ready_queue::set_current(): deactivate() what constrains the old context,
\* activate() what constrains the new one
SetCurrent(t) == ChangeCurrent(t, Rest, Running)

\* The thread runs, on the time slice of its owner.
Tick ==
    /\ phase = "user"
    /\ uptime < MaxClock
    /\ \A s \in Sc : /\ oobSet[s] => uptime < oobAt[s] + Late
                     /\ replSet[s] => uptime < nextRepl[s] + Late
    /\ uptime' = uptime + 1
    /\ consumed' = [s \in Sc |-> IF Of[s] = owner THEN consumed[s] + 1 ELSE consumed[s]]
    /\ UNCHANGED <<run, left, timeouts, started, owner, curr, phase, slices>>

\* The end of the migration that starts a thread: Budget_sc::migrate_to(),
\* with replenish() and calc_and_schedule_next_repl()
Start(t) ==
    /\ phase = "user"
    /\ t \notin started
    /\ started' = started \cup {t}
    /\ run' = [s \in Sc |-> Of[s] = t \/ run[s]]
    /\ left' = [s \in Sc |-> IF Of[s] = t THEN Budget[s] ELSE left[s]]
    /\ replSet' = [s \in Sc |-> Of[s] = t \/ replSet[s]]
    /\ nextRepl' = [s \in Sc |-> IF Of[s] = t THEN NextRepl(s) ELSE nextRepl[s]]
    /\ UNCHANGED <<uptime, oobSet, oobAt, owner, curr, phase, consumed, slices>>

\* schedule(), after an interrupt or because the thread waits: whatever is
\* most urgent among the threads that can run
Dispatch(t) ==
    /\ phase \in {"user", "sched"}
    /\ t \in started \cup {Idle}
    /\ \A s \in ScsOf(t) : run[s]
    /\ SetCurrent(t)
    /\ curr' = t
    /\ phase' = "user"
    /\ UNCHANGED <<uptime, run, replSet, nextRepl, started, consumed>>

\* deblock_and_schedule(): the partner of an IPC is not asked can_run()
IpcSwitch(t) ==
    /\ phase = "user"
    /\ t \in started
    /\ SetCurrent(t)
    /\ curr' = t
    /\ UNCHANGED <<uptime, run, replSet, nextRepl, started, phase, consumed>>

\* The timer interrupt, and do_timeouts() with the timeouts that are due.  Their
\* order, that of their times in the code, is not used.
Interrupt ==
    /\ phase = "user"
    /\ \E s \in Sc : Due(s)
    /\ phase' = "irq"
    /\ UNCHANGED <<uptime, run, left, timeouts, started, owner, curr, consumed, slices>>

\* Budget_sc::Oob_timeout::expired()
OobExpired(s) ==
    /\ phase = "irq"
    /\ oobSet[s] /\ oobAt[s] <= uptime
    /\ oobSet' = [oobSet EXCEPT ![s] = FALSE]
    /\ run' = [run EXCEPT ![s] = FALSE]
    /\ UNCHANGED <<uptime, left, oobAt, replSet, nextRepl, started, owner, curr, phase,
                   consumed, slices>>

\* Budget_sc::Repl_timeout::expired(): replenish(), schedule the next one and
\* rearm the timeout if the running thread is constrained
ReplExpired(s) ==
    /\ phase = "irq"
    /\ replSet[s] /\ nextRepl[s] <= uptime
    /\ nextRepl' = [nextRepl EXCEPT ![s] = NextRepl(s)]
    /\ run' = [run EXCEPT ![s] = TRUE]
    /\ left' = [left EXCEPT ![s] = Budget[s]]
    /\ IF Of[s] = curr
       THEN /\ oobSet' = [oobSet EXCEPT ![s] = TRUE]
            /\ oobAt' = [oobAt EXCEPT ![s] = uptime + Budget[s]]
       ELSE UNCHANGED <<oobSet, oobAt>>
    /\ consumed' = [consumed EXCEPT ![s] = 0]
    /\ slices' = [slices EXCEPT ![s] = IF Of[s] = curr THEN 1 ELSE 0]
    /\ UNCHANGED <<uptime, replSet, started, owner, curr, phase>>

\* both expired() ask for a reschedule
InterruptEnd ==
    /\ phase = "irq"
    /\ \A s \in Sc : ~ Due(s)
    /\ phase' = "sched"
    /\ UNCHANGED <<uptime, run, left, timeouts, started, owner, curr, consumed, slices>>

BudgetNext ==
    \/ Tick
    \/ \E t \in Thread : Start(t) \/ IpcSwitch(t)
    \/ \E t \in Thread \cup {Idle} : Dispatch(t)
    \/ Interrupt \/ InterruptEnd
    \/ \E s \in Sc : OobExpired(s) \/ ReplExpired(s)

BudgetSpec == BudgetInit /\ [][BudgetNext]_budgetVars

-----------------------------------------------------------------------------
BudgetTypeOK ==
    /\ uptime \in Nat
    /\ run \in [Sc -> BOOLEAN]
    /\ left \in [Sc -> Nat]
    /\ oobSet \in [Sc -> BOOLEAN] /\ oobAt \in [Sc -> Nat]
    /\ replSet \in [Sc -> BOOLEAN] /\ nextRepl \in [Sc -> Nat]
    /\ started \subseteq Thread
    /\ owner \in Thread \cup {Idle} /\ curr \in Thread \cup {Idle}
    /\ phase \in {"user", "irq", "sched"}
    /\ consumed \in [Sc -> Nat]
    /\ slices \in [Sc -> Nat]

(* A budget is what its thread can count on: whatever order deactivations,  *)
(* activations, the two timeouts and late interrupts come in, the           *)
(* constraint is closed only when the thread has run for all of the budget  *)
(* since the last replenishment, and what it has run and what is left       *)
(* make at least the budget.                                                *)
BudgetIsGranted ==
    \A s \in Sc : /\ ~ run[s] => consumed[s] >= Budget[s]
                  /\ Of[s] # owner => consumed[s] + left[s] >= Budget[s]

(* A budget is what its thread is held to: between two replenishments it    *)
(* runs for no more than the budget and the lateness of the interrupt, once *)
(* for each time it was switched to; deactivate() forgives an overrun, and  *)
(* IPC switches to a thread that has used up its budget.                    *)
BudgetIsKept ==
    \A s \in Sc : consumed[s] <= Budget[s] + Late * slices[s]

(* After each replenishment the next one is scheduled, at most a period     *)
(* away, and it comes on time however late the last one was handled.        *)
ReplenishmentAhead ==
    \A s \in Sc : Of[s] \in started =>
       /\ replSet[s]
       /\ uptime <= nextRepl[s] + Late
       /\ nextRepl[s] <= uptime + Period[s]

(* activate() sets a timeout that is not set, as Timeout::set() demands:    *)
(* the timeouts of a budget are those of the context that has the CPU.      *)
SetOnlyUnset ==
    [][\A s \in Sc : owner' # owner /\ Of[s] = owner' => ~ oobSet[s]]_budgetVars
=============================================================================
