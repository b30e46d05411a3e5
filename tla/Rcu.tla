---------------------------------- MODULE Rcu ----------------------------------
(***************************************************************************)
(* Read-copy update.  Kernel code uses objects while it holds the CPU lock *)
(* of its CPU; the timer interrupt and the request IPI, which do RCU's     *)
(* pending work, come when that lock is free and are quiescent states.     *)
(* A deleted object waits in the lists _n, _c and _d of the CPU that called *)
(* Rcu::call(): for a batch number, for every CPU that takes part to pass  *)
(* a quiescent state in that batch, and for its callback.                  *)
(*                                                                         *)
(* The global data is written under Rcu_glbl::_lock, but _current,         *)
(* _completed and _next_pending are also read without it: each such read,  *)
(* and each write they can see, is a step of its own.                      *)
(***************************************************************************)
EXTENDS Naturals, FiniteSets

CONSTANTS
    Cpu,
    Item,     \* the objects that are deleted, each with its Rcu_item
    UserCpu,    \* bound: the CPUs whose uses of objects are followed
    CreateIn,   \* bound: the batches in which objects are created anew
    FirstBatch, \* -300 in the code
    None,
    Half      \* batch numbers are longs: 2 * Half of them, compared by the sign
              \* of their difference

ASSUME RcuAssumption == /\ None \notin Cpu
                        /\ FirstBatch \in 0 .. 2 * Half - 1
                        /\ Half \in Nat /\ Half >= 2

VARIABLES
    current, completed, nextPending, cpus, activeCpus,   \* Rcu_glbl
    lock,                                     \* the CPU that has Rcu_glbl::_lock
    qBatch, pending, qPassed, batch,          \* Rcu_data, per CPU
    n, c, d,                                  \* its lists
    pc,        \* where a CPU is: "run" in other kernel or user code
    ret,       \* where start_batch() returns to
    status,    \* [Item -> "linked", "called" or "reclaimed"]
    holding    \* [Cpu -> the objects its kernel code uses]

glbl  == <<current, completed, nextPending, cpus, activeCpus>>
lists == <<batch, n, c, d>>
state == <<qBatch, pending, qPassed>>
users == <<status, holding>>
vars  == <<glbl, lock, lists, state, pc, ret, users>>

Batch == 0 .. 2 * Half - 1

\* Mutation: the batch number does not wrap
SuccNoWrap(b) == b + 1

Succ(b) == IF b = 2 * Half - 1 THEN 0 ELSE b + 1

\* Rcu_batch::operator >= : a - b is not negative
AtLeast(a, b) == IF a >= b THEN a - b < Half ELSE (a + 2 * Half) - b < Half

Init ==
    /\ current = FirstBatch /\ completed = FirstBatch
    /\ nextPending = FALSE
    /\ cpus = {} /\ activeCpus = {}
    /\ lock = None
    /\ qBatch = [p \in Cpu |-> 0]
    /\ pending = [p \in Cpu |-> FALSE]
    /\ qPassed = [p \in Cpu |-> FALSE]
    /\ batch = [p \in Cpu |-> 0]
    /\ n = [p \in Cpu |-> {}]
    /\ c = [p \in Cpu |-> {}]
    /\ d = [p \in Cpu |-> {}]
    /\ pc = [p \in Cpu |-> "asleep"]
    /\ ret = [p \in Cpu |-> "run"]
    /\ status = [i \in Item |-> "linked"]
    /\ holding = [p \in Cpu |-> {}]

IsPending(p) == \/ c[p] # {} /\ AtLeast(completed, batch[p])
                \/ c[p] = {} /\ n[p] # {}
                \/ d[p] # {}
                \/ qBatch[p] # current
                \/ pending[p]

IsIdle(p) == c[p] = {} /\ ~ IsPending(p)

Goto(p, label) == pc' = [pc EXCEPT ![p] = label]

\* to start_batch(), with the lock
CallStartBatch(p, label) == /\ lock' = p
                            /\ Goto(p, "start")
                            /\ ret' = [ret EXCEPT ![p] = label]

Return(p) == /\ lock' = None
             /\ Goto(p, ret[p])
             /\ ret' = [ret EXCEPT ![p] = "run"]

\* cpu_quiet(), after which the caller returns to label
CpuQuiet(p, label) ==
    /\ cpus' = cpus \ {p}
    /\ IF cpus \ {p} = {}
       THEN /\ completed' = current
            /\ CallStartBatch(p, label)
       ELSE /\ Goto(p, label)
            /\ UNCHANGED <<completed, lock, ret>>

-----------------------------------------------------------------------------
(* The users of RCU.                                                         *)

Use(p, i) == /\ p \in UserCpu /\ pc[p] = "run"
             /\ status[i] = "linked"
             /\ holding' = [holding EXCEPT ![p] = @ \cup {i}]
             /\ UNCHANGED <<glbl, lock, lists, state, pc, ret, status>>

\* the CPU lock is released
Release(p) == /\ holding[p] # {}
              /\ holding' = [holding EXCEPT ![p] = {}]
              /\ UNCHANGED <<glbl, lock, lists, state, pc, ret, status>>

\* an object is created in the place of a reclaimed one
Link(i) == /\ status[i] = "reclaimed"
           /\ current \in CreateIn
           /\ status' = [status EXCEPT ![i] = "linked"]
           /\ UNCHANGED <<glbl, lock, lists, state, pc, ret, holding>>

\* an object is unlinked and Rcu::call()ed
Call(p, i) == /\ pc[p] = "run"
              /\ status[i] = "linked"
              /\ status' = [status EXCEPT ![i] = "called"]
              /\ n' = [n EXCEPT ![p] = @ \cup {i}]
              /\ UNCHANGED <<glbl, lock, batch, c, d, state, pc, ret, holding>>

-----------------------------------------------------------------------------
(* Mutations: what the code would be with a plausible bug.                  *)

\* the items join the batch that is under way
AssignBatchCurrent(p) ==
    /\ pc[p] = "assign"
    /\ IF n[p] # {} /\ c[p] = {}
       THEN /\ c' = [c EXCEPT ![p] = n[p]]
            /\ n' = [n EXCEPT ![p] = {}]
            /\ batch' = [batch EXCEPT ![p] = current]
            /\ Goto(p, "next")
       ELSE /\ Goto(p, "check")
            /\ UNCHANGED <<batch, n, c>>
    /\ UNCHANGED <<glbl, lock, d, state, ret, users>>

\* enter_idle() does not announce the quiescent state
EnterIdleSilent(p) ==
    /\ pc[p] = "enter"
    /\ lock = None
    /\ activeCpus' = activeCpus \ {p}
    /\ qBatch' = [qBatch EXCEPT ![p] = current]
    /\ pending' = [pending EXCEPT ![p] = FALSE]
    /\ Goto(p, "asleep")
    /\ UNCHANGED <<current, completed, nextPending, cpus, lock, ret, lists, qPassed, users>>

\* leave_idle() takes part in the batch that is under way
LeaveIdleJoins(p) ==
    /\ pc[p] = "asleep"
    /\ lock = None
    /\ activeCpus' = activeCpus \cup {p}
    /\ cpus' = cpus \cup {p}
    /\ qBatch' = [qBatch EXCEPT ![p] = current]
    /\ Goto(p, "run")
    /\ UNCHANGED <<current, completed, nextPending, lock, lists, pending, qPassed, ret, users>>

-----------------------------------------------------------------------------
(* do_pending_work() and process_callbacks() on CPU p, one step for each    *)
(* access to what the other CPUs write.                                     *)

Work(p) == /\ pc[p] = "run"
           /\ holding[p] = {}
           /\ IsPending(p)
           /\ qPassed' = [qPassed EXCEPT ![p] = TRUE]
           /\ Goto(p, "move")
           /\ UNCHANGED <<glbl, lock, lists, qBatch, pending, ret, users>>

\* the items whose grace period is over
Move(p) == /\ pc[p] = "move"
           /\ IF c[p] # {} /\ AtLeast(completed, batch[p])
              THEN /\ d' = [d EXCEPT ![p] = @ \cup c[p]]
                   /\ c' = [c EXCEPT ![p] = {}]
              ELSE UNCHANGED <<c, d>>
           /\ Goto(p, "assign")
           /\ UNCHANGED <<glbl, lock, batch, n, state, ret, users>>

\* the new items get a batch
AssignBatch(p) ==
    /\ pc[p] = "assign"
    /\ IF n[p] # {} /\ c[p] = {}
       THEN /\ c' = [c EXCEPT ![p] = n[p]]
            /\ n' = [n EXCEPT ![p] = {}]
            /\ batch' = [batch EXCEPT ![p] = Succ(current)]
            /\ Goto(p, "next")
       ELSE /\ Goto(p, "check")
            /\ UNCHANGED <<batch, n, c>>
    /\ UNCHANGED <<glbl, lock, d, state, ret, users>>

\* is the next batch requested already?
ReadNextPending(p) == /\ pc[p] = "next"
                      /\ Goto(p, IF nextPending THEN "check" ELSE "request")
                      /\ UNCHANGED <<glbl, lock, lists, state, ret, users>>

RequestBatch(p) == /\ pc[p] = "request"
                   /\ lock = None
                   /\ nextPending' = TRUE
                   /\ CallStartBatch(p, "check")
                   /\ UNCHANGED <<current, completed, cpus, activeCpus, lists, state, users>>

\* start_batch() up to the write barrier, or its end
StartBatch(p) == /\ pc[p] = "start"
                 /\ IF nextPending /\ completed = current
                    THEN /\ nextPending' = FALSE
                         /\ Goto(p, "advance")
                         /\ UNCHANGED <<lock, ret>>
                    ELSE /\ Return(p)
                         /\ UNCHANGED nextPending
                 /\ UNCHANGED <<current, completed, cpus, activeCpus, lists, state, users>>

\* the rest of it; _cpus is used under the lock only
AdvanceBatch(p) == /\ pc[p] = "advance"
                   /\ current' = Succ(current)
                   /\ cpus' = activeCpus
                   /\ Return(p)
                   /\ UNCHANGED <<completed, nextPending, activeCpus, lists, state, users>>

\* check_quiescent_state(): a new grace period, nothing to announce, ...
CheckQuiescentState(p) ==
    /\ pc[p] = "check"
    /\ IF qBatch[p] # current
       THEN /\ pending' = [pending EXCEPT ![p] = TRUE]
            /\ qPassed' = [qPassed EXCEPT ![p] = FALSE]
            /\ qBatch' = [qBatch EXCEPT ![p] = current]
            /\ Goto(p, "batch")
       ELSE IF pending[p] /\ qPassed[p]
       THEN /\ pending' = [pending EXCEPT ![p] = FALSE]
            /\ Goto(p, "quiet")
            /\ UNCHANGED <<qBatch, qPassed>>
       ELSE /\ Goto(p, "batch")
            /\ UNCHANGED state
    /\ UNCHANGED <<glbl, lock, lists, ret, users>>

\* ... or the quiescent state that has passed
AnnounceQuiet(p) ==
    /\ pc[p] = "quiet"
    /\ lock = None
    /\ IF qBatch[p] = current
       THEN CpuQuiet(p, "batch")
       ELSE /\ Goto(p, "batch")
            /\ UNCHANGED <<completed, cpus, lock, ret>>
    /\ UNCHANGED <<current, nextPending, activeCpus, lists, state, users>>

\* do_batch(): the callbacks, that is the ends of rcu_wait()
DoBatch(p) == /\ pc[p] = "batch"
              /\ status' = [i \in Item |-> IF i \in d[p] THEN "reclaimed" ELSE status[i]]
              /\ d' = [d EXCEPT ![p] = {}]
              /\ Goto(p, "run")
              /\ UNCHANGED <<glbl, lock, batch, n, c, state, ret, holding>>

-----------------------------------------------------------------------------
(* Tickless idle and CPUs that are taken offline.                           *)

\* the idle loop finds no work for RCU
GoIdle(p) == /\ pc[p] = "run"
             /\ holding[p] = {}
             /\ IsIdle(p)
             /\ Goto(p, "enter")
             /\ UNCHANGED <<glbl, lock, lists, state, ret, users>>

EnterIdle(p) ==
    /\ pc[p] = "enter"
    /\ lock = None
    /\ activeCpus' = activeCpus \ {p}
    /\ IF qBatch[p] # current \/ pending[p]
       THEN /\ qBatch' = [qBatch EXCEPT ![p] = current]
            /\ pending' = [pending EXCEPT ![p] = FALSE]
            /\ CpuQuiet(p, "asleep")
       ELSE /\ Goto(p, "asleep")
            /\ UNCHANGED <<completed, cpus, lock, ret, qBatch, pending>>
    /\ UNCHANGED <<current, nextPending, lists, qPassed, users>>

LeaveIdle(p) ==
    /\ pc[p] = "asleep"
    /\ lock = None
    /\ activeCpus' = activeCpus \cup {p}
    /\ qBatch' = [qBatch EXCEPT ![p] = current]
    /\ Goto(p, "run")
    /\ UNCHANGED <<current, completed, nextPending, cpus, lock, lists, pending, qPassed, ret, users>>

-----------------------------------------------------------------------------
ProcessCallbacks(p) == \/ Move(p) \/ AssignBatch(p) \/ ReadNextPending(p)
                       \/ StartBatch(p) \/ AdvanceBatch(p)
                       \/ CheckQuiescentState(p) \/ DoBatch(p)

TakesLock(p) == RequestBatch(p) \/ AnnounceQuiet(p) \/ EnterIdle(p)

CpuNext(p) == \/ \E i \in Item : Use(p, i) \/ Call(p, i)
              \/ Release(p)
              \/ Work(p) \/ ProcessCallbacks(p) \/ TakesLock(p)
              \/ GoIdle(p) \/ LeaveIdle(p)

Next == \/ \E p \in Cpu : CpuNext(p)
        \/ \E i \in Item : Link(i)

Spec == Init /\ [][Next]_vars

\* Code runs on and releases the CPU lock; an interrupt that waits for this is
\* taken then; a CPU that spins for the lock does not lose each time.
Fairness == \A p \in Cpu : /\ WF_vars(Release(p)) /\ SF_vars(Work(p))
                           /\ WF_vars(ProcessCallbacks(p)) /\ SF_vars(TakesLock(p))

FairSpec == Spec /\ Fairness

-----------------------------------------------------------------------------
Label == {"run", "move", "assign", "next", "request", "start", "advance",
          "check", "quiet", "batch", "enter", "asleep"}

\* The variables have their types, and the lock its owner in start_batch().
TypeOK ==
    /\ current \in Batch /\ completed \in Batch
    /\ nextPending \in BOOLEAN
    /\ cpus \subseteq Cpu /\ activeCpus \subseteq Cpu
    /\ lock \in Cpu \cup {None}
    /\ qBatch \in [Cpu -> Batch] /\ batch \in [Cpu -> Batch]
    /\ pending \in [Cpu -> BOOLEAN] /\ qPassed \in [Cpu -> BOOLEAN]
    /\ n \in [Cpu -> SUBSET Item]
    /\ c \in [Cpu -> SUBSET Item]
    /\ d \in [Cpu -> SUBSET Item]
    /\ pc \in [Cpu -> Label]
    /\ ret \in [Cpu -> {"run", "check", "batch", "asleep"}]
    /\ status \in [Item -> {"linked", "called", "reclaimed"}]
    /\ holding \in [Cpu -> SUBSET Item]

\* The grace period goes on only for CPUs that know, or will find in pending(),
\* that it waits for them, and none of these sleeps: nobody else clears the bits
\* of _cpus, and check_quiescent_state() looks at other variables.
WaitedForKnows ==
    \A p \in cpus : /\ qBatch[p] # current \/ pending[p] \/ pc[p] = "quiet"
                    /\ pc[p] # "asleep"

\* An object is reclaimed only when no CPU uses it, whatever order the CPUs
\* access the global data in.
GP == INSTANCE GracePeriod
ImplementsGracePeriod == GP!Spec

\* Every object that was Rcu::call()ed is reclaimed, though CPUs go to sleep and
\* wake up in any grace period.
EventuallyReclaimed ==
    \A i \in Item : status[i] = "called" ~> status[i] = "reclaimed"
=============================================================================
