---------------------------- MODULE ReadyQueueSys ----------------------------
(***************************************************************************)
(* One ready queue and the operations the kernel applies to it, each run   *)
(* with interrupts off on the CPU that owns the queue.  The callers modelled *)
(* here keep the rule the queue relies on and does not check: a context is *)
(* linked into this queue, at its current priority, or into no list.       *)
(***************************************************************************)
EXTENDS ReadyQueue

CONSTANT Scx          \* scheduling contexts

ASSUME ScxAssumption == Nil \notin Scx /\ IsFiniteSet(Scx)

VARIABLES hook, rq,
          prio        \* Sched_context::_prio

queueVars == <<hook, rq, prio>>

Becomes(r) == hook' = r.hook /\ rq' = r.rq

QueueInit == /\ hook = NoHooks(Scx)
             /\ rq = EmptyRq
             /\ prio \in [Scx -> Prio]

\* update_ready_list(), deblock(), and every wake-up that does not switch
EnqueueReady(e) == /\ Becomes(ReadyEnqueue(hook, rq, e, prio[e]))
                   /\ UNCHANGED prio

\* schedule() on a thread that is no longer ready, migrate_away(), do_kill()
DequeueReady(e) == /\ Becomes(ReadyDequeue(hook, rq, e, prio[e]))
                   /\ UNCHANGED prio

\* Quant_sc::Timeslice_timeout::expired()
EndOfSlice(e) == /\ Becomes(Requeue(hook, rq, e, prio[e]))
                 /\ UNCHANGED prio

\* Mutation: the priority is set before the context is dequeued.
ChangePrioLate(e, p) ==
    /\ prio' = [prio EXCEPT ![e] = p]
    /\ IF InList(hook, e)
       THEN LET out == ReadyDequeue(hook, rq, e, p)
            IN  Becomes(ReadyEnqueue(out.hook, out.rq, e, p))
       ELSE UNCHANGED <<hook, rq>>

\* Context::change_prio_to(): the whole handler
ChangePrio(e, p) ==
    /\ prio' = [prio EXCEPT ![e] = p]
    /\ IF InList(hook, e)
       THEN LET out == ReadyDequeue(hook, rq, e, prio[e])
            IN  Becomes(ReadyEnqueue(out.hook, out.rq, e, p))
       ELSE UNCHANGED <<hook, rq>>

QueueNext == \E e \in Scx :
                \/ EnqueueReady(e)
                \/ DequeueReady(e)
                \/ EndOfSlice(e)
                \/ \E p \in Prio : ChangePrio(e, p)

QueueSpec == QueueInit /\ [][QueueNext]_queueVars

-----------------------------------------------------------------------------
QueueTypeOK ==
    /\ hook \in [next : [Scx -> Scx \cup {Nil}], prev : [Scx -> Scx \cup {Nil}]]
    /\ rq \in [queue : [Prio -> Scx \cup {Nil}], highest : Prio]
    /\ prio \in [Scx -> Prio]

(* prio_highest is never below a queue that has a context, so next_to_run() *)
(* cannot pass over the most urgent one, and it is exact: the list it names *)
(* is empty only when all are.                                              *)
HighestIsExact ==
    \A p \in Prio : rq.queue[p] # Nil =>
        /\ p <= rq.highest
        /\ rq.queue[rq.highest] # Nil

(* The ready queue implements the abstract run queue: the pointer lists     *)
(* read as sequences, and next_to_run() as the choice.                      *)
Order == [p \in Prio |-> AsSeq(hook, rq.queue[p])]

RunQueue == INSTANCE AbstractRunQueue WITH order <- Order, pick <- NextToRun(rq)

\* Whatever the kernel does to the lists is an insertion, removal, rotation or move of the
\* abstract run queue: RunQueue!Spec, the steps that leave the queue alone told apart first.
ImplementsRunQueue ==
    RunQueue!Init /\ [][UNCHANGED queueVars \/ RunQueue!Next]_(RunQueue!vars)
=============================================================================
