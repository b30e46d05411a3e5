----------------------------- MODULE ReadyQueue -----------------------------
(***************************************************************************)
(* class Ready_queue (fiasco/src/kern/ready_queue.cpp): the run queue of   *)
(* one CPU.  A queue record q == [queue, highest] holds the heads of the   *)
(* per-priority lists and the member prio_highest; the links are in the    *)
(* hooks k of the scheduling contexts (SdList).  Every operation takes and *)
(* returns a pair [hook, rq].                                              *)
(***************************************************************************)
EXTENDS SdList

CONSTANT MaxPrio      \* Ready_queue::priorities - 1

ASSUME MaxPrioAssumption == MaxPrio \in Nat

Prio == 0 .. MaxPrio

EmptyRq == [queue |-> [p \in Prio |-> Nil], highest |-> 0]

NextToRun(q) == q.queue[q.highest]

\* Mutation: prio_highest is not lowered
LowerHighestStays(queue, top) == top

\* while (queue[prio_highest].empty() && prio_highest) prio_highest--;
LowerHighest(queue, top) ==
    CHOOSE p \in 0 .. top :
        /\ p = 0 \/ queue[p] # Nil
        /\ \A r \in p+1 .. top : queue[r] = Nil

\* Mutation: prio_highest counts the queues in use
EnqueueCounts(k, q, e, p, pos) ==
    IF InList(k, e)
    THEN [hook |-> k, rq |-> q]
    ELSE LET r == Push(k, q.queue[p], e, pos)
         IN  [hook |-> r.hook,
              rq   |-> [queue   |-> [q.queue EXCEPT ![p] = r.head],
                        highest |-> IF p >= q.highest THEN p + 1 ELSE q.highest]]

\* enqueue() and ready_enqueue(): what is linked already stays where it is.
Enqueue(k, q, e, p, pos) ==
    IF InList(k, e)
    THEN [hook |-> k, rq |-> q]
    ELSE LET r == Push(k, q.queue[p], e, pos)
         IN  [hook |-> r.hook,
              rq   |-> [queue   |-> [q.queue EXCEPT ![p] = r.head],
                        highest |-> IF p > q.highest THEN p ELSE q.highest]]

ReadyEnqueue(k, q, e, p) == Enqueue(k, q, e, p, "Front")

\* dequeue() and ready_dequeue(): what is not linked is left alone.
ReadyDequeue(k, q, e, p) ==
    IF ~ InList(k, e)
    THEN [hook |-> k, rq |-> q]
    ELSE LET r     == RemoveItem(k, q.queue[p], e)
             queue == [q.queue EXCEPT ![p] = r.head]
         IN  [hook |-> r.hook,
              rq   |-> [queue |-> queue, highest |-> LowerHighest(queue, q.highest)]]

\* Mutation: rotate_to(scx) and not to its successor
RequeueKeepsTurn(k, q, e, p) ==
    IF ~ InList(k, e)
    THEN Enqueue(k, q, e, p, "Back")
    ELSE [hook |-> k, rq |-> [q EXCEPT !.queue[p] = e]]

\* requeue(): to the back, or the turn goes to the successor of e.
Requeue(k, q, e, p) ==
    IF ~ InList(k, e)
    THEN Enqueue(k, q, e, p, "Back")
    ELSE [hook |-> k,
          rq   |-> [q EXCEPT !.queue[p] = k.next[e]]]

\* Mutation: dominates() the wrong way round
PreemptsReversed(prio, scx, cur, rqcur) ==
    LET Dominates(a) == a # Nil /\ prio[a] < prio[scx]
    IN  ~ Dominates(cur) /\ (scx # rqcur => ~ Dominates(rqcur))

\* The result of deblock(): whether scx shall preempt.  cur is the scheduling
\* context of the running thread (Nil if it is not at home), rqcur the one
\* the CPU runs on.  A context of the same priority does preempt.
Preempts(prio, scx, cur, rqcur) ==
    LET Dominates(a) == a # Nil /\ prio[a] > prio[scx]
    IN  ~ Dominates(cur) /\ (scx # rqcur => ~ Dominates(rqcur))
=============================================================================
