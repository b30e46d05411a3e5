-------------------------- MODULE AbstractRunQueue --------------------------
(***************************************************************************)
(* What a per-CPU ready queue promises: per priority a first-come order of *)
(* the queued scheduling contexts, and a choice, `pick`, that is always    *)
(* the first one of the highest priority that has any.                     *)
(***************************************************************************)
EXTENDS Naturals, Sequences, SequencesExt

CONSTANTS Scx, Prio, Nil

VARIABLES order,      \* [Prio -> sequence of the queued contexts]
          pick        \* the context to run next, Nil if none is queued

vars == <<order, pick>>

Queued(e) == \E p \in Prio : Contains(order[p], e)

First(o) ==
    IF \A p \in Prio : o[p] = <<>>
    THEN Nil
    ELSE Head(o[CHOOSE p \in Prio :
                   o[p] # <<>> /\ \A q \in Prio : o[q] # <<>> => q <= p])

Init == /\ order = [p \in Prio |-> <<>>]
        /\ pick = Nil

Set(p, s) == /\ order' = [order EXCEPT ![p] = s]
             /\ pick' = First(order')

\* A context that gets ready is queued, a context that runs in front of the
\* others of its priority, one whose time slice is over behind them.
Insert(e, p) == /\ ~ Queued(e)
                /\ \/ Set(p, <<e>> \o order[p])
                   \/ Set(p, Append(order[p], e))

Withdraw(e, p) == \E i \in DOMAIN order[p] :
                     /\ order[p][i] = e
                     /\ Set(p, RemoveAt(order[p], i))

\* The end of a time slice gives the turn to the one behind e; the cyclic
\* order of the priority is kept.
TurnTo(s, i) == SubSeq(s, i + 1, Len(s)) \o SubSeq(s, 1, i)

Turn(e, p) == \E i \in DOMAIN order[p] :
                 order[p][i] = e /\ Set(p, TurnTo(order[p], i))

\* A priority change takes the context out of its queue and puts it in front
\* of the other, in one step: it is never missing from the run queue.
Move(e, p, q) ==
    \E i \in DOMAIN order[p] :
       /\ order[p][i] = e
       /\ LET out == [order EXCEPT ![p] = RemoveAt(order[p], i)]
          IN  order' = [out EXCEPT ![q] = <<e>> \o out[q]]
       /\ pick' = First(order')

Next == \E e \in Scx, p \in Prio :
           \/ Insert(e, p)
           \/ Withdraw(e, p)
           \/ Turn(e, p)
           \/ \E q \in Prio : Move(e, p, q)

Spec == Init /\ [][Next]_vars
=============================================================================
