---------------------------- MODULE AbstractTimers ----------------------------
(***************************************************************************)
(* What the timeouts of a CPU promise: a timeout that is set expires once, *)
(* not before its time, and one at a time; what is reset does not expire.  *)
(***************************************************************************)
EXTENDS Naturals

CONSTANTS Timeout, None

VARIABLES clock,
          armed,      \* [Timeout -> the time it is to expire at, or None]
          expiring    \* the timeout whose expired() runs, or None

vars == <<clock, armed, expiring>>

Init == /\ clock = 0
        /\ armed = [t \in Timeout |-> None]
        /\ expiring = None

Advance == /\ clock' = clock + 1
           /\ UNCHANGED <<armed, expiring>>

\* for any time, the past included
Set(t) == /\ armed[t] = None
          /\ armed'[t] \in Nat
          /\ armed' = [armed EXCEPT ![t] = armed'[t]]
          /\ UNCHANGED <<clock, expiring>>

Reset(t) == /\ armed' = [armed EXCEPT ![t] = None]
            /\ UNCHANGED <<clock, expiring>>

Expire(t) == /\ expiring = None
             /\ armed[t] # None /\ armed[t] <= clock
             /\ armed' = [armed EXCEPT ![t] = None]
             /\ expiring' = t
             /\ UNCHANGED clock

Done == /\ expiring' = None
        /\ UNCHANGED <<clock, armed>>

Next == \/ Advance
        \/ \E t \in Timeout : Set(t) \/ Reset(t) \/ Expire(t)
        \/ Done

Spec == Init /\ [][Next]_vars
=============================================================================
