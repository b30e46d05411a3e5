------------------------------- MODULE TimeoutQ -------------------------------
(***************************************************************************)
(* The timeouts of one CPU: a wheel of sorted lists.  The list of a        *)
(* timeout is given by its wake-up time, a timer interrupt scans the lists *)
(* of the time that has passed since the last one.  The scan calls         *)
(* expired() of each timeout that is due, which may set and reset          *)
(* timeouts, itself included.  Time passes meanwhile.                      *)
(*                                                                         *)
(* Timeouts are set for the present or the future; only a thread that      *)
(* migrates brings along a timeout that may have hit on the way.           *)
(***************************************************************************)
EXTENDS Naturals, FiniteSets, Sequences, SequencesExt

CONSTANTS
    Timeout,
    QueueCount,   \* Wakeup_queue_count
    Distance,     \* 1 << Wakeup_queue_distance
    MaxSleep,     \* the 10 ms after which the one-shot timer fires anyway
    Forever,      \* ULONG_LONG_MAX
    OneShot,      \* Config::Scheduler_one_shot
    None,
    MaxTime,      \* bound: time ends
    MaxDelay      \* bound: how far in the future timeouts are set

ASSUME WheelAssumption ==
    /\ None \notin Timeout /\ None \notin Nat
    /\ QueueCount \in Nat \ {0}
    /\ Distance \in Nat \ {0}
    /\ MaxSleep \in Nat
    /\ Forever \in Nat
    /\ OneShot \in BOOLEAN
    /\ MaxTime \in Nat
    /\ MaxDelay \in Nat

VARIABLES
    clock,        \* Kip::clock()
    q,            \* [List -> sequence of timeouts]: Timeout_q::_q
    wakeup,       \* [Timeout -> time]: Timeout::_wakeup
    current,      \* Timeout_q::_current: what the one-shot timer is set to
    oldClock,     \* Timeout_q::_old_clock: `now` of the last, or current, scan
    pc,           \* "scan" in do_timeouts(), "idle" otherwise
    at, end,      \* its locals start and end
    to,           \* the timeout whose expired() runs, or None
    since         \* history: oldClock when the timeout was enqueued; 0 if unset

wheelVars == <<clock, q, wakeup, current, oldClock, pc, at, end, to, since>>

List == 0 .. QueueCount - 1

ListOf(w) == (w \div Distance) % QueueCount

IsSet(t) == \E b \in List : Contains(q[b], t)

\* where a timeout for time w belongs: behind those that are due before it
PlaceIn(s, w) == CHOOSE i \in 1 .. Len(s) + 1 :
                    /\ \A j \in 1 .. i - 1 : wakeup[s[j]] < w
                    /\ i = Len(s) + 1 \/ wakeup[s[i]] >= w

WheelInit ==
    /\ clock = 0
    /\ q = [b \in List |-> <<>>]
    /\ wakeup = [t \in Timeout |-> 0]
    /\ current = Forever
    /\ oldClock = 0
    /\ pc = "idle"
    /\ at = 0 /\ end = 0
    /\ to = None
    /\ since = [t \in Timeout |-> 0]

\* Kernel code that sets and resets timeouts runs with interrupts off, and
\* thus outside of a scan, or it is called by one.
MayCall == pc = "idle" \/ to # None

\* the first timeout of the scanned list has to expire
FirstIsDue == q[at] # <<>> /\ wakeup[Head(q[at])] <= oldClock

-----------------------------------------------------------------------------
(* Mutations: what the code would be with a plausible bug.                  *)

\* Timeout_q::enqueue() does not reprogram the timer
EnqueueSleeps(t, w) ==
    /\ ~ IsSet(t)
    /\ q' = [q EXCEPT ![ListOf(w)] = InsertAt(@, PlaceIn(@, w), t)]
    /\ wakeup' = [wakeup EXCEPT ![t] = w]
    /\ since' = [since EXCEPT ![t] = oldClock]
    /\ UNCHANGED <<clock, current, oldClock, pc, at, end, to>>

\* Timeout_q::enqueue() puts the timeout in front
EnqueueUnsorted(t, w) ==
    /\ ~ IsSet(t)
    /\ q' = [q EXCEPT ![ListOf(w)] = <<t>> \o @]
    /\ wakeup' = [wakeup EXCEPT ![t] = w]
    /\ since' = [since EXCEPT ![t] = oldClock]
    /\ current' = IF OneShot /\ w <= current THEN w ELSE current
    /\ UNCHANGED <<clock, oldClock, pc, at, end, to>>

ScanFrom(first, last) ==
    /\ pc = "idle"
    /\ pc' = "scan"
    /\ at' = first
    /\ end' = last
    /\ oldClock' = clock
    /\ UNCHANGED <<clock, q, wakeup, current, to, since>>

\* do_timeouts() leaves out the list of `now`, unless it is also the first
TimerInterruptShort ==
    LET start == oldClock \div Distance
        diff  == clock \div Distance - start
    IN  IF diff >= QueueCount
        THEN ScanFrom(0, 0)
        ELSE ScanFrom(start % QueueCount,
                      (start + (IF diff = 0 THEN 1 ELSE diff)) % QueueCount)

\* do_timeouts() does not expect to have missed the whole wheel
TimerInterruptNoMiss ==
    LET start == oldClock \div Distance
        diff  == clock \div Distance - start
    IN  ScanFrom(start % QueueCount, (start + diff + 1) % QueueCount)

\* do_timeouts() expires what the list holds for a later turn of the wheel
ScanExpireAll ==
    /\ pc = "scan" /\ to = None
    /\ q[at] # <<>>
    /\ to' = Head(q[at])
    /\ q' = [q EXCEPT ![at] = Tail(@)]
    /\ since' = [since EXCEPT ![Head(q[at])] = 0]
    /\ UNCHANGED <<clock, wakeup, current, oldClock, pc, at, end>>

-----------------------------------------------------------------------------
Advance == /\ clock < MaxTime
           /\ clock' = clock + 1
           /\ UNCHANGED <<q, wakeup, current, oldClock, pc, at, end, to, since>>

\* Timeout_q::enqueue(), with the assertion of its callers that the timeout is
\* not set
EnqueueTimeout(t, w) ==
    /\ ~ IsSet(t)
    /\ q' = [q EXCEPT ![ListOf(w)] = InsertAt(@, PlaceIn(@, w), t)]
    /\ wakeup' = [wakeup EXCEPT ![t] = w]
    /\ since' = [since EXCEPT ![t] = oldClock]
    /\ current' = IF OneShot /\ w <= current THEN w ELSE current
    /\ UNCHANGED <<clock, oldClock, pc, at, end, to>>

\* Timeout::set(): the callers look at the clock first
Set(t, w) == MayCall /\ w >= clock /\ EnqueueTimeout(t, w)

\* Timeout::set_again(), at the end of a migration: the time is the one set on
\* the CPU the thread comes from, and may have passed.
SetAgain(t, w) == pc = "idle" /\ w < clock /\ EnqueueTimeout(t, w)

\* Timeout::reset(): the timer stays programmed
Reset(t) ==
    /\ MayCall
    /\ \E b \in List : \E i \in DOMAIN q[b] :
          q[b][i] = t /\ q' = [q EXCEPT ![b] = RemoveAt(@, i)]
    /\ since' = [since EXCEPT ![t] = 0]
    /\ UNCHANGED <<clock, wakeup, current, oldClock, pc, at, end, to>>

(* Timeout_q::do_timeouts() *)

\* the lists of the time that has passed, or all when the wheel has turned
TimerInterrupt ==
    LET start == oldClock \div Distance
        diff  == clock \div Distance - start
    IN
    /\ pc = "idle"
    /\ pc' = "scan"
    /\ IF diff >= QueueCount
       THEN at' = 0 /\ end' = 0
       ELSE /\ at' = start % QueueCount
            /\ end' = (start + diff + 1) % QueueCount
    /\ oldClock' = clock
    /\ UNCHANGED <<clock, q, wakeup, current, to, since>>

\* the first of the list is due: it is removed, then its expired() is called
ScanExpire ==
    /\ pc = "scan" /\ to = None
    /\ FirstIsDue
    /\ to' = Head(q[at])
    /\ q' = [q EXCEPT ![at] = Tail(@)]
    /\ since' = [since EXCEPT ![Head(q[at])] = 0]
    /\ UNCHANGED <<clock, wakeup, current, oldClock, pc, at, end>>

ExpireReturns == /\ to # None
                 /\ to' = None
                 /\ UNCHANGED <<clock, q, wakeup, current, oldClock, pc, at, end, since>>

Fronts == {wakeup[Head(q[b])] : b \in {d \in List : q[d] # <<>>}}

\* the next list; after the last one the timer is programmed
ScanNext ==
    LET next == (at + 1) % QueueCount IN
    /\ pc = "scan" /\ to = None
    /\ ~ FirstIsDue
    /\ at' = next
    /\ IF next # end
       THEN UNCHANGED <<pc, current>>
       ELSE /\ pc' = "idle"
            /\ IF OneShot
               THEN /\ current' \in Fronts \cup {oldClock + MaxSleep}
                    /\ \A w \in Fronts \cup {oldClock + MaxSleep} : current' <= w
               ELSE UNCHANGED current
    /\ UNCHANGED <<clock, q, wakeup, oldClock, end, to, since>>

WheelNext ==
    \/ Advance
    \/ \E t \in Timeout : \/ \E d \in 0 .. MaxDelay : Set(t, clock + d)
                          \/ \E w \in 0 .. MaxTime : SetAgain(t, w)
                          \/ Reset(t)
    \/ TimerInterrupt
    \/ ScanExpire \/ ExpireReturns \/ ScanNext

WheelSpec == WheelInit /\ [][WheelNext]_wheelVars

-----------------------------------------------------------------------------
WheelTypeOK ==
    /\ clock \in Nat
    /\ q \in [List -> Seq(Timeout)]
    /\ wakeup \in [Timeout -> Nat]
    /\ current \in Nat
    /\ oldClock \in Nat /\ oldClock <= clock
    /\ pc \in {"idle", "scan"}
    /\ at \in List /\ end \in List
    /\ to \in Timeout \cup {None}
    /\ since \in [Timeout -> Nat]

(* A set timeout is where the scan looks for it: in the list of its time    *)
(* and in no other, once, and behind no other that is due later.            *)
Filed ==
    /\ \A b \in List : \A i \in DOMAIN q[b] :
          /\ ListOf(wakeup[q[b][i]]) = b
          /\ \A j \in DOMAIN q[b] :
                /\ i < j => wakeup[q[b][i]] <= wakeup[q[b][j]]
                /\ q[b][i] = q[b][j] => i = j

LateWhenSet(t) == wakeup[t] < since[t]

(* The comment in do_timeouts(), "to avoid losing timeouts, we calculate    *)
(* the missed queues and scan them too": between two scans no set timeout   *)
(* is left over from the time before the last one, however late that came   *)
(* and whatever the handlers have set in its course, except one that was    *)
(* late when it was set.                                                    *)
NoneForgotten ==
    pc = "idle" =>
       \A t \in Timeout : IsSet(t) => wakeup[t] >= oldClock \/ LateWhenSet(t)

(* A timeout that was late when it was set, which the scans then miss, is   *)
(* found at the latest when the wheel has turned once.                      *)
OneTurnLate ==
    pc = "idle" =>
       \A t \in Timeout : IsSet(t) /\ LateWhenSet(t) =>
          oldClock \div Distance < since[t] \div Distance + QueueCount

(* The one-shot timer does not sleep through a timeout, although reset()    *)
(* and the scan leave it programmed for others.                             *)
InterruptInTime ==
    OneShot /\ pc = "idle" => \A t \in Timeout : IsSet(t) => current <= wakeup[t]

(* The wheel implements the abstract timers: nothing expires early, twice,  *)
(* or after it was reset.                                                   *)
Timers == INSTANCE AbstractTimers WITH
               armed    <- [t \in Timeout |-> IF IsSet(t) THEN wakeup[t] ELSE None],
               expiring <- to

ImplementsTimers == Timers!Spec
=============================================================================
