--------------------------- MODULE BudgetSc_proofs ---------------------------
(***************************************************************************)
(* For any number of threads and budgets, any budgets and periods and any  *)
(* lateness of the timer interrupt: a budget is granted and kept, and the  *)
(* next replenishment is always ahead.                                     *)
(***************************************************************************)
EXTENDS BudgetSc, TLAPS

\* what the lateness of n timer interrupts may add
Allowed(n) == Late * n

Runs(s) == Of[s] = owner

\* the out-of-budget timeouts are those of the running slice, and only a
\* constraint that has just been closed has none while it runs
OobOK(s) ==
    /\ oobSet[s] => Runs(s)
    /\ Runs(s) => uptime <= oobAt[s] + Late
    /\ Runs(s) /\ ~ oobSet[s] => phase # "user" /\ ~ run[s]

\* what was run and what is left make the budget, and what was forgiven
AccountOK(s) ==
    /\ Runs(s) => /\ Budget[s] <= consumed[s] + (oobAt[s] - uptime)
                  /\ consumed[s] + (oobAt[s] - uptime) + Late
                        <= Budget[s] + Allowed(slices[s])
    /\ ~ Runs(s) => /\ Budget[s] <= consumed[s] + left[s]
                    /\ consumed[s] + left[s] <= Budget[s] + Allowed(slices[s])
    /\ ~ run[s] => /\ Runs(s) => oobAt[s] <= uptime
                   /\ ~ Runs(s) => left[s] = 0

ReplOK(s) ==
    IF Of[s] \in started
    THEN /\ replSet[s]
         /\ uptime <= nextRepl[s] + Late
         /\ nextRepl[s] <= uptime + Period[s]
    ELSE ~ replSet[s] /\ nextRepl[s] = 0 /\ consumed[s] = 0 /\ slices[s] = 0

ThreadsOK ==
    /\ uptime <= MaxClock
    /\ curr = owner
    /\ owner \in started \cup {Idle}

IInv == /\ BudgetTypeOK
        /\ ThreadsOK
        /\ \A s \in Sc : OobOK(s) /\ AccountOK(s) /\ ReplOK(s)

-----------------------------------------------------------------------------
LEMMA AllowedAdds ==
    /\ Allowed(0) = 0 /\ Allowed(1) = Late
    /\ \A n \in Nat : /\ Allowed(n) \in Nat
                      /\ Allowed(n + 1) = Allowed(n) + Late
  BY BudgetAssumption DEF Allowed

LEMMA Division ==
    ASSUME NEW d \in Nat, NEW p \in Nat \ {0}
    PROVE  /\ d \div p \in Nat
           /\ (d \div p) * p <= d
           /\ d < (d \div p + 1) * p
           /\ (d \div p + 1) * p <= d + p
  OBVIOUS

LEMMA DivisionGrows ==
    ASSUME NEW d \in Nat, NEW e \in Nat, d <= e, NEW p \in Nat \ {0}
    PROVE  d \div p <= e \div p
  OBVIOUS

LEMMA SmallRemainder ==
    ASSUME NEW n \in Nat, NEW w \in Nat \ {0}, n < w
    PROVE  n % w = n
  OBVIOUS

LEMMA NextReplIsAhead ==
    ASSUME BudgetTypeOK, uptime <= MaxClock, NEW s \in Sc, nextRepl[s] <= uptime
    PROVE  /\ NextRepl(s) \in Nat
           /\ uptime < NextRepl(s)
           /\ NextRepl(s) <= uptime + Period[s]
<1> DEFINE d == uptime - nextRepl[s]
           p == Period[s]
           n == d \div p
<1>1. /\ d \in Nat /\ p \in Nat \ {0} /\ MaxClock \in Nat /\ Wrap \in Nat
      /\ uptime \in Nat /\ nextRepl[s] \in Nat /\ d <= MaxClock
  BY BudgetAssumption DEF BudgetTypeOK
<1>2. n \in Nat /\ n * p <= d /\ d < (n + 1) * p /\ (n + 1) * p <= d + p
  BY <1>1, Division
<1>3. n <= MaxClock \div p
  BY <1>1, DivisionGrows
<1>4. MaxClock \div p + 1 < Wrap /\ MaxClock \div p \in Nat
  BY <1>1, UptimeAssumption, Division
<1>5. n % Wrap = n /\ (n + 1) % Wrap = n + 1
  <2>1. Wrap \in Nat \ {0} /\ MaxClock \div p + 1 < Wrap
    BY <1>4, BudgetAssumption
  <2> HIDE DEF n, p
  <2>2. n + 1 \in Nat /\ n < Wrap /\ n + 1 < Wrap
    BY <1>2, <1>3, <1>4, <2>1
  <2> QED BY <1>2, <2>1, <2>2, SmallRemainder
<1>6. NextRepl(s) = nextRepl[s] + (n + 1) * p
  <2>1. NextRepl(s) = nextRepl[s] + (((n % Wrap) + 1) % Wrap) * p
    BY DEF NextRepl
  <2> HIDE DEF n, p
  <2> QED BY <1>5, <2>1
<1> DEFINE m == (n + 1) * p
<1>7. m \in Nat /\ d < m /\ m <= d + p /\ NextRepl(s) = nextRepl[s] + m
  <2> HIDE DEF n, p, d
  <2> QED BY <1>1, <1>2, <1>6
<1> HIDE DEF m, n
<1> QED BY <1>1, <1>7

LEMMA InitOK == BudgetInit => IInv
<1> SUFFICES ASSUME BudgetInit PROVE IInv
  OBVIOUS
<1>1. BudgetTypeOK
  BY BudgetAssumption DEF BudgetInit, BudgetTypeOK
<1>2. ThreadsOK
  BY BudgetAssumption DEF BudgetInit, ThreadsOK
<1>3. ASSUME NEW s \in Sc PROVE OobOK(s) /\ AccountOK(s) /\ ReplOK(s)
  <2>1. ~ Runs(s) /\ Budget[s] \in Nat
    BY BudgetAssumption DEF BudgetInit, Runs
  <2> QED BY <2>1, AllowedAdds DEF BudgetInit, OobOK, AccountOK, ReplOK
<1> QED BY <1>1, <1>2, <1>3 DEF IInv

\* What a step that leaves a budget and its timeouts alone keeps.
LEMMA BudgetUntouched ==
    ASSUME NEW s \in Sc, OobOK(s), AccountOK(s), ReplOK(s),
           uptime' = uptime, run'[s] = run[s], left'[s] = left[s],
           oobSet'[s] = oobSet[s], oobAt'[s] = oobAt[s],
           replSet'[s] = replSet[s], nextRepl'[s] = nextRepl[s],
           consumed'[s] = consumed[s], slices'[s] = slices[s],
           owner' = owner, Of[s] \in started' <=> Of[s] \in started,
           phase' = "user" => phase = "user" \/ ~ Runs(s)
    PROVE  OobOK(s)' /\ AccountOK(s)' /\ ReplOK(s)'
  BY DEF OobOK, AccountOK, ReplOK, Runs, Allowed

LEMMA TickOK == IInv /\ Tick => IInv'
<1> SUFFICES ASSUME IInv, Tick PROVE IInv'
  OBVIOUS
<1>1. BudgetTypeOK'
  BY BudgetAssumption DEF IInv, BudgetTypeOK, Tick, timeouts
<1>2. ThreadsOK'
  BY BudgetAssumption DEF IInv, BudgetTypeOK, ThreadsOK, Tick, timeouts
<1>3. ASSUME NEW s \in Sc PROVE OobOK(s)' /\ AccountOK(s)' /\ ReplOK(s)'
  <2> USE <1>3 DEF timeouts
  <2>1. /\ OobOK(s) /\ AccountOK(s) /\ ReplOK(s) /\ phase = "user"
        /\ uptime \in Nat /\ uptime' = uptime + 1 /\ Late \in Nat
        /\ oobAt[s] \in Nat /\ nextRepl[s] \in Nat /\ Budget[s] \in Nat
        /\ Period[s] \in Nat /\ left[s] \in Nat /\ consumed[s] \in Nat
        /\ slices[s] \in Nat /\ Allowed(slices[s]) \in Nat
    BY BudgetAssumption, AllowedAdds DEF IInv, BudgetTypeOK, Tick
  <2>2. /\ oobSet[s] => uptime < oobAt[s] + Late
        /\ replSet[s] => uptime < nextRepl[s] + Late
        /\ consumed'[s] = IF Runs(s) THEN consumed[s] + 1 ELSE consumed[s]
        /\ UNCHANGED <<run, left, oobSet, oobAt, replSet, nextRepl, started, owner,
                       slices, phase>>
        /\ Runs(s)' = Runs(s)
    BY DEF Tick, Runs
  <2>3. OobOK(s)'
    BY <2>1, <2>2 DEF OobOK
  <2>4. AccountOK(s)'
    <3>1. Allowed(slices[s])' = Allowed(slices[s])
      BY <2>2 DEF Allowed
    <3>2. CASE Runs(s)
      BY <2>1, <2>2, <3>1, <3>2 DEF AccountOK
    <3>3. CASE ~ Runs(s)
      BY <2>1, <2>2, <3>1, <3>3 DEF AccountOK
    <3> QED BY <3>2, <3>3
  <2>5. ReplOK(s)'
    <3>1. CASE Of[s] \in started
      BY <2>1, <2>2, <3>1 DEF ReplOK
    <3>2. CASE Of[s] \notin started
      <4>1. ~ Runs(s)
        BY <3>2, <1>3, BudgetAssumption DEF IInv, ThreadsOK, Runs
      <4> QED BY <2>1, <2>2, <3>2, <4>1 DEF ReplOK
    <3> QED BY <3>1, <3>2
  <2> QED BY <2>3, <2>4, <2>5
<1> QED BY <1>1, <1>2, <1>3 DEF IInv

\* set_current(), for a thread that can run or that IPC switches to
LEMMA SwitchOK ==
    ASSUME IInv, NEW t \in started \cup {Idle}, SetCurrent(t), curr' = t,
           phase = "user" \/ \A s \in ScsOf(t) : run[s], phase' = "user",
           UNCHANGED <<uptime, run, replSet, nextRepl, started, consumed>>
    PROVE  IInv'
<1> USE DEF SetCurrent, ChangeCurrent
<1>1. BudgetTypeOK'
  <2>1. Rest \in [Sc -> Nat]
    BY BudgetAssumption DEF IInv, BudgetTypeOK, Rest, Positive
  <2>2. /\ left' \in [Sc -> Nat] /\ oobSet' \in [Sc -> BOOLEAN]
        /\ oobAt' \in [Sc -> Nat] /\ slices' \in [Sc -> Nat]
    <3>1. CASE t = owner
      BY <3>1 DEF IInv, BudgetTypeOK
    <3>2. CASE t # owner
      <4>1. left' \in [Sc -> Nat]
        BY <2>1, <3>2 DEF IInv, BudgetTypeOK
      <4>2. oobSet' \in [Sc -> BOOLEAN] /\ slices' \in [Sc -> Nat]
        <5>1. oobSet' \in [Sc -> BOOLEAN]
          <6>1. \A s \in Sc : (Of[s] = t \/ s \in Running) \in BOOLEAN
            OBVIOUS
          <6> QED BY <3>2, <6>1, Zenon
        <5>2. slices' \in [Sc -> Nat]
          BY <3>2 DEF IInv, BudgetTypeOK
        <5> QED BY <5>1, <5>2
      <4>3. oobAt' \in [Sc -> Nat]
        BY <3>2 DEF IInv, BudgetTypeOK
      <4> QED BY <4>1, <4>2, <4>3
    <3> QED BY <3>1, <3>2
  <2>3. t \in Thread \cup {Idle}
    BY DEF IInv, BudgetTypeOK
  <2> QED BY <2>2, <2>3 DEF IInv, BudgetTypeOK
<1>2. ThreadsOK'
  BY DEF IInv, ThreadsOK
<1>3. ASSUME NEW s \in Sc PROVE OobOK(s)' /\ AccountOK(s)' /\ ReplOK(s)'
  <2> USE <1>3
  <2>1. /\ OobOK(s) /\ AccountOK(s) /\ ReplOK(s)
        /\ uptime \in Nat /\ Late \in Nat /\ Budget[s] \in Nat
        /\ oobAt[s] \in Nat /\ left[s] \in Nat /\ consumed[s] \in Nat
        /\ slices[s] \in Nat /\ Allowed(slices[s]) \in Nat
        /\ Allowed(slices[s] + 1) = Allowed(slices[s]) + Late
    BY BudgetAssumption, AllowedAdds DEF IInv, BudgetTypeOK
  <2>2. Of[s] \in started' <=> Of[s] \in started
    OBVIOUS
  <2>3. CASE t = owner
    <3>1. oobSet[s] \/ ~ Runs(s)
      BY <2>1, <2>3 DEF OobOK, Runs, ScsOf
    <3> QED BY <2>1, <2>3, <3>1 DEF OobOK, AccountOK, ReplOK, Runs, Allowed
  <2>4. CASE t # owner /\ Runs(s)
    <3>1. /\ ~ Runs(s)' /\ ~ oobSet'[s] /\ slices'[s] = slices[s]
          /\ left'[s] = IF oobAt[s] - uptime > 0 THEN oobAt[s] - uptime ELSE 0
      BY <2>1, <2>4 DEF Runs, Running, Rest, Positive, IInv, BudgetTypeOK
    <3>2. OobOK(s)'
      BY <3>1 DEF OobOK
    <3>3. Allowed(slices[s])' = Allowed(slices[s])
      BY <3>1 DEF Allowed
    <3>4. AccountOK(s)'
      BY <2>1, <2>4, <3>1, <3>3 DEF AccountOK, OobOK
    <3>5. Of[s] \in started
      BY <2>4, BudgetAssumption DEF IInv, ThreadsOK, Runs
    <3>6. ReplOK(s)'
      BY <2>1, <3>5 DEF ReplOK
    <3> QED BY <3>2, <3>4, <3>6
  <2>5. CASE t # owner /\ ~ Runs(s) /\ Of[s] # t
    <3>1. /\ ~ Runs(s)' /\ ~ oobSet'[s] /\ slices'[s] = slices[s] /\ left'[s] = left[s]
      BY <2>1, <2>5 DEF Runs, Running, OobOK, IInv, BudgetTypeOK
    <3>2. Allowed(slices[s])' = Allowed(slices[s])
      BY <3>1 DEF Allowed
    <3> QED BY <2>1, <2>5, <3>1, <3>2 DEF OobOK, AccountOK, ReplOK
  <2>6. CASE t # owner /\ ~ Runs(s) /\ Of[s] = t
    <3>1. /\ Runs(s)' /\ oobSet'[s] /\ slices'[s] = slices[s] + 1
          /\ oobAt'[s] = uptime + left[s]
      BY <2>1, <2>6 DEF Runs, IInv, BudgetTypeOK
    <3>2. Allowed(slices[s])' = Allowed(slices[s]) + Late
      BY <2>1, <3>1 DEF Allowed
    <3>3. OobOK(s)'
      BY <2>1, <3>1 DEF OobOK
    <3>4. AccountOK(s)'
      BY <2>1, <2>6, <3>1, <3>2 DEF AccountOK
    <3>5. Of[s] \in started
      BY <2>6, BudgetAssumption
    <3>6. ReplOK(s)'
      BY <2>1, <3>5 DEF ReplOK
    <3> QED BY <3>3, <3>4, <3>6
  <2> QED BY <2>3, <2>4, <2>5, <2>6
<1> QED BY <1>1, <1>2, <1>3 DEF IInv

LEMMA StartOK == ASSUME IInv, NEW t \in Thread, Start(t) PROVE IInv'
<1> USE DEF Start
<1>1. \A s \in ScsOf(t) : nextRepl[s] = 0 /\ nextRepl[s] <= uptime
  BY DEF IInv, ReplOK, ScsOf, BudgetTypeOK
<1>2. \A s \in ScsOf(t) : /\ NextRepl(s) \in Nat
                          /\ uptime < NextRepl(s)
                          /\ NextRepl(s) <= uptime + Period[s]
  BY <1>1, NextReplIsAhead DEF IInv, ThreadsOK, ScsOf
<1>3. BudgetTypeOK'
  BY <1>2, BudgetAssumption DEF IInv, BudgetTypeOK, ScsOf
<1>4. ThreadsOK'
  BY DEF IInv, ThreadsOK
<1>5. ASSUME NEW s \in Sc PROVE OobOK(s)' /\ AccountOK(s)' /\ ReplOK(s)'
  <2>1. OobOK(s) /\ AccountOK(s) /\ ReplOK(s)
    BY <1>5 DEF IInv
  <2>2. CASE Of[s] # t
    <3>1. /\ run'[s] = run[s] /\ left'[s] = left[s] /\ replSet'[s] = replSet[s]
          /\ nextRepl'[s] = nextRepl[s]
          /\ Of[s] \in started' <=> Of[s] \in started
      BY <1>5, <2>2 DEF IInv, BudgetTypeOK
    <3> QED BY <1>5, <2>1, <3>1, BudgetUntouched
  <2>3. CASE Of[s] = t
    <3>1. /\ ~ Runs(s) /\ ~ Runs(s)' /\ ~ oobSet[s] /\ consumed[s] = 0 /\ slices[s] = 0
      BY <1>5, <2>1, <2>3, BudgetAssumption DEF IInv, ThreadsOK, Runs, OobOK, ReplOK
    <3>2. /\ run'[s] = TRUE /\ left'[s] = Budget[s] /\ replSet'[s] = TRUE
          /\ nextRepl'[s] = NextRepl(s) /\ Of[s] \in started'
      BY <1>5, <2>3 DEF IInv, BudgetTypeOK
    <3>3. Allowed(slices[s])' = 0 /\ Budget[s] \in Nat
      BY <1>5, <3>1, AllowedAdds, BudgetAssumption DEF Allowed
    <3>4. OobOK(s)' /\ AccountOK(s)'
      BY <3>1, <3>2, <3>3 DEF OobOK, AccountOK
    <3>5. ReplOK(s)'
      BY <1>2, <1>5, <2>3, <3>2, BudgetAssumption DEF ReplOK, ScsOf, IInv, BudgetTypeOK
    <3> QED BY <3>4, <3>5
  <2> QED BY <2>2, <2>3
<1> QED BY <1>3, <1>4, <1>5 DEF IInv

LEMMA OobExpiredOK == ASSUME IInv, NEW b \in Sc, OobExpired(b) PROVE IInv'
<1> USE DEF OobExpired
<1>1. BudgetTypeOK' /\ ThreadsOK'
  BY DEF IInv, BudgetTypeOK, ThreadsOK
<1>2. ASSUME NEW s \in Sc PROVE OobOK(s)' /\ AccountOK(s)' /\ ReplOK(s)'
  <2>1. OobOK(s) /\ AccountOK(s) /\ ReplOK(s)
    BY <1>2 DEF IInv
  <2>2. CASE s # b
    <3>1. run'[s] = run[s] /\ oobSet'[s] = oobSet[s]
      BY <1>2, <2>2 DEF IInv, BudgetTypeOK
    <3> QED BY <1>2, <2>1, <3>1, BudgetUntouched
  <2>3. CASE s = b
    <3>1. /\ run'[s] = FALSE /\ oobSet'[s] = FALSE /\ Runs(s) /\ Runs(s)'
          /\ oobAt[s] <= uptime /\ phase' = "irq"
      BY <1>2, <2>1, <2>3 DEF IInv, BudgetTypeOK, OobOK, Runs
    <3>2. OobOK(s)'
      BY <2>1, <3>1 DEF OobOK
    <3>3. AccountOK(s)'
      BY <2>1, <3>1 DEF AccountOK, Allowed
    <3>4. ReplOK(s)'
      BY <2>1 DEF ReplOK
    <3> QED BY <3>2, <3>3, <3>4
  <2> QED BY <2>2, <2>3
<1> QED BY <1>1, <1>2 DEF IInv

LEMMA ReplExpiredOK == ASSUME IInv, NEW b \in Sc, ReplExpired(b) PROVE IInv'
<1> USE DEF ReplExpired
<1>1. /\ NextRepl(b) \in Nat
      /\ uptime < NextRepl(b)
      /\ NextRepl(b) <= uptime + Period[b]
  BY NextReplIsAhead DEF IInv, ThreadsOK
<1>2. BudgetTypeOK'
  <2>1. Budget[b] \in Nat /\ uptime + Budget[b] \in Nat
    <3>1. Budget[b] \in Nat
      BY BudgetAssumption
    <3>2. uptime \in Nat
      BY DEF IInv, BudgetTypeOK
    <3> QED BY <3>1, <3>2
  <2>2. oobSet' \in [Sc -> BOOLEAN] /\ oobAt' \in [Sc -> Nat]
    <3>1. CASE Of[b] = curr
      <4>1. oobSet \in [Sc -> BOOLEAN] /\ oobSet' = [oobSet EXCEPT ![b] = TRUE]
        BY <3>1 DEF IInv, BudgetTypeOK
      <4>2. oobAt' \in [Sc -> Nat]
        BY <2>1, <3>1 DEF IInv, BudgetTypeOK
      <4> QED BY <4>1, <4>2
    <3>2. CASE Of[b] # curr
      BY <3>2 DEF IInv, BudgetTypeOK
    <3> QED BY <3>1, <3>2
  <2>3. nextRepl' \in [Sc -> Nat] /\ run' \in [Sc -> BOOLEAN]
    BY <1>1 DEF IInv, BudgetTypeOK
  <2>4. left' \in [Sc -> Nat] /\ consumed' \in [Sc -> Nat]
    BY <2>1 DEF IInv, BudgetTypeOK
  <2>5. slices' \in [Sc -> Nat]
    <3>1. (IF Of[b] = curr THEN 1 ELSE 0) \in Nat
      OBVIOUS
    <3> QED BY <3>1, Zenon DEF IInv, BudgetTypeOK
  <2> QED BY <2>2, <2>3, <2>4, <2>5 DEF IInv, BudgetTypeOK
<1>3. ThreadsOK'
  BY DEF IInv, ThreadsOK
<1>4. ASSUME NEW s \in Sc PROVE OobOK(s)' /\ AccountOK(s)' /\ ReplOK(s)'
  <2>1. OobOK(s) /\ AccountOK(s) /\ ReplOK(s)
    BY <1>4 DEF IInv
  <2>2. CASE s # b
    <3>1. /\ run'[s] = run[s] /\ left'[s] = left[s] /\ oobSet'[s] = oobSet[s]
          /\ oobAt'[s] = oobAt[s] /\ nextRepl'[s] = nextRepl[s]
          /\ consumed'[s] = consumed[s] /\ slices'[s] = slices[s]
      BY <1>4, <2>2 DEF IInv, BudgetTypeOK
    <3> QED BY <1>4, <2>1, <3>1, BudgetUntouched
  <2>3. CASE s = b
    <3>1. /\ run'[s] = TRUE /\ left'[s] = Budget[s] /\ nextRepl'[s] = NextRepl(s)
          /\ consumed'[s] = 0 /\ Runs(s)' = Runs(s) /\ Runs(s) = (Of[s] = curr)
      BY <1>4, <2>3 DEF IInv, BudgetTypeOK, ThreadsOK, Runs
    <3>2. /\ Allowed(0) = 0 /\ Allowed(1) = Late /\ Late \in Nat /\ Budget[s] \in Nat
          /\ uptime \in Nat
      BY <1>4, AllowedAdds, BudgetAssumption DEF IInv, BudgetTypeOK
    <3>3. Of[s] \in started
      BY <2>1, <2>3 DEF ReplOK
    <3>4. ReplOK(s)'
      BY <1>1, <2>1, <2>3, <3>1, <3>2, <3>3 DEF ReplOK
    <3>5. CASE Runs(s)
      <4>1. oobSet'[s] = TRUE /\ oobAt'[s] = uptime + Budget[s] /\ slices'[s] = 1
        BY <1>4, <2>3, <3>1, <3>5 DEF IInv, BudgetTypeOK
      <4>2. Allowed(slices[s])' = Late
        BY <3>2, <4>1 DEF Allowed
      <4> QED BY <3>1, <3>2, <3>4, <3>5, <4>1, <4>2 DEF OobOK, AccountOK
    <3>6. CASE ~ Runs(s)
      <4>1. oobSet'[s] = oobSet[s] /\ slices'[s] = 0
        BY <1>4, <2>3, <3>1, <3>6 DEF IInv, BudgetTypeOK
      <4>2. Allowed(slices[s])' = 0
        BY <3>2, <4>1 DEF Allowed
      <4> QED BY <2>1, <3>1, <3>2, <3>4, <3>6, <4>1, <4>2 DEF OobOK, AccountOK
    <3> QED BY <3>5, <3>6
  <2> QED BY <2>2, <2>3
<1> QED BY <1>2, <1>3, <1>4 DEF IInv

LEMMA InterruptOK == IInv /\ (Interrupt \/ InterruptEnd) => IInv'
<1> SUFFICES ASSUME IInv, Interrupt \/ InterruptEnd PROVE IInv'
  OBVIOUS
<1>1. /\ UNCHANGED <<uptime, run, left, timeouts, started, owner, curr, consumed, slices>>
      /\ phase' \in {"irq", "sched"}
  BY DEF Interrupt, InterruptEnd
<1>2. BudgetTypeOK' /\ ThreadsOK'
  BY <1>1 DEF IInv, BudgetTypeOK, ThreadsOK, timeouts
<1>3. ASSUME NEW s \in Sc PROVE OobOK(s)' /\ AccountOK(s)' /\ ReplOK(s)'
  <2>1. OobOK(s) /\ AccountOK(s) /\ ReplOK(s)
    BY <1>3 DEF IInv
  <2> QED BY <1>1, <1>3, <2>1, BudgetUntouched DEF timeouts
<1> QED BY <1>2, <1>3 DEF IInv

LEMMA StepOK == IInv /\ [BudgetNext]_budgetVars => IInv'
<1> SUFFICES ASSUME IInv, [BudgetNext]_budgetVars PROVE IInv'
  OBVIOUS
<1>1. CASE Tick
  BY <1>1, TickOK
<1>2. ASSUME NEW t \in Thread, Start(t) PROVE IInv'
  BY <1>2, StartOK
<1>3. ASSUME NEW t \in Thread, IpcSwitch(t) PROVE IInv'
  BY <1>3, SwitchOK DEF IpcSwitch
<1>4. ASSUME NEW t \in Thread \cup {Idle}, Dispatch(t) PROVE IInv'
  BY <1>4, SwitchOK DEF Dispatch
<1>5. CASE Interrupt \/ InterruptEnd
  BY <1>5, InterruptOK
<1>6. ASSUME NEW s \in Sc, OobExpired(s) PROVE IInv'
  BY <1>6, OobExpiredOK
<1>7. ASSUME NEW s \in Sc, ReplExpired(s) PROVE IInv'
  BY <1>7, ReplExpiredOK
<1>8. CASE UNCHANGED budgetVars
  <2>1. BudgetTypeOK' /\ ThreadsOK'
    BY <1>8 DEF IInv, BudgetTypeOK, ThreadsOK, budgetVars, timeouts
  <2>2. ASSUME NEW s \in Sc PROVE OobOK(s)' /\ AccountOK(s)' /\ ReplOK(s)'
    <3>1. OobOK(s) /\ AccountOK(s) /\ ReplOK(s)
      BY <2>2 DEF IInv
    <3> QED BY <1>8, <2>2, <3>1, BudgetUntouched DEF budgetVars, timeouts
  <2> QED BY <2>1, <2>2 DEF IInv
<1> QED BY <1>1, <1>2, <1>3, <1>4, <1>5, <1>6, <1>7, <1>8 DEF BudgetNext

LEMMA InvariantHolds == BudgetSpec => []IInv
  BY InitOK, StepOK, PTL DEF BudgetSpec

-----------------------------------------------------------------------------
(* Every variable of the budgets keeps its type: what is left is never      *)
(* negative, although an interrupt may come late.                           *)
THEOREM BudgetTypes == BudgetSpec => []BudgetTypeOK
<1>1. IInv => BudgetTypeOK
  BY DEF IInv
<1> QED BY <1>1, InvariantHolds, PTL

(* A constraint is closed only when its thread has run for the budget, and  *)
(* what deactivate() saves loses nothing of it.                             *)
THEOREM BudgetGranted == BudgetSpec => []BudgetIsGranted
<1>1. IInv => BudgetIsGranted
  <2> SUFFICES ASSUME IInv, NEW s \in Sc
               PROVE  /\ ~ run[s] => consumed[s] >= Budget[s]
                      /\ Of[s] # owner => consumed[s] + left[s] >= Budget[s]
    BY DEF BudgetIsGranted
  <2>1. /\ AccountOK(s) /\ uptime \in Nat /\ oobAt[s] \in Nat /\ left[s] \in Nat
        /\ consumed[s] \in Nat /\ Budget[s] \in Nat
    BY BudgetAssumption DEF IInv, BudgetTypeOK
  <2> QED BY <2>1 DEF AccountOK, Runs
<1> QED BY <1>1, InvariantHolds, PTL

(* Between two replenishments a thread overruns its budget by no more than  *)
(* the lateness of the interrupt for each time it was switched to.          *)
THEOREM BudgetKept == BudgetSpec => []BudgetIsKept
<1>1. IInv => BudgetIsKept
  <2> SUFFICES ASSUME IInv, NEW s \in Sc
               PROVE  consumed[s] <= Budget[s] + Late * slices[s]
    BY DEF BudgetIsKept
  <2>1. /\ AccountOK(s) /\ OobOK(s) /\ uptime \in Nat /\ oobAt[s] \in Nat
        /\ left[s] \in Nat /\ consumed[s] \in Nat /\ Budget[s] \in Nat
        /\ Late \in Nat /\ Allowed(slices[s]) \in Nat
    BY BudgetAssumption, AllowedAdds DEF IInv, BudgetTypeOK
  <2>2. consumed[s] <= Budget[s] + Allowed(slices[s])
    BY <2>1 DEF AccountOK, OobOK
  <2> QED BY <2>2 DEF Allowed
<1> QED BY <1>1, InvariantHolds, PTL

(* The next replenishment of a started budget is scheduled, ahead, and at   *)
(* most a period away.                                                      *)
THEOREM AlwaysReplenished == BudgetSpec => []ReplenishmentAhead
<1>1. IInv => ReplenishmentAhead
  BY DEF IInv, ReplOK, ReplenishmentAhead
<1> QED BY <1>1, InvariantHolds, PTL

(* Without donated time slices, activate() never sets a timeout that is set *)
(* already.                                                                 *)
THEOREM NeverSetTwice == BudgetSpec => SetOnlyUnset
<1>1. IInv /\ [BudgetNext]_budgetVars =>
        [\A s \in Sc : owner' # owner /\ Of[s] = owner' => ~ oobSet[s]]_budgetVars
  BY DEF IInv, OobOK, Runs
<1> QED BY <1>1, InvariantHolds, PTL DEF BudgetSpec, SetOnlyUnset
=============================================================================
