------------------------------ MODULE Rcu_proofs ------------------------------
(***************************************************************************)
(* RCU keeps its promise, with any number of CPUs and objects and batch    *)
(* numbers of any width.                                                   *)
(***************************************************************************)
EXTENDS Rcu, TLAPS

\* The lock has its owner in start_batch(), and only there across steps.
LockInv == \A p \in Cpu : pc[p] \in {"start", "advance"} <=> lock = p

\* At most one batch is under way, and none when the next one is started.
BatchInv == /\ completed = current \/ current = Succ(completed)
            /\ \A p \in Cpu : pc[p] = "advance" => completed = current

\* A CPU that does not sleep, or fall asleep, takes part in the next batch.
Awake(p) == \/ pc[p] \notin {"asleep", "start", "advance"}
            \/ pc[p] \in {"start", "advance"} /\ ret[p] # "asleep"

ActiveInv == /\ \A p \in Cpu : Awake(p) => p \in activeCpus
             /\ \A p \in Cpu : holding[p] # {} => pc[p] = "run"

Listed(p) == n[p] \cup c[p] \cup d[p]

\* What is called is in one list, and nothing else is in any.
ListInv == /\ \A p \in Cpu : \A i \in Listed(p) : status[i] = "called"
           /\ \A p, q \in Cpu : p # q => Listed(p) \cap Listed(q) = {}
           /\ \A p \in Cpu : d[p] \cap (n[p] \cup c[p]) = {} /\ n[p] \cap c[p] = {}

\* The batch of the items in c[p] waits, or will wait, for CPU q.
Waits(p, q) == \/ batch[p] = Succ(current)
               \/ batch[p] = current /\ completed # current /\ q \in cpus

GraceInv == \A q \in Cpu : \A i \in holding[q] :
                /\ status[i] # "reclaimed"
                /\ \A p \in Cpu : i \notin d[p] /\ (i \in c[p] => Waits(p, q))

IInv == TypeOK /\ LockInv /\ BatchInv /\ ActiveInv /\ ListInv /\ GraceInv

-----------------------------------------------------------------------------
LEMMA SuccType == \A b \in Batch : Succ(b) \in Batch /\ Succ(b) # b
  BY RcuAssumption DEF Batch, Succ

\* The comparison of batch numbers does not take the batch after the last
\* completed one, or the one after that, for completed.
LEMMA NotYet ==
  ASSUME NEW a \in Batch
  PROVE  /\ ~ AtLeast(a, Succ(a))
         /\ ~ AtLeast(a, Succ(Succ(a)))
  BY RcuAssumption DEF Batch, Succ, AtLeast

\* The actions of a CPU, one by one.
Steps(p) == \/ \E i \in Item : Use(p, i)
            \/ \E i \in Item : Call(p, i)
            \/ Release(p) \/ Work(p)
            \/ Move(p) \/ AssignBatch(p) \/ ReadNextPending(p)
            \/ RequestBatch(p) \/ StartBatch(p) \/ AdvanceBatch(p)
            \/ CheckQuiescentState(p) \/ AnnounceQuiet(p) \/ DoBatch(p)
            \/ GoIdle(p) \/ EnterIdle(p) \/ LeaveIdle(p)

LEMMA NextSteps == Next => \/ \E p \in Cpu : Steps(p)
                           \/ \E i \in Item : Link(i)
  BY DEF Next, CpuNext, ProcessCallbacks, TakesLock, Steps

-----------------------------------------------------------------------------
LEMMA TypeInit == Init => TypeOK
<1> SUFFICES ASSUME Init PROVE TypeOK
  OBVIOUS
<1>1. 0 \in Batch /\ FirstBatch \in Batch
  BY RcuAssumption DEF Batch
<1>2. QED
  BY <1>1 DEF Init, TypeOK, Label

LEMMA TypeStep == TypeOK /\ [Next]_vars => TypeOK'
<1> SUFFICES ASSUME TypeOK, [Next]_vars PROVE TypeOK'
  OBVIOUS
<1> USE SuccType, RcuAssumption DEF TypeOK
<1>1. CASE UNCHANGED vars
  BY <1>1 DEF vars, glbl, lists, state, users
<1>2. CASE \E i \in Item : Link(i)
  BY <1>2 DEF Link, glbl, lists, state
<1>3. CASE \E p \in Cpu : Steps(p)
  <2> PICK p \in Cpu : Steps(p)
    BY <1>3
  <2> USE DEF glbl, lists, state, users, Goto, Return, Label
  <2>1. CASE \E i \in Item : Use(p, i)
    BY <2>1 DEF Use
  <2>2. CASE \E i \in Item : Call(p, i)
    BY <2>2 DEF Call
  <2>3. CASE Release(p)
    BY <2>3 DEF Release
  <2>4. CASE Work(p)
    BY <2>4 DEF Work
  <2>5. CASE Move(p)
    BY <2>5 DEF Move
  <2>6. CASE AssignBatch(p)
    BY <2>6 DEF AssignBatch
  <2>7. CASE ReadNextPending(p)
    BY <2>7 DEF ReadNextPending
  <2>8. CASE RequestBatch(p)
    BY <2>8 DEF RequestBatch, CallStartBatch
  <2>9. CASE StartBatch(p)
    <3>1. nextPending' \in BOOLEAN
      <4>1. CASE nextPending /\ completed = current
        BY <2>9, <4>1 DEF StartBatch
      <4>2. CASE ~ (nextPending /\ completed = current)
        BY <2>9, <4>2 DEF StartBatch
      <4> QED BY <4>1, <4>2
    <3>2. ret[p] \in Label
      OBVIOUS
    <3>3. pc' \in [Cpu -> Label] /\ lock' \in Cpu \cup {None}
      BY <2>9, <3>2 DEF StartBatch
    <3>4. QED
      BY <2>9, <3>1, <3>3 DEF StartBatch
  <2>10. CASE AdvanceBatch(p)
    BY <2>10 DEF AdvanceBatch
  <2>11. CASE CheckQuiescentState(p)
    <3>1. /\ pending' \in [Cpu -> BOOLEAN]
          /\ qPassed' \in [Cpu -> BOOLEAN]
      BY <2>11 DEF CheckQuiescentState
    <3>2. /\ qBatch' \in [Cpu -> Batch]
          /\ pc' \in [Cpu -> Label]
      BY <2>11 DEF CheckQuiescentState
    <3>3. QED
      BY <2>11, <3>1, <3>2 DEF CheckQuiescentState
  <2>12. CASE AnnounceQuiet(p)
    BY <2>12 DEF AnnounceQuiet, CpuQuiet, CallStartBatch
  <2>13. CASE DoBatch(p)
    BY <2>13 DEF DoBatch
  <2>14. CASE GoIdle(p)
    BY <2>14 DEF GoIdle
  <2>15. CASE EnterIdle(p)
    <3>1. pending' \in [Cpu -> BOOLEAN] /\ qBatch' \in [Cpu -> Batch]
      BY <2>15 DEF EnterIdle
    <3>2. /\ completed' \in Batch /\ cpus' \subseteq Cpu
          /\ lock' \in Cpu \cup {None} /\ pc' \in [Cpu -> Label]
          /\ ret' \in [Cpu -> {"run", "check", "batch", "asleep"}]
      BY <2>15 DEF EnterIdle, CpuQuiet, CallStartBatch
    <3>3. QED
      BY <2>15, <3>1, <3>2 DEF EnterIdle
  <2>16. CASE LeaveIdle(p)
    BY <2>16 DEF LeaveIdle
  <2>17. QED
    BY <2>1, <2>2, <2>3, <2>4, <2>5, <2>6, <2>7, <2>8, <2>9, <2>10, <2>11,
       <2>12, <2>13, <2>14, <2>15, <2>16 DEF Steps
<1>4. QED
  BY <1>1, <1>2, <1>3, NextSteps

\* The variables of RCU have their types for every number of CPUs and objects.
THEOREM RcuTypeCorrect == Spec => []TypeOK
<1>1. QED
  BY TypeInit, TypeStep, PTL DEF Spec
-----------------------------------------------------------------------------
LEMMA InitIInv == Init => IInv
<1> SUFFICES ASSUME Init PROVE IInv
  OBVIOUS
<1>1. TypeOK
  BY TypeInit
<1>2. LockInv
  BY RcuAssumption DEF Init, LockInv
<1>3. BatchInv /\ ActiveInv
  BY DEF Init, BatchInv, ActiveInv, Awake
<1>4. ListInv /\ GraceInv
  BY DEF Init, ListInv, Listed, GraceInv
<1>5. QED
  BY <1>1, <1>2, <1>3, <1>4 DEF IInv

\* What the steps of the lock and the batch numbers leave of the invariant.
LEMMA LockStep == ASSUME IInv, NEW p \in Cpu, Steps(p) PROVE LockInv'
<1> USE RcuAssumption DEF IInv, TypeOK, LockInv, Goto, Return, glbl, lists, state, users
<1>1. CASE \E i \in Item : Use(p, i) \/ Call(p, i)
  BY <1>1 DEF Use, Call
<1>2. CASE Release(p) \/ Work(p) \/ Move(p) \/ AssignBatch(p) \/ ReadNextPending(p)
  BY <1>2 DEF Release, Work, Move, AssignBatch, ReadNextPending
<1>3. CASE RequestBatch(p)
  BY <1>3 DEF RequestBatch, CallStartBatch
<1>4. CASE StartBatch(p)
  BY <1>4 DEF StartBatch
<1>5. CASE AdvanceBatch(p)
  BY <1>5 DEF AdvanceBatch
<1>6. CASE CheckQuiescentState(p) \/ DoBatch(p) \/ GoIdle(p)
  BY <1>6 DEF CheckQuiescentState, DoBatch, GoIdle
<1>7. CASE AnnounceQuiet(p)
  BY <1>7 DEF AnnounceQuiet, CpuQuiet, CallStartBatch
<1>8. CASE EnterIdle(p)
  BY <1>8 DEF EnterIdle, CpuQuiet, CallStartBatch
<1>9. CASE LeaveIdle(p)
  BY <1>9 DEF LeaveIdle
<1>10. QED
  BY <1>1, <1>2, <1>3, <1>4, <1>5, <1>6, <1>7, <1>8, <1>9 DEF Steps

LEMMA BatchStep == ASSUME IInv, NEW p \in Cpu, Steps(p) PROVE BatchInv'
<1> USE SuccType DEF IInv, TypeOK, LockInv, BatchInv, Goto, Return, glbl, lists, state, users
<1>1. CASE \E i \in Item : Use(p, i) \/ Call(p, i)
  BY <1>1 DEF Use, Call
<1>2. CASE Release(p) \/ Work(p) \/ Move(p) \/ AssignBatch(p) \/ ReadNextPending(p)
  BY <1>2 DEF Release, Work, Move, AssignBatch, ReadNextPending
<1>3. CASE RequestBatch(p)
  BY <1>3 DEF RequestBatch, CallStartBatch
<1>4. CASE StartBatch(p)
  BY <1>4 DEF StartBatch
<1>5. CASE AdvanceBatch(p)
  BY <1>5 DEF AdvanceBatch
<1>6. CASE CheckQuiescentState(p) \/ DoBatch(p) \/ GoIdle(p)
  BY <1>6 DEF CheckQuiescentState, DoBatch, GoIdle
<1>7. CASE AnnounceQuiet(p)
  BY <1>7, RcuAssumption DEF AnnounceQuiet, CpuQuiet, CallStartBatch
<1>8. CASE EnterIdle(p)
  BY <1>8, RcuAssumption DEF EnterIdle, CpuQuiet, CallStartBatch
<1>9. CASE LeaveIdle(p)
  BY <1>9 DEF LeaveIdle
<1>10. QED
  BY <1>1, <1>2, <1>3, <1>4, <1>5, <1>6, <1>7, <1>8, <1>9 DEF Steps

LEMMA ActiveStep == ASSUME IInv, NEW p \in Cpu, Steps(p) PROVE ActiveInv'
<1> USE DEF IInv, TypeOK, ActiveInv, Awake, Goto, Return, glbl, lists, state, users
<1>1. CASE \E i \in Item : Use(p, i) \/ Call(p, i)
  BY <1>1 DEF Use, Call
<1>2. CASE Release(p) \/ Work(p) \/ Move(p) \/ AssignBatch(p) \/ ReadNextPending(p)
  BY <1>2 DEF Release, Work, Move, AssignBatch, ReadNextPending
<1>3. CASE RequestBatch(p)
  BY <1>3 DEF RequestBatch, CallStartBatch
<1>4. CASE StartBatch(p)
  BY <1>4 DEF StartBatch
<1>5. CASE AdvanceBatch(p)
  BY <1>5 DEF AdvanceBatch
<1>6. CASE CheckQuiescentState(p) \/ DoBatch(p) \/ GoIdle(p)
  BY <1>6 DEF CheckQuiescentState, DoBatch, GoIdle
<1>7. CASE AnnounceQuiet(p)
  BY <1>7 DEF AnnounceQuiet, CpuQuiet, CallStartBatch
<1>8. CASE EnterIdle(p)
  BY <1>8 DEF EnterIdle, CpuQuiet, CallStartBatch
<1>9. CASE LeaveIdle(p)
  BY <1>9 DEF LeaveIdle
<1>10. QED
  BY <1>1, <1>2, <1>3, <1>4, <1>5, <1>6, <1>7, <1>8, <1>9 DEF Steps
\* No step takes an item to a second list, and the reclaimed ones are in none.
LEMMA ListStep == ASSUME IInv, NEW p \in Cpu, Steps(p) PROVE ListInv'
<1> USE DEF IInv, TypeOK, ListInv, Listed, glbl, lists, state, users
<1>1. CASE \E i \in Item : Use(p, i)
  BY <1>1 DEF Use
<1>2. CASE \E i \in Item : Call(p, i)
  <2> PICK i \in Item : Call(p, i)
    BY <1>2
  <2>1. /\ \A q \in Cpu : i \notin Listed(q)
        /\ status[i] = "linked" /\ status' = [status EXCEPT ![i] = "called"]
        /\ n' = [n EXCEPT ![p] = @ \cup {i}] /\ UNCHANGED <<c, d>>
    BY DEF Call
  <2>2. \A q \in Cpu : Listed(q)' = IF q = p THEN Listed(q) \cup {i} ELSE Listed(q)
    BY <2>1
  <2>3. \A q \in Cpu : \A j \in (Listed(q))' : status'[j] = "called"
    BY <2>1, <2>2
  <2>4. \A q, r \in Cpu : q # r => Listed(q)' \cap Listed(r)' = {}
    <3> HIDE DEF Listed, IInv, TypeOK
    <3> QED BY <2>1, <2>2 DEF IInv
  <2>5. \A q \in Cpu : d'[q] \cap (n'[q] \cup c'[q]) = {} /\ n'[q] \cap c'[q] = {}
    BY <2>1
  <2>6. QED
    <3> HIDE DEF Listed, IInv, TypeOK
    <3> QED BY <2>3, <2>4, <2>5
<1>3. CASE Move(p)
  <2>1. UNCHANGED <<n, status>>
    BY <1>3 DEF Move
  <2>2. \A q \in Cpu : (Listed(q))' = Listed(q)
    BY <1>3 DEF Move
  <2>3. \A q \in Cpu : d'[q] \cap (n'[q] \cup c'[q]) = {} /\ n'[q] \cap c'[q] = {}
    BY <1>3 DEF Move
  <2>4. /\ \A q \in Cpu : \A i \in (Listed(q))' : status'[i] = "called"
        /\ \A q, r \in Cpu : q # r => (Listed(q))' \cap (Listed(r))' = {}
    <3> HIDE DEF Listed, IInv, TypeOK
    <3> QED BY <2>1, <2>2 DEF IInv
  <2>5. QED
    <3> HIDE DEF Listed, IInv, TypeOK
    <3> QED BY <2>3, <2>4
<1>4. CASE AssignBatch(p)
  <2>1. UNCHANGED <<d, status>>
    BY <1>4 DEF AssignBatch
  <2>2. \A q \in Cpu : (Listed(q))' = Listed(q)
    BY <1>4 DEF AssignBatch
  <2>3. \A q \in Cpu : d'[q] \cap (n'[q] \cup c'[q]) = {} /\ n'[q] \cap c'[q] = {}
    BY <1>4 DEF AssignBatch
  <2>4. /\ \A q \in Cpu : \A i \in (Listed(q))' : status'[i] = "called"
        /\ \A q, r \in Cpu : q # r => (Listed(q))' \cap (Listed(r))' = {}
    <3> HIDE DEF Listed, IInv, TypeOK
    <3> QED BY <2>1, <2>2 DEF IInv
  <2>5. QED
    <3> HIDE DEF Listed, IInv, TypeOK
    <3> QED BY <2>3, <2>4
<1>5. CASE DoBatch(p)
  BY <1>5 DEF DoBatch
<1>6. CASE \/ Release(p) \/ Work(p) \/ ReadNextPending(p) \/ RequestBatch(p)
           \/ StartBatch(p) \/ AdvanceBatch(p) \/ CheckQuiescentState(p)
           \/ AnnounceQuiet(p) \/ GoIdle(p) \/ EnterIdle(p) \/ LeaveIdle(p)
  <2>1. UNCHANGED <<n, c, d, status>>
    BY <1>6 DEF Release, Work, ReadNextPending, RequestBatch, StartBatch,
         AdvanceBatch, CheckQuiescentState, AnnounceQuiet, GoIdle, EnterIdle, LeaveIdle
  <2>2. QED
    BY <2>1
<1>7. QED
  BY <1>1, <1>2, <1>3, <1>4, <1>5, <1>6 DEF Steps

\* No batch that waits for a CPU with references is completed.
LEMMA GraceStep == ASSUME IInv, NEW p \in Cpu, Steps(p) PROVE GraceInv'
<1> USE DEF IInv, TypeOK, GraceInv, glbl, lists, state, users
<1>1. CASE \E i \in Item : Use(p, i)
  <2> PICK i \in Item : Use(p, i)
    BY <1>1
  <2>1. \A q \in Cpu : i \notin c[q] /\ i \notin d[q]
    BY DEF Use, ListInv, Listed
  <2>2. QED
    BY <2>1 DEF Use, Waits
<1>2. CASE \E i \in Item : Call(p, i)
  BY <1>2 DEF Call, Waits
<1>3. CASE Release(p)
  BY <1>3 DEF Release, Waits
<1>4. CASE Move(p)
  <2>1. SUFFICES ASSUME c[p] # {}, AtLeast(completed, batch[p])
                 PROVE  \A q \in Cpu : \A i \in holding[q] : i \notin c[p]
    BY <1>4, <2>1 DEF Move, Waits
  <2>2. SUFFICES ASSUME NEW q \in Cpu, Waits(p, q)
                 PROVE  FALSE
    BY <2>2
  <2>3. CASE batch[p] = Succ(current)
    BY <2>1, <2>3, NotYet DEF BatchInv
  <2>4. CASE batch[p] = current /\ completed # current
    BY <2>1, <2>4, NotYet DEF BatchInv
  <2>5. QED
    BY <2>2, <2>3, <2>4 DEF Waits
<1>5. CASE AssignBatch(p)
  BY <1>5 DEF AssignBatch, Waits
<1>6. CASE DoBatch(p)
  BY <1>6 DEF DoBatch, Waits
<1>7. CASE AdvanceBatch(p)
  <2>1. completed = current /\ completed' = completed /\ current' = Succ(current)
    BY <1>7 DEF AdvanceBatch, BatchInv
  <2>2. \A q \in Cpu : holding[q] # {} => q \in cpus'
    BY <1>7 DEF AdvanceBatch, ActiveInv, Awake
  <2>3. completed' # current'
    BY <2>1, SuccType
  <2>4. \A q, r \in Cpu : holding[q] # {} /\ Waits(r, q) => Waits(r, q)'
    BY <1>7, <2>1, <2>2, <2>3 DEF AdvanceBatch, Waits
  <2>5. QED
    BY <1>7, <2>4 DEF AdvanceBatch
<1>8. CASE AnnounceQuiet(p) \/ EnterIdle(p)
  <2>1. holding[p] = {} /\ UNCHANGED <<current, batch, c, d, status, holding>>
    BY <1>8 DEF AnnounceQuiet, EnterIdle, ActiveInv
  <2>2. UNCHANGED <<cpus, completed>>
        \/ (cpus' = cpus \ {p} /\ (cpus' = {} \/ UNCHANGED completed))
    BY <1>8 DEF AnnounceQuiet, EnterIdle, CpuQuiet
  <2>3. \A q, r \in Cpu : holding[q] # {} /\ Waits(r, q) => Waits(r, q)'
    BY <2>1, <2>2 DEF Waits
  <2>4. QED
    BY <2>1, <2>3
<1>9. CASE \/ Work(p) \/ ReadNextPending(p) \/ RequestBatch(p)
           \/ StartBatch(p) \/ CheckQuiescentState(p) \/ GoIdle(p) \/ LeaveIdle(p)
  <2>1. UNCHANGED <<current, completed, cpus, batch, c, d, status, holding>>
    BY <1>9 DEF Work, ReadNextPending, RequestBatch, StartBatch,
         CheckQuiescentState, GoIdle, LeaveIdle
  <2>2. QED
    BY <2>1 DEF Waits
<1>10. QED
  BY <1>1, <1>2, <1>3, <1>4, <1>5, <1>6, <1>7, <1>8, <1>9 DEF Steps

LEMMA LinkStep == ASSUME IInv, NEW i \in Item, Link(i) PROVE IInv'
<1> USE DEF IInv, Link, glbl, lists, state
<1>1. TypeOK'
  BY TypeStep DEF Next
<1>2. LockInv' /\ BatchInv' /\ ActiveInv'
  BY DEF LockInv, BatchInv, ActiveInv, Awake
<1>3. ListInv'
  BY DEF ListInv, Listed, TypeOK
<1>4. GraceInv'
  BY DEF GraceInv, Waits, TypeOK
<1>5. QED
  BY <1>1, <1>2, <1>3, <1>4

LEMMA NextIInv == IInv /\ [Next]_vars => IInv'
<1> SUFFICES ASSUME IInv, [Next]_vars PROVE IInv'
  OBVIOUS
<1>1. CASE UNCHANGED vars
  BY <1>1 DEF vars, glbl, lists, state, users, IInv, TypeOK, LockInv, BatchInv,
       ActiveInv, Awake, ListInv, Listed, GraceInv, Waits
<1>2. CASE \E i \in Item : Link(i)
  BY <1>2, LinkStep
<1>3. CASE \E p \in Cpu : Steps(p)
  <2>1. TypeOK'
    BY TypeStep DEF IInv
  <2>2. QED
    BY <1>3, <2>1, LockStep, BatchStep, ActiveStep, ListStep, GraceStep DEF IInv
<1>4. QED
  BY <1>1, <1>2, <1>3, NextSteps

\* An object is reclaimed only when no CPU uses it: RCU, with its unlocked
\* accesses, implements the grace periods of the abstract specification.
THEOREM RcuImplementsGracePeriod == Spec => ImplementsGracePeriod
<1>1. Init => GP!Init
  BY DEF Init, GP!Init
<1>2. ASSUME IInv, [Next]_vars PROVE [GP!Next]_<<status, holding>>
  <2> USE DEF IInv, TypeOK
  <2>1. CASE UNCHANGED vars
    BY <2>1 DEF vars, users
  <2>2. CASE \E i \in Item : Link(i)
    BY <2>2 DEF Link, GP!Next, GP!Link
  <2>3. CASE \E p \in Cpu : Steps(p)
    <3> PICK p \in Cpu : Steps(p)
      BY <2>3
    <3>1. CASE \E i \in Item : Use(p, i)
      BY <3>1 DEF Use, GP!Next, GP!Use
    <3>2. CASE \E i \in Item : Call(p, i)
      BY <3>2 DEF Call, GP!Next, GP!Unlink
    <3>3. CASE Release(p)
      BY <3>3 DEF Release, GP!Next, GP!Release
    <3>4. CASE DoBatch(p)
      <4>1. \A i \in d[p] : status[i] = "called"
        BY <1>2 DEF ListInv, Listed
      <4>2. \A i \in d[p] : \A q \in Cpu : i \notin holding[q]
        BY <1>2 DEF GraceInv
      <4>3. /\ status' = [i \in Item |-> IF i \in d[p] THEN "reclaimed" ELSE status[i]]
            /\ UNCHANGED holding
        BY <3>4 DEF DoBatch
      <4>4. GP!Reclaim(d[p])
        BY <4>1, <4>2, <4>3 DEF GP!Reclaim
      <4>5. d[p] \in SUBSET Item
        BY <1>2
      <4>6. QED
        BY <4>4, <4>5 DEF GP!Next
    <3>5. CASE \/ Work(p) \/ Move(p) \/ AssignBatch(p) \/ ReadNextPending(p)
               \/ RequestBatch(p) \/ StartBatch(p) \/ AdvanceBatch(p)
               \/ CheckQuiescentState(p) \/ AnnounceQuiet(p)
               \/ GoIdle(p) \/ EnterIdle(p) \/ LeaveIdle(p)
      BY <3>5 DEF users, Work, Move, AssignBatch, ReadNextPending, RequestBatch,
           StartBatch, AdvanceBatch, CheckQuiescentState, AnnounceQuiet, GoIdle,
           EnterIdle, LeaveIdle
    <3>6. QED
      BY <3>1, <3>2, <3>3, <3>4, <3>5 DEF Steps
  <2>4. QED
    BY <1>2, <2>1, <2>2, <2>3, NextSteps
<1>3. QED
  BY <1>1, <1>2, InitIInv, NextIInv, PTL DEF Spec, ImplementsGracePeriod, GP!Spec, GP!vars

-----------------------------------------------------------------------------
\* A CPU that takes part, and that the batch does not wait for, has seen it; so
\* the next batch, which waits for all that take part, is new to each of them.
WaitInv == /\ cpus \subseteq activeCpus
           /\ \A p \in activeCpus : /\ pc[p] # "asleep"
                                    /\ pc[p] \in {"start", "advance"} => ret[p] # "asleep"
           /\ completed = current => cpus = {}
           /\ \A p \in activeCpus \ cpus : qBatch[p] = current

LEMMA WaitStep ==
  ASSUME IInv, WaitInv, WaitedForKnows, NEW p \in Cpu, Steps(p)
  PROVE  WaitInv' /\ WaitedForKnows'
<1> USE DEF IInv, TypeOK, WaitInv, WaitedForKnows, Goto, Return, glbl, lists, state, users
<1>1. CASE \E i \in Item : Use(p, i) \/ Call(p, i)
  BY <1>1 DEF Use, Call
<1>2. CASE Release(p) \/ Work(p) \/ Move(p) \/ AssignBatch(p) \/ ReadNextPending(p)
  BY <1>2 DEF Release, Work, Move, AssignBatch, ReadNextPending
<1>3. CASE RequestBatch(p)
  BY <1>3 DEF RequestBatch, CallStartBatch
<1>4. CASE StartBatch(p)
  BY <1>4 DEF StartBatch
<1>5. CASE AdvanceBatch(p)
  <2>1. completed = current /\ cpus = {} /\ current' = Succ(current) /\ current' # completed
    BY <1>5, SuccType DEF AdvanceBatch, BatchInv
  <2>2. QED
    BY <1>5, <2>1 DEF AdvanceBatch
<1>6. CASE CheckQuiescentState(p)
  BY <1>6 DEF CheckQuiescentState
<1>7. CASE AnnounceQuiet(p)
  <2>1. CASE qBatch[p] = current
    BY <1>7, <2>1 DEF AnnounceQuiet, CpuQuiet, CallStartBatch
  <2>2. CASE qBatch[p] # current
    BY <1>7, <2>2 DEF AnnounceQuiet
  <2>3. QED
    BY <2>1, <2>2
<1>8. CASE DoBatch(p) \/ GoIdle(p)
  BY <1>8 DEF DoBatch, GoIdle
<1>9. CASE EnterIdle(p)
  <2>1. CASE qBatch[p] # current \/ pending[p]
    BY <1>9, <2>1 DEF EnterIdle, CpuQuiet, CallStartBatch
  <2>2. CASE ~ (qBatch[p] # current \/ pending[p])
    BY <1>9, <2>2 DEF EnterIdle
  <2>3. QED
    BY <2>1, <2>2
<1>10. CASE LeaveIdle(p)
  BY <1>10 DEF LeaveIdle
<1>11. QED
  BY <1>1, <1>2, <1>3, <1>4, <1>5, <1>6, <1>7, <1>8, <1>9, <1>10 DEF Steps

\* The CPUs a grace period waits for know, or find out, that it does.
THEOREM RcuWaitedForKnows == Spec => []WaitedForKnows
<1>1. Init => WaitInv /\ WaitedForKnows
  BY DEF Init, WaitInv, WaitedForKnows
<1>2. IInv /\ WaitInv /\ WaitedForKnows /\ [Next]_vars => WaitInv' /\ WaitedForKnows'
  <2> SUFFICES ASSUME IInv, WaitInv, WaitedForKnows, [Next]_vars
               PROVE  WaitInv' /\ WaitedForKnows'
    OBVIOUS
  <2>1. CASE UNCHANGED vars
    BY <2>1 DEF vars, glbl, state, WaitInv, WaitedForKnows
  <2>2. CASE \E i \in Item : Link(i)
    BY <2>2 DEF Link, glbl, state, WaitInv, WaitedForKnows
  <2>3. QED
    BY <2>1, <2>2, NextSteps, WaitStep
<1>3. QED
  BY <1>1, <1>2, InitIInv, NextIInv, PTL DEF Spec
=============================================================================
