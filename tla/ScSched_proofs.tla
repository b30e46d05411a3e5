---------------------------- MODULE ScSched_proofs ----------------------------
(***************************************************************************)
(* Proofs about ScSched, for every number of CPUs, threads, constraints,   *)
(* slots and priorities: the specification keeps its types, no thread is   *)
(* stranded on an open constraint, and no remote request is left unseen;   *)
(* and for the operations that get on with one another, each context is in *)
(* the one list it belongs to, nobody is lost and the most urgent runs.    *)
(***************************************************************************)
EXTENDS ScSched, ReadyQueue_proofs, SequenceTheorems, FiniteSetTheorems

\* TypeOK in parts: what the ready queue operations return, the locals of the
\* kernel paths, and the rest.
ListsOK == hook \in Hook(Thread) /\ rq \in [Cpu -> Rq(Thread)]

Reg == [thr : OrNil(Thread), it : OrNil(Thread), hd : OrNil(Thread), sc : OrNil(SC),
        i : Nat, val : BOOLEAN, resched : BOOLEAN, fired : Nat,
        xret : Labels, wret : Labels]

PathsOK == pc \in [Cpu -> Labels] /\ reg \in [Cpu -> Reg]

StateOK ==
    /\ blocked \in [SC -> OrNil(Thread)]
    /\ run \in [SC -> BOOLEAN]
    /\ timer \in [SC -> BOOLEAN]
    /\ lock \in [SC -> OrNil(Cpu)]
    /\ slots \in [Thread -> [Slot -> OrNil(SC)]]
    /\ prio \in [Thread -> Prio]
    /\ ready \in [Thread -> BOOLEAN]
    /\ pending \in [Thread -> BOOLEAN]
    /\ rqq \in [Cpu -> Seq(Thread)]
    /\ ipi \in [Cpu -> BOOLEAN]
    /\ curr \in [Cpu -> Thread]
    /\ rqcur \in [Cpu -> Thread]
    /\ quantum \in [Cpu -> BOOLEAN]

LEMMA TypeParts == TypeOK <=> ListsOK /\ PathsOK /\ StateOK
BY DEF TypeOK, ListsOK, PathsOK, StateOK, Hook, Rq, Reg, OrNull, OrNil

LEMMA TypePartsNext == TypeOK' <=> ListsOK' /\ PathsOK' /\ StateOK'
BY DEF TypeOK, ListsOK, PathsOK, StateOK, Hook, Rq, Reg, OrNull, OrNil

(* Storing what an operation on the ready queue of c returns keeps types.  *)
LEMMA SetRqType ==
    ASSUME ListsOK, NEW c \in Cpu, NEW r, SetRq(c, r),
           r.hook \in Hook(Thread), r.rq \in Rq(Thread)
    PROVE  ListsOK'
BY DEF ListsOK, SetRq

LEMMA EnqueueOnType ==
    ASSUME ListsOK, StateOK, NEW c \in Cpu, NEW t \in Thread
    PROVE  EnqueueOn(c, t).hook \in Hook(Thread) /\ EnqueueOn(c, t).rq \in Rq(Thread)
BY EnqueueType DEF EnqueueOn, ReadyEnqueue, ListsOK, StateOK

LEMMA DequeueOnType ==
    ASSUME ListsOK, StateOK, NEW c \in Cpu, NEW t \in Thread
    PROVE  DequeueOn(c, t).hook \in Hook(Thread) /\ DequeueOn(c, t).rq \in Rq(Thread)
BY ReadyDequeueType DEF DequeueOn, ListsOK, StateOK

LEMMA SetEnqueueType ==
    ASSUME ListsOK, StateOK, NEW c \in Cpu, NEW t \in Thread, SetRq(c, EnqueueOn(c, t))
    PROVE  ListsOK'
BY EnqueueOnType, SetRqType

LEMMA SetDequeueType ==
    ASSUME ListsOK, StateOK, NEW c \in Cpu, NEW t \in Thread, SetRq(c, DequeueOn(c, t))
    PROVE  ListsOK'
BY DequeueOnType, SetRqType

LEMMA UpdateReadyListType ==
    ASSUME ListsOK, StateOK, NEW c \in Cpu, UpdateReadyList(c)
    PROVE  ListsOK'
<1>1. curr[c] \in Thread
  BY DEF StateOK
<1>2. CASE ready[curr[c]]
  BY <1>1, <1>2, SetEnqueueType DEF UpdateReadyList
<1>3. CASE ~ ready[curr[c]]
  BY <1>3 DEF UpdateReadyList, ListsOK, lists
<1> QED
  BY <1>2, <1>3

(* Actions that leave the lists alone.                                     *)
LEMMA ListsUnchanged ==
    ASSUME ListsOK, UNCHANGED lists
    PROVE  ListsOK'
BY DEF ListsOK, lists

(* NoReg and the jumps.                                                    *)
LEMMA NoRegType == NoReg \in Reg
BY DEF NoReg, Reg, OrNil, Labels

(* A local of a kernel path is overwritten with a value of its type.       *)
LEMMA RegUpdate ==
    ASSUME NEW r \in Reg
    PROVE  /\ \A t \in OrNil(Thread) : /\ [r EXCEPT !.thr = t] \in Reg
                                       /\ [r EXCEPT !.it = t] \in Reg
                                       /\ [r EXCEPT !.hd = t] \in Reg
           /\ \A s \in OrNil(SC) : [r EXCEPT !.sc = s] \in Reg
           /\ \A n \in Nat : /\ [r EXCEPT !.i = n] \in Reg
                             /\ [r EXCEPT !.fired = n] \in Reg
           /\ \A v \in BOOLEAN : /\ [r EXCEPT !.val = v] \in Reg
                                 /\ [r EXCEPT !.resched = v] \in Reg
           /\ \A l \in Labels : /\ [r EXCEPT !.xret = l] \in Reg
                                /\ [r EXCEPT !.wret = l] \in Reg
BY DEF Reg

LEMMA ReturnType ==
    ASSUME PathsOK, NEW c \in Cpu, NEW l \in Labels, Return(c, l)
    PROVE  PathsOK'
BY NoRegType DEF PathsOK, Return, Goto

LEMMA GotoType ==
    ASSUME PathsOK, NEW c \in Cpu, NEW l \in Labels, Goto(c, l), UNCHANGED reg
    PROVE  PathsOK'
BY DEF PathsOK, Goto

-----------------------------------------------------------------------------
(* Types: one lemma per part of the next-state relation.                    *)

LEMMA ScheduleType ==
    ASSUME ListsOK, PathsOK, StateOK, LocalsOK, NEW c \in Cpu, Schedule(c)
    PROVE  ListsOK' /\ PathsOK' /\ StateOK'
<1> USE DEF threads, remote, runs
<1>0. reg[c] \in Reg /\ pc[c] \in Labels /\ rq[c] \in Rq(Thread)
  BY DEF PathsOK, ListsOK
<1>1. CASE SchedEnter(c)
  <2>1. ListsOK'
    BY <1>1, UpdateReadyListType DEF SchedEnter
  <2>2. PathsOK'
    BY <1>1, ReturnType DEF SchedEnter, Labels
  <2>3. StateOK'
    BY <1>1 DEF SchedEnter, StateOK
  <2> QED
    BY <2>1, <2>2, <2>3
<1>2. CASE SchedPick(c)
  <2>1. NextToRun(rq[c]) \in OrNil(Thread)
    BY <1>0 DEF NextToRun, Rq, OrNull, OrNil
  <2>2. [NoReg EXCEPT !.thr = NextToRun(rq[c])] \in Reg
    BY <2>1, NoRegType DEF Reg
  <2>3. PathsOK'
    BY <1>2, <2>2 DEF SchedPick, PathsOK, Goto, Labels
  <2>4. ListsOK' /\ StateOK'
    BY <1>2, ListsUnchanged DEF SchedPick, StateOK
  <2> QED
    BY <2>3, <2>4
<1>3. CASE SchedCheck(c)
  <2>1. reg[c].thr \in Thread /\ reg[c].i \in Slot
    BY <1>3 DEF SchedCheck, LocalsOK, LocalOK, HasThread
  <2>2. slots[reg[c].thr][reg[c].i] \in OrNil(SC)
    BY <2>1 DEF StateOK
  <2>3. /\ [reg[c] EXCEPT !.i = @ + 1] \in Reg
        /\ [reg[c] EXCEPT !.sc = slots[reg[c].thr][reg[c].i]] \in Reg
    BY <1>0, <2>2 DEF Reg
  <2>4. PathsOK'
    BY <1>3, <2>3 DEF SchedCheck, PathsOK, Goto, Labels
  <2>5. ListsOK' /\ StateOK'
    BY <1>3, ListsUnchanged DEF SchedCheck, StateOK
  <2> QED
    BY <2>4, <2>5
<1>4. CASE SchedLock(c)
  <2>1. PathsOK'
    BY <1>4, GotoType DEF SchedLock, Labels
  <2>2. ListsOK' /\ StateOK'
    BY <1>4, ListsUnchanged DEF SchedLock, StateOK, OrNil
  <2> QED
    BY <2>1, <2>2
<1>5. CASE SchedRecheck(c)
  <2>1. [reg[c] EXCEPT !.i = @ + 1, !.sc = Nil] \in Reg
    <3>1. [reg[c] EXCEPT !.i = @ + 1] \in Reg
      BY <1>0 DEF Reg
    <3>2. [[reg[c] EXCEPT !.i = @ + 1] EXCEPT !.sc = Nil] \in Reg
      BY <3>1, RegUpdate DEF OrNil
    <3> QED
      BY <3>2
  <2>2. PathsOK'
    BY <1>5, <2>1 DEF SchedRecheck, PathsOK, Goto, Labels
  <2>3. ListsOK' /\ StateOK'
    BY <1>5, ListsUnchanged DEF SchedRecheck, StateOK, OrNil
  <2> QED
    BY <2>2, <2>3
<1>6. CASE SchedBlock(c)
  <2>1. reg[c].thr \in Thread /\ reg[c].sc \in SC
    BY <1>6 DEF SchedBlock, LocalsOK, LocalOK, HasThread, HasSC
  <2> DEFINE out == DequeueOn(c, reg[c].thr)
             in  == Push(out.hook, blocked[reg[c].sc], reg[c].thr, "Back")
  <2>2. out.hook \in Hook(Thread) /\ out.rq \in Rq(Thread)
    BY <2>1, DequeueOnType
  <2>3. blocked[reg[c].sc] \in OrNull(Thread)
    BY <2>1 DEF StateOK, OrNil, OrNull
  <2>4. in.hook \in Hook(Thread) /\ in.head \in Thread
    BY <2>1, <2>2, <2>3, PushType
  <2>5. rq' = [rq EXCEPT ![c] = out.rq] /\ hook' = in.hook
        /\ blocked' = [blocked EXCEPT ![reg[c].sc] = in.head]
        /\ lock' = [lock EXCEPT ![reg[c].sc] = Nil]
    BY <1>6 DEF SchedBlock
  <2>6. ListsOK'
    BY <2>2, <2>4, <2>5 DEF ListsOK
  <2>7. blocked' \in [SC -> OrNil(Thread)] /\ lock' \in [SC -> OrNil(Cpu)]
    BY <2>4, <2>5 DEF StateOK, OrNil
  <2>8. StateOK'
    BY <1>6, <2>7 DEF SchedBlock, StateOK
  <2>9. PathsOK'
    BY <1>6, ReturnType DEF SchedBlock, Labels
  <2> QED
    BY <2>6, <2>8, <2>9
<1>7. CASE SchedAccept(c)
  <2>1. reg[c].thr \in Thread
    BY <1>7 DEF SchedAccept, LocalsOK, LocalOK, HasThread
  <2>2. CASE ready[reg[c].thr]
    <3>1. ListsOK'
      BY <1>7, <2>2, UpdateReadyListType, ListsUnchanged DEF SchedAccept
    <3>2. PathsOK'
      BY <1>7, <2>2, ReturnType DEF SchedAccept, Labels
    <3>3. StateOK'
      BY <1>7, <2>1, <2>2 DEF SchedAccept, ScheduleSwitchTo, StateOK
    <3> QED
      BY <3>1, <3>2, <3>3
  <2>3. CASE ~ ready[reg[c].thr]
    <3>1. ListsOK'
      BY <1>7, <2>1, <2>3, SetDequeueType DEF SchedAccept
    <3>2. PathsOK'
      BY <1>7, <2>3, ReturnType DEF SchedAccept, Labels
    <3>3. StateOK'
      BY <1>7, <2>3 DEF SchedAccept, StateOK
    <3> QED
      BY <3>1, <3>2, <3>3
  <2> QED
    BY <2>2, <2>3
<1> QED
  BY <1>1, <1>2, <1>3, <1>4, <1>5, <1>6, <1>7 DEF Schedule

LEMMA RemoteType ==
    ASSUME ListsOK, PathsOK, StateOK, LocalsOK, NEW c \in Cpu,
           \/ PendingRqqEnqueue(c) \/ SendIpi(c)
           \/ IpiArrives(c) \/ HandleRequests(c)
    PROVE  ListsOK' /\ PathsOK' /\ StateOK'
<1> USE DEF threads, remote, runs
<1>0. reg[c] \in Reg /\ pc[c] \in Labels
  BY DEF PathsOK
<1>1. CASE PendingRqqEnqueue(c)
  <2>1. reg[c].thr \in Thread /\ Home[reg[c].thr] \in Cpu
    BY <1>1, ConstantAssumption DEF PendingRqqEnqueue, LocalsOK, LocalOK, HasThread
  <2>2. Append(rqq[Home[reg[c].thr]], reg[c].thr) \in Seq(Thread)
    BY <2>1, AppendProperties DEF StateOK
  <2>3. StateOK'
    BY <1>1, <2>1, <2>2 DEF PendingRqqEnqueue, StateOK
  <2>4. reg[c].xret \in Labels
    BY <1>0 DEF Reg
  <2>5. PathsOK'
    BY <1>1, <2>4, GotoType DEF PendingRqqEnqueue, Labels
  <2>6. ListsOK'
    BY <1>1, ListsUnchanged DEF PendingRqqEnqueue
  <2> QED
    BY <2>3, <2>5, <2>6
<1>2. CASE SendIpi(c)
  <2>1. reg[c].xret \in Labels
    BY <1>0 DEF Reg
  <2>2. PathsOK'
    BY <1>2, <2>1, GotoType DEF SendIpi
  <2>3. ListsOK' /\ StateOK'
    BY <1>2, ListsUnchanged DEF SendIpi, StateOK
  <2> QED
    BY <2>2, <2>3
<1>3. CASE IpiArrives(c)
  <2>1. PathsOK'
    BY <1>3, ReturnType DEF IpiArrives, Labels
  <2>2. ListsOK' /\ StateOK'
    BY <1>3, ListsUnchanged DEF IpiArrives, StateOK
  <2> QED
    BY <2>1, <2>2
<1>4. CASE RqqTake(c)
  <2>1. CASE rqq[c] = <<>>
    <3>1. PathsOK'
      BY <1>4, <2>1, ReturnType DEF RqqTake, Labels
    <3>2. ListsOK' /\ StateOK'
      BY <1>4, <2>1, ListsUnchanged DEF RqqTake, StateOK
    <3> QED
      BY <3>1, <3>2
  <2>2. CASE rqq[c] # <<>>
    <3>1. Head(rqq[c]) \in Thread /\ Tail(rqq[c]) \in Seq(Thread)
      BY <2>2, HeadTailProperties DEF StateOK
    <3>2. [reg[c] EXCEPT !.thr = Head(rqq[c])] \in Reg
      BY <1>0, <3>1 DEF Reg, OrNil
    <3>3. PathsOK'
      BY <1>4, <2>2, <3>2 DEF RqqTake, PathsOK, Goto, Labels
    <3>4. ListsOK' /\ StateOK'
      BY <1>4, <2>2, <3>1, ListsUnchanged DEF RqqTake, StateOK
    <3> QED
      BY <3>3, <3>4
  <2> QED
    BY <2>1, <2>2
<1>5. CASE RqqApply(c)
  <2>1. reg[c].thr \in Thread
    BY <1>5 DEF RqqApply, LocalsOK, LocalOK, HasThread
  <2>2. ListsOK'
    BY <1>5, <2>1, SetEnqueueType, ListsUnchanged DEF RqqApply
  <2>3. StateOK'
    BY <1>5, <2>1 DEF RqqApply, StateOK
  <2> DEFINE again == reg[c].resched \/ (/\ reg[c].thr # curr[c]
                                         /\ ready[reg[c].thr] \/ pending[reg[c].thr]
                                         /\ Preempts(prio, reg[c].thr, curr[c], rqcur[c]))
  <2>4. again \in BOOLEAN
    OBVIOUS
  <2>5. [reg[c] EXCEPT !.thr = Nil, !.resched = again] \in Reg
    BY <1>0, <2>4 DEF Reg, OrNil
  <2>6. reg' = [reg EXCEPT ![c] = [reg[c] EXCEPT !.thr = Nil, !.resched = again]]
    BY <1>0, <1>5 DEF RqqApply, Reg
  <2>7. PathsOK'
    BY <1>5, <2>5, <2>6 DEF RqqApply, PathsOK, Goto, Labels
  <2> QED
    BY <2>2, <2>3, <2>7
<1> QED
  BY <1>1, <1>2, <1>3, <1>4, <1>5 DEF HandleRequests

LEMMA WakeUpType ==
    ASSUME ListsOK, PathsOK, StateOK, LocalsOK, NEW c \in Cpu, WakeUpAllBlocked(c)
    PROVE  ListsOK' /\ PathsOK' /\ StateOK'
<1> USE DEF threads, remote, runs
<1>0. reg[c] \in Reg /\ pc[c] \in Labels /\ reg[c].it \in OrNil(Thread)
  BY DEF PathsOK, Reg
<1>1. CASE WakeLock(c)
  <2>1. reg[c].sc \in SC
    BY <1>1 DEF WakeLock, LocalsOK, LocalOK, HasSC
  <2>2. blocked[reg[c].sc] \in OrNil(Thread)
    BY <2>1 DEF StateOK
  <2>3. [reg[c] EXCEPT !.it = blocked[reg[c].sc]] \in Reg
    BY <1>0, <2>2, RegUpdate
  <2>4. PathsOK'
    BY <1>1, <2>3 DEF WakeLock, PathsOK, Goto, Labels
  <2>5. ListsOK' /\ StateOK'
    BY <1>1, ListsUnchanged DEF WakeLock, StateOK, OrNil
  <2> QED
    BY <2>4, <2>5
<1>2. CASE WakeNotify(c)
  <2> DEFINE t == reg[c].it
             n == After(reg[c].sc, t)
  <2>1. CASE t = Nil
    <3>1. PathsOK'
      BY <1>2, <2>1, GotoType DEF WakeNotify, Labels
    <3>2. ListsOK' /\ StateOK'
      BY <1>2, <2>1, ListsUnchanged DEF WakeNotify, StateOK
    <3> QED
      BY <3>1, <3>2
  <2>2. CASE t # Nil
    <3>1. t \in Thread
      BY <1>0, <2>2 DEF OrNil
    <3>2. n \in OrNil(Thread)
      BY <3>1 DEF After, ListsOK, Hook, OrNull, OrNil
    <3>3. [reg[c] EXCEPT !.it = n] \in Reg
      BY <1>0, <3>2, RegUpdate
    <3>4. CASE Home[t] = c
      <4>1. ListsOK'
        BY <1>2, <2>2, <3>1, <3>4, SetEnqueueType DEF WakeNotify
      <4>2. PathsOK'
        BY <1>2, <2>2, <3>3, <3>4 DEF WakeNotify, PathsOK
      <4>3. StateOK'
        BY <1>2, <2>2, <3>4 DEF WakeNotify, StateOK
      <4> QED
        BY <4>1, <4>2, <4>3
    <3>5. CASE Home[t] # c
      <4>1. [[reg[c] EXCEPT !.it = n] EXCEPT !.thr = t] \in Reg
        BY <1>0, <3>3, RegUpdate
      <4>2. [[[reg[c] EXCEPT !.it = n] EXCEPT !.thr = t] EXCEPT !.xret = "notify"] \in Reg
        BY <4>1, RegUpdate DEF Labels
      <4>3. PathsOK'
        BY <1>2, <2>2, <3>5, <4>2 DEF WakeNotify, RemoteStateChange, PathsOK, Goto, Labels
      <4>4. ListsOK' /\ StateOK'
        BY <1>2, <2>2, <3>5, ListsUnchanged DEF WakeNotify, RemoteStateChange, StateOK
      <4> QED
        BY <4>3, <4>4
    <3> QED
      BY <3>4, <3>5
  <2> QED
    BY <2>1, <2>2
<1>3. CASE DrainBegin(c)
  <2> DEFINE h == blocked[reg[c].sc]
  <2>1. h \in OrNil(Thread)
    BY <1>3 DEF DrainBegin, LocalsOK, LocalOK, HasSC, StateOK
  <2>2. [[reg[c] EXCEPT !.it = h] EXCEPT !.hd = h] \in Reg
    BY <1>0, <2>1, RegUpdate
  <2>3. PathsOK'
    BY <1>3, <2>2 DEF DrainBegin, PathsOK
  <2>4. ListsOK' /\ StateOK'
    BY <1>3, ListsUnchanged DEF DrainBegin, StateOK
  <2> QED
    BY <2>3, <2>4
<1>4. CASE DrainErase(c)
  <2> DEFINE s == reg[c].sc
             t == reg[c].it
             r == RemoveItem(hook, blocked[s], t)
             n == IF hook.next[t] = reg[c].hd THEN Nil ELSE hook.next[t]
  <2>1. s \in SC /\ t \in Thread
    BY <1>0, <1>4 DEF DrainErase, LocalsOK, LocalOK, HasSC, OrNil
  <2>2. blocked[s] \in OrNull(Thread)
    BY <2>1 DEF StateOK, OrNil, OrNull
  <2>3. r.hook \in Hook(Thread) /\ r.head \in OrNull(Thread)
    BY <2>1, <2>2, RemoveItemType DEF ListsOK
  <2>4. hook' = r.hook /\ blocked' = [blocked EXCEPT ![s] = r.head] /\ rq' = rq
    BY <1>4 DEF DrainErase
  <2>5. n \in OrNil(Thread)
    BY <2>1 DEF ListsOK, Hook, OrNull, OrNil
  <2>6. [reg[c] EXCEPT !.it = n] \in Reg
    BY <1>0, <2>5, RegUpdate
  <2>7. \/ reg' = [reg EXCEPT ![c] = [reg[c] EXCEPT !.it = n]] /\ pc' = pc
        \/ reg' = reg /\ pc' = [pc EXCEPT ![c] = "fault"]
    BY <1>4 DEF DrainErase, Goto
  <2>8. PathsOK'
    BY <2>6, <2>7 DEF PathsOK, Labels
  <2> HIDE DEF r
  <2>9. ListsOK'
    BY <2>3, <2>4 DEF ListsOK
  <2>10. blocked' \in [SC -> OrNil(Thread)]
    BY <2>3, <2>4 DEF StateOK, OrNil, OrNull
  <2>11. StateOK'
    BY <1>4, <2>10 DEF DrainErase, StateOK
  <2> QED
    BY <2>8, <2>9, <2>11
<1>5. CASE DrainEnd(c)
  <2>1. reg[c].wret \in Labels /\ reg[c].resched \in BOOLEAN /\ reg[c].fired \in Nat
    BY <1>0 DEF Reg
  <2>2. [[NoReg EXCEPT !.resched = reg[c].resched] EXCEPT !.fired = reg[c].fired] \in Reg
    BY <2>1, NoRegType, RegUpdate
  <2>3. PathsOK'
    BY <1>5, <2>1, <2>2 DEF DrainEnd, PathsOK, Goto
  <2>4. ListsOK' /\ StateOK'
    BY <1>5, ListsUnchanged DEF DrainEnd, StateOK, OrNil
  <2> QED
    BY <2>3, <2>4
<1> QED
  BY <1>1, <1>2, <1>3, <1>4, <1>5 DEF WakeUpAllBlocked, WakeDrain

LEMMA FlipType ==
    ASSUME ListsOK, PathsOK, StateOK, LocalsOK, NEW c \in Cpu, Flip(c)
    PROVE  ListsOK' /\ PathsOK' /\ StateOK'
<1> USE DEF threads, remote, runs
<1>0. reg[c] \in Reg
  BY DEF PathsOK
<1>1. ASSUME NEW s \in SC, FlipRead(c, s)
      PROVE  ListsOK' /\ PathsOK' /\ StateOK'
  <2>1. [reg[c] EXCEPT !.sc = s] \in Reg
    BY <1>0, RegUpdate DEF OrNil
  <2>2. (~ run[s]) \in BOOLEAN
    OBVIOUS
  <2>3. [[reg[c] EXCEPT !.sc = s] EXCEPT !.val = ~ run[s]] \in Reg
    BY <2>1, <2>2, RegUpdate
  <2>4. PathsOK'
    BY <1>1, <2>3 DEF FlipRead, PathsOK, Goto, Labels
  <2>5. ListsOK' /\ StateOK'
    BY <1>1, ListsUnchanged DEF FlipRead, StateOK
  <2> QED
    BY <2>4, <2>5
<1>2. CASE FlipWrite(c)
  <2>1. reg[c].val \in BOOLEAN
    BY <1>0 DEF Reg
  <2>2. PathsOK'
    BY <1>2, GotoType DEF FlipWrite, Labels
  <2>3. ListsOK' /\ StateOK'
    BY <1>2, <2>1, ListsUnchanged DEF FlipWrite, StateOK
  <2> QED
    BY <2>2, <2>3
<1>3. CASE FlipTest(c)
  <2>1. PathsOK'
    BY <1>3, GotoType, ReturnType DEF FlipTest, Labels
  <2>2. ListsOK' /\ StateOK'
    BY <1>3, ListsUnchanged DEF FlipTest, StateOK
  <2> QED
    BY <2>1, <2>2
<1> QED
  BY <1>1, <1>2, <1>3 DEF Flip

LEMMA FiredType ==
    ASSUME PathsOK, NEW c \in Cpu, NEW resched \in BOOLEAN
    PROVE  Fired(c, resched) \in [Cpu -> Reg]
<1>1. reg[c].fired + 1 \in Nat /\ (reg[c].resched \/ resched) \in BOOLEAN
  BY DEF PathsOK, Reg
<1>2. [[NoReg EXCEPT !.fired = reg[c].fired + 1]
         EXCEPT !.resched = reg[c].resched \/ resched] \in Reg
  BY <1>1, NoRegType, RegUpdate
<1> QED
  BY <1>2 DEF Fired, PathsOK

\* The expiry of a timeout that wakes the blocked list of s.
LEMMA FiredWakeType ==
    ASSUME PathsOK, NEW c \in Cpu, NEW s \in SC
    PROVE  [Fired(c, TRUE) EXCEPT ![c].sc = s, ![c].wret = "tick"] \in [Cpu -> Reg]
<1> DEFINE f == Fired(c, TRUE)
<1>1. f \in [Cpu -> Reg]
  BY FiredType
<1>2. [[f[c] EXCEPT !.sc = s] EXCEPT !.wret = "tick"] \in Reg
  <2>1. [f[c] EXCEPT !.sc = s] \in Reg
    BY <1>1, RegUpdate DEF OrNil
  <2> QED
    BY <2>1, RegUpdate DEF Labels
<1> QED
  BY <1>1, <1>2

LEMMA TimerType ==
    ASSUME ListsOK, PathsOK, StateOK, NEW c \in Cpu, Timer(c) \/ TickEnd(c)
    PROVE  ListsOK' /\ PathsOK' /\ StateOK'
<1> USE DEF threads, remote, runs
<1>0. Fired(c, TRUE) \in [Cpu -> Reg]
  BY FiredType
<1>1. CASE QuantExpired(c)
  <2>1. rqcur[c] \in Thread /\ prio[rqcur[c]] \in Prio
    BY DEF StateOK
  <2>2. ListsOK'
    BY <1>1, <2>1, RequeueType, SetRqType DEF QuantExpired, ListsOK
  <2>3. PathsOK' /\ StateOK'
    BY <1>0, <1>1 DEF QuantExpired, PathsOK, StateOK, Goto, Labels
  <2> QED
    BY <2>2, <2>3
<1>2. ASSUME NEW s \in SC, OobExpired(c, s)
      PROVE  ListsOK' /\ PathsOK' /\ StateOK'
  BY <1>0, <1>2, ListsUnchanged DEF OobExpired, PathsOK, StateOK, Goto, Labels
<1>3. ASSUME NEW s \in SC, ReplExpired(c, s)
      PROVE  ListsOK' /\ PathsOK' /\ StateOK'
  BY <1>3, FiredWakeType, ListsUnchanged DEF ReplExpired, PathsOK, StateOK, Goto, Labels
<1>4. ASSUME NEW s \in SC, WindowExpired(c, s)
      PROVE  ListsOK' /\ PathsOK' /\ StateOK'
  <2>1. PathsOK'
    <3>1. CASE run[s]
      BY <1>0, <1>4, <3>1 DEF WindowExpired, PathsOK, Goto, Labels
    <3>2. CASE ~ run[s]
      <4>1. /\ reg' = [Fired(c, TRUE) EXCEPT ![c].sc = s, ![c].wret = "tick"]
            /\ pc' = [pc EXCEPT ![c] = "wakeLock"]
        BY <1>4, <3>2 DEF WindowExpired, Goto
      <4> QED
        BY <4>1, FiredWakeType DEF PathsOK, Labels
    <3> QED
      BY <3>1, <3>2
  <2>2. ListsOK' /\ StateOK'
    BY <1>4, ListsUnchanged DEF WindowExpired, StateOK
  <2> QED
    BY <2>1, <2>2
<1>5. ASSUME NEW t \in Thread, IpcTimeout(c, t)
      PROVE  ListsOK' /\ PathsOK' /\ StateOK'
  <2>1. ListsOK'
    BY <1>5, SetEnqueueType DEF IpcTimeout
  <2>2. Preempts(prio, t, curr[c], rqcur[c]) \in BOOLEAN
    BY DEF Preempts
  <2>3. PathsOK' /\ StateOK'
    BY <1>5, <2>2, FiredType DEF IpcTimeout, PathsOK, StateOK, Goto, Labels
  <2> QED
    BY <2>1, <2>3
<1>6. CASE TickEnd(c)
  <2>1. PathsOK'
    BY <1>6, ReturnType DEF TickEnd, Labels
  <2>2. ListsOK' /\ StateOK'
    BY <1>6, ListsUnchanged DEF TickEnd, StateOK
  <2> QED
    BY <2>1, <2>2
<1> QED
  BY <1>1, <1>2, <1>3, <1>4, <1>5, <1>6 DEF Timer

LEMMA SlotsType ==
    ASSUME ListsOK, PathsOK, StateOK, LocalsOK, NEW c \in Cpu,
           \/ \E t \in Thread, s \in SC : Attach(c, t, s)
           \/ Detach(c)
    PROVE  ListsOK' /\ PathsOK' /\ StateOK'
<1> USE DEF threads, remote, runs
<1>0. reg[c] \in Reg
  BY DEF PathsOK
<1>1. ASSUME NEW t \in Thread, NEW s \in SC, Attach(c, t, s)
      PROVE  ListsOK' /\ PathsOK' /\ StateOK'
  <2>1. slots' \in [Thread -> [Slot -> OrNil(SC)]]
    <3>1. PICK i \in Slot : slots' = [slots EXCEPT ![t][i] = s]
      BY <1>1 DEF Attach
    <3>2. [slots[t] EXCEPT ![i] = s] \in [Slot -> OrNil(SC)]
      BY DEF StateOK, OrNil
    <3> QED
      BY <3>1, <3>2 DEF StateOK
  <2>2. ListsOK' /\ PathsOK' /\ StateOK'
    BY <1>1, <2>1, ListsUnchanged DEF Attach, StateOK, PathsOK
  <2> QED
    BY <2>2
<1>2. ASSUME NEW t \in User, NEW s \in SC, DetachSlot(c, t, s)
      PROVE  ListsOK' /\ PathsOK' /\ StateOK'
  <2>1. slots' \in [Thread -> [Slot -> OrNil(SC)]]
    <3>1. PICK i \in Slot : slots' = [slots EXCEPT ![t][i] = Nil]
      BY <1>2 DEF DetachSlot
    <3>2. [slots[t] EXCEPT ![i] = Nil] \in [Slot -> OrNil(SC)]
      BY DEF StateOK, OrNil, User
    <3> QED
      BY <3>1, <3>2 DEF StateOK
  <2>2. [reg[c] EXCEPT !.thr = t] \in Reg
    BY <1>0, RegUpdate DEF OrNil, User
  <2>3. [[reg[c] EXCEPT !.thr = t] EXCEPT !.sc = s] \in Reg
    BY <2>2, RegUpdate DEF OrNil
  <2>4. PathsOK'
    BY <1>2, <2>3 DEF DetachSlot, PathsOK, Goto, Labels
  <2>5. ListsOK' /\ StateOK'
    BY <1>2, <2>1, ListsUnchanged DEF DetachSlot, StateOK
  <2> QED
    BY <2>4, <2>5
<1>3. CASE DetachLock(c)
  <2>1. PathsOK'
    BY <1>3, GotoType DEF DetachLock, Labels
  <2>2. ListsOK' /\ StateOK'
    BY <1>3, ListsUnchanged DEF DetachLock, StateOK, OrNil
  <2> QED
    BY <2>1, <2>2
<1>4. CASE DetachWork(c)
  <2>1. reg[c].thr \in Thread /\ reg[c].sc \in SC
    BY <1>4 DEF DetachWork, LocalsOK, LocalOK, HasThread, HasSC
  <2> DEFINE s == reg[c].sc
             t == reg[c].thr
             r == RemoveItem(hook, blocked[s], t)
             q == ReadyEnqueue(r.hook, rq[c], t, prio[t])
  <2>2. r.hook \in Hook(Thread) /\ r.head \in OrNil(Thread)
    BY <2>1, RemoveItemType DEF ListsOK, StateOK, OrNil, OrNull
  <2>3. q.hook \in Hook(Thread) /\ q.rq \in Rq(Thread)
    BY <2>1, <2>2, EnqueueType DEF ReadyEnqueue, ListsOK, StateOK
  <2>4. CASE t \notin Members(hook, blocked[s])
    <3>1. PathsOK'
      BY <1>4, <2>4, GotoType DEF DetachWork, Labels
    <3>2. ListsOK' /\ StateOK'
      BY <1>4, <2>4, ListsUnchanged DEF DetachWork, StateOK
    <3> QED
      BY <3>1, <3>2
  <2>5. CASE t \in Members(hook, blocked[s])
    <3>1. blocked' \in [SC -> OrNil(Thread)]
      BY <1>4, <2>2, <2>5 DEF DetachWork, StateOK
    <3>2. CASE Home[t] = c
      <4>1. SetRq(c, q)
        BY <1>4, <2>5, <3>2 DEF DetachWork
      <4>2. ListsOK'
        BY <2>3, <4>1, SetRqType
      <4>3. PathsOK'
        BY <1>4, <2>5, <3>2, GotoType DEF DetachWork, Labels
      <4>4. StateOK'
        BY <1>4, <2>5, <3>1, <3>2 DEF DetachWork, StateOK
      <4> QED
        BY <4>2, <4>3, <4>4
    <3>3. CASE Home[t] # c
      <4>1. [reg[c] EXCEPT !.xret = "detachUnlock"] \in Reg
        BY <1>0, RegUpdate DEF Labels
      <4>2. PathsOK'
        BY <1>4, <2>5, <3>3, <4>1 DEF DetachWork, RemoteStateChange, PathsOK, Goto, Labels
      <4>3. ListsOK'
        BY <1>4, <2>2, <2>5, <3>3 DEF DetachWork, ListsOK
      <4>4. StateOK'
        BY <1>4, <2>5, <3>1, <3>3 DEF DetachWork, RemoteStateChange, StateOK
      <4> QED
        BY <4>2, <4>3, <4>4
    <3> QED
      BY <3>2, <3>3
  <2> QED
    BY <2>4, <2>5
<1>5. CASE DetachUnlock(c)
  <2>1. PathsOK'
    BY <1>5, ReturnType DEF DetachUnlock, Labels
  <2>2. ListsOK' /\ StateOK'
    BY <1>5, ListsUnchanged DEF DetachUnlock, StateOK, OrNil
  <2> QED
    BY <2>1, <2>2
<1> QED
  BY <1>1, <1>2, <1>3, <1>4, <1>5 DEF Detach

LEMMA IpcType ==
    ASSUME ListsOK, PathsOK, StateOK, LocalsOK, NEW c \in Cpu, Ipc(c) \/ SetPrio(c)
    PROVE  ListsOK' /\ PathsOK' /\ StateOK'
<1> USE DEF threads, remote, runs
<1>0. reg[c] \in Reg
  BY DEF PathsOK
<1>1. CASE Sleep(c)
  <2>1. PathsOK'
    BY <1>1, GotoType DEF Sleep, Labels
  <2>2. ListsOK' /\ StateOK'
    BY <1>1, ListsUnchanged DEF Sleep, StateOK
  <2> QED
    BY <2>1, <2>2
<1>2. ASSUME NEW t \in Thread, WakeRemote(c, t)
      PROVE  ListsOK' /\ PathsOK' /\ StateOK'
  <2>1. [reg[c] EXCEPT !.thr = t] \in Reg
    BY <1>0, RegUpdate DEF OrNil
  <2>2. PathsOK'
    BY <1>2, <2>1 DEF WakeRemote, RemoteStateChange, PathsOK, Goto, Labels
  <2>3. ListsOK' /\ StateOK'
    BY <1>2, ListsUnchanged DEF WakeRemote, RemoteStateChange, StateOK
  <2> QED
    BY <2>2, <2>3
<1>3. ASSUME NEW t \in Thread, WakeSwitch(c, t)
      PROVE  ListsOK' /\ PathsOK' /\ StateOK'
  <2>1. ListsOK'
    BY <1>3, UpdateReadyListType DEF WakeSwitch
  <2>2. PathsOK' /\ StateOK'
    BY <1>3 DEF WakeSwitch, PathsOK, StateOK
  <2> QED
    BY <2>1, <2>2
<1>4. ASSUME NEW t \in Thread, WakeLazy(c, t)
      PROVE  ListsOK' /\ PathsOK' /\ StateOK'
  <2>1. ListsOK'
    BY <1>4, UpdateReadyListType, SetEnqueueType DEF WakeLazy
  <2>2. PathsOK' /\ StateOK'
    BY <1>4 DEF WakeLazy, ScheduleSwitchTo, PathsOK, StateOK
  <2> QED
    BY <2>1, <2>2
<1>5. ASSUME NEW t \in User, NEW p \in Prio, SetPrioOut(c, t, p)
      PROVE  ListsOK' /\ PathsOK' /\ StateOK'
  <2>1. t \in Thread /\ Home[t] \in Cpu
    BY ConstantAssumption DEF User
  <2>2. ListsOK'
    BY <1>5, <2>1, SetDequeueType, ListsUnchanged DEF SetPrioOut
  <2>3. [reg[c] EXCEPT !.thr = t] \in Reg
    BY <1>0, <2>1, RegUpdate DEF OrNil
  <2>4. PathsOK' /\ StateOK'
    BY <1>5, <2>1, <2>3 DEF SetPrioOut, PathsOK, StateOK, Goto, Labels
  <2> QED
    BY <2>2, <2>4
<1>6. CASE SetPrioIn(c)
  <2>1. reg[c].thr \in Thread /\ Home[reg[c].thr] \in Cpu
    BY <1>6, ConstantAssumption DEF SetPrioIn, LocalsOK, LocalOK, HasThread
  <2>2. ListsOK'
    BY <1>6, <2>1, SetEnqueueType DEF SetPrioIn
  <2>3. PathsOK'
    BY <1>6, ReturnType DEF SetPrioIn, Labels
  <2>4. StateOK'
    BY <1>6 DEF SetPrioIn, StateOK
  <2> QED
    BY <2>2, <2>3, <2>4
<1> QED
  BY <1>1, <1>2, <1>3, <1>4, <1>5, <1>6 DEF Ipc, SetPrio

(* Every step keeps the types, given the locals it relies on.              *)
LEMMA TypeStep ==
    ASSUME TypeOK, LocalsOK, [Next]_vars
    PROVE  TypeOK'
<1>0. ListsOK /\ PathsOK /\ StateOK
  BY TypeParts
<1>1. CASE UNCHANGED vars
  BY <1>1 DEF vars, TypeOK
<1>2. CASE Next
  <2>1. PICK c \in Cpu :
           \/ Schedule(c)
           \/ PendingRqqEnqueue(c) \/ SendIpi(c)
           \/ WakeUpAllBlocked(c)
           \/ Flip(c)
           \/ Timer(c) \/ TickEnd(c)
           \/ \E t \in Thread, s \in SC : Attach(c, t, s)
           \/ Detach(c)
           \/ Ipc(c)
           \/ SetPrio(c)
           \/ IpiArrives(c) \/ HandleRequests(c)
    BY <1>2 DEF Next
  <2>2. ListsOK' /\ PathsOK' /\ StateOK'
    BY <1>0, <2>1, ScheduleType, RemoteType, WakeUpType, FlipType, TimerType,
       SlotsType, IpcType
  <2> QED
    BY <2>2, TypePartsNext
<1> QED
  BY <1>1, <1>2

-----------------------------------------------------------------------------
(* The next-state relation of one CPU, and its actions one by one.          *)

Step(c) ==
    \/ Schedule(c)
    \/ PendingRqqEnqueue(c) \/ SendIpi(c)
    \/ WakeUpAllBlocked(c)
    \/ Flip(c)
    \/ Timer(c) \/ TickEnd(c)
    \/ \E t \in Thread, s \in SC : Attach(c, t, s)
    \/ Detach(c)
    \/ Ipc(c)
    \/ SetPrio(c)
    \/ IpiArrives(c) \/ HandleRequests(c)

\* A step of c does not touch the paths of the others.
LEMMA OthersKeepPath ==
    ASSUME PathsOK, NEW c \in Cpu, Step(c), NEW d \in Cpu, d # c
    PROVE  pc'[d] = pc[d] /\ reg'[d] = reg[d]
<1> USE DEF PathsOK, Goto, Return
<1>1. CASE SchedEnter(c)
  BY <1>1 DEF SchedEnter
<1>2. CASE SchedPick(c)
  BY <1>2 DEF SchedPick
<1>3. CASE SchedCheck(c)
  BY <1>3 DEF SchedCheck
<1>4. CASE SchedLock(c)
  BY <1>4 DEF SchedLock
<1>5. CASE SchedRecheck(c)
  BY <1>5 DEF SchedRecheck
<1>6. CASE SchedBlock(c)
  BY <1>6 DEF SchedBlock
<1>7. CASE SchedAccept(c)
  BY <1>7 DEF SchedAccept
<1>8. CASE PendingRqqEnqueue(c)
  BY <1>8 DEF PendingRqqEnqueue
<1>9. CASE SendIpi(c)
  BY <1>9 DEF SendIpi
<1>10. CASE WakeLock(c)
  BY <1>10 DEF WakeLock
<1>11. CASE WakeNotify(c)
  BY <1>11 DEF WakeNotify, RemoteStateChange
<1>12. CASE WakeDrain(c)
  BY <1>12 DEF WakeDrain, DrainBegin, DrainErase, DrainEnd
<1>13. CASE FlipWrite(c)
  BY <1>13 DEF FlipWrite
<1>14. CASE FlipTest(c)
  BY <1>14 DEF FlipTest
<1>15. CASE QuantExpired(c)
  BY <1>15 DEF QuantExpired, Fired
<1>16. CASE TickEnd(c)
  BY <1>16 DEF TickEnd
<1>17. CASE DetachLock(c)
  BY <1>17 DEF DetachLock
<1>18. CASE DetachWork(c)
  BY <1>18 DEF DetachWork, RemoteStateChange
<1>19. CASE DetachUnlock(c)
  BY <1>19 DEF DetachUnlock
<1>20. CASE Sleep(c)
  BY <1>20 DEF Sleep
<1>21. CASE SetPrioIn(c)
  BY <1>21 DEF SetPrioIn
<1>22. CASE IpiArrives(c)
  BY <1>22 DEF IpiArrives
<1>23. CASE RqqTake(c)
  BY <1>23 DEF RqqTake
<1>24. CASE RqqApply(c)
  BY <1>24 DEF RqqApply
<1>25. ASSUME NEW s \in SC, FlipRead(c, s)
      PROVE  pc'[d] = pc[d] /\ reg'[d] = reg[d]
  BY <1>25 DEF FlipRead
<1>26. ASSUME NEW s \in SC, OobExpired(c, s)
      PROVE  pc'[d] = pc[d] /\ reg'[d] = reg[d]
  BY <1>26 DEF OobExpired, Fired
<1>27. ASSUME NEW s \in SC, ReplExpired(c, s)
      PROVE  pc'[d] = pc[d] /\ reg'[d] = reg[d]
  BY <1>27 DEF ReplExpired, Fired
<1>28. ASSUME NEW s \in SC, WindowExpired(c, s)
      PROVE  pc'[d] = pc[d] /\ reg'[d] = reg[d]
  BY <1>28 DEF WindowExpired, Fired
<1>29. ASSUME NEW t \in Thread, IpcTimeout(c, t)
      PROVE  pc'[d] = pc[d] /\ reg'[d] = reg[d]
  BY <1>29 DEF IpcTimeout, Fired
<1>30. ASSUME NEW t \in Thread, NEW s \in SC, Attach(c, t, s)
      PROVE  pc'[d] = pc[d] /\ reg'[d] = reg[d]
  BY <1>30 DEF Attach
<1>31. ASSUME NEW t \in User, NEW s \in SC, DetachSlot(c, t, s)
      PROVE  pc'[d] = pc[d] /\ reg'[d] = reg[d]
  BY <1>31 DEF DetachSlot
<1>32. ASSUME NEW t \in Thread, WakeRemote(c, t)
      PROVE  pc'[d] = pc[d] /\ reg'[d] = reg[d]
  BY <1>32 DEF WakeRemote, RemoteStateChange
<1>33. ASSUME NEW t \in Thread, WakeSwitch(c, t)
      PROVE  pc'[d] = pc[d] /\ reg'[d] = reg[d]
  BY <1>33 DEF WakeSwitch
<1>34. ASSUME NEW t \in Thread, WakeLazy(c, t)
      PROVE  pc'[d] = pc[d] /\ reg'[d] = reg[d]
  BY <1>34 DEF WakeLazy
<1>35. ASSUME NEW t \in User, NEW p \in Prio, SetPrioOut(c, t, p)
      PROVE  pc'[d] = pc[d] /\ reg'[d] = reg[d]
  BY <1>35 DEF SetPrioOut
<1> QED
  BY <1>1, <1>2, <1>3, <1>4, <1>5, <1>6, <1>7, <1>8, <1>9, <1>10, <1>11, <1>12, <1>13, <1>14, <1>15, <1>16, <1>17, <1>18, <1>19, <1>20, <1>21, <1>22, <1>23, <1>24, <1>25, <1>26, <1>27, <1>28, <1>29, <1>30, <1>31, <1>32, <1>33, <1>34, <1>35
     DEF Step, Schedule, WakeUpAllBlocked, Flip, Timer, Detach, Ipc, SetPrio,
         HandleRequests

(* The locals a path relies on are set before it gets there.                *)
LEMMA LocalStep ==
    ASSUME ListsOK, PathsOK, StateOK, LocalsOK, NEW c \in Cpu, Step(c)
    PROVE  LocalOK(c)'
<1> USE DEF PathsOK, Goto, Return, LocalOK, NoReg, HasThread, HasSC, CrossCalls
<1>0. /\ LocalOK(c)
      /\ reg[c] \in Reg
  BY DEF LocalsOK
<1>1. CASE SchedEnter(c)
  BY <1>0, <1>1 DEF SchedEnter, Reg
<1>2. CASE SchedPick(c)
  <2>1. NextToRun(rq[c]) \in Thread
    BY <1>2 DEF SchedPick, NextToRun, ListsOK, Rq, OrNull
  <2>2. pc'[c] = "check" /\ reg'[c] = [NoReg EXCEPT !.thr = NextToRun(rq[c])]
    BY <1>2 DEF SchedPick
  <2>3. reg'[c].thr \in Thread /\ reg'[c].wret = "user"
    BY <2>1, <2>2
  <2> QED
    BY <2>2, <2>3
<1>3. CASE SchedCheck(c)
  <2> DEFINE s == slots[reg[c].thr][reg[c].i]
  <2>1. reg[c].thr \in Thread /\ reg[c].i \in Slot
    BY <1>0, <1>3 DEF SchedCheck
  <2>2. s \in OrNil(SC)
    BY <2>1 DEF StateOK
  <2>3. CASE s = Nil \/ run[s]
    <3>1. pc'[c] = "check" /\ reg'[c] = [reg[c] EXCEPT !.i = @ + 1]
      BY <1>3, <2>3 DEF SchedCheck
    <3> QED
      BY <1>0, <2>1, <3>1 DEF Reg
  <2>4. CASE s # Nil /\ ~ run[s]
    <3>1. pc'[c] = "lock" /\ reg'[c] = [reg[c] EXCEPT !.sc = s]
      BY <1>3, <2>4 DEF SchedCheck
    <3>2. s \in SC
      BY <2>2, <2>4 DEF OrNil
    <3> QED
      BY <1>0, <2>1, <3>1, <3>2 DEF Reg
  <2> QED
    BY <2>3, <2>4
<1>4. CASE SchedLock(c)
  BY <1>0, <1>4 DEF SchedLock, Reg
<1>5. CASE SchedRecheck(c)
  BY <1>0, <1>5 DEF SchedRecheck, Reg
<1>6. CASE SchedBlock(c)
  BY <1>0, <1>6 DEF SchedBlock, Reg
<1>7. CASE SchedAccept(c)
  BY <1>0, <1>7 DEF SchedAccept, Reg
<1>8. CASE PendingRqqEnqueue(c)
  BY <1>0, <1>8 DEF PendingRqqEnqueue, Reg
<1>9. CASE SendIpi(c)
  BY <1>0, <1>9 DEF SendIpi, Reg
<1>10. CASE WakeLock(c)
  BY <1>0, <1>10 DEF WakeLock, Reg
<1>11. CASE WakeNotify(c)
  <2> DEFINE t == reg[c].it
             n == After(reg[c].sc, t)
  <2>1. reg[c].sc \in SC /\ t \in OrNil(Thread) /\ pc[c] = "notify"
    BY <1>0, <1>11 DEF WakeNotify, Reg
  <2>2. CASE t = Nil
    <3>1. pc'[c] = "drain" /\ reg'[c] = reg[c]
      BY <1>11, <2>2 DEF WakeNotify
    <3> QED
      BY <1>0, <2>1, <3>1
  <2>3. CASE t # Nil /\ Home[t] = c
    <3>1. pc'[c] = "notify" /\ reg'[c] = [reg[c] EXCEPT !.it = n]
      BY <1>11, <2>1, <2>3 DEF WakeNotify
    <3> QED
      BY <1>0, <2>1, <3>1 DEF Reg
  <2>4. CASE t # Nil /\ Home[t] # c
    <3>1. /\ pc'[c] = "enqueue"
          /\ reg'[c] = [reg[c] EXCEPT !.it = n, !.thr = t, !.xret = "notify"]
      BY <1>11, <2>4 DEF WakeNotify, RemoteStateChange
    <3>2. t \in Thread
      BY <2>1, <2>4 DEF OrNil
    <3> QED
      BY <1>0, <2>1, <3>1, <3>2 DEF Reg
  <2> QED
    BY <2>2, <2>3, <2>4
<1>12. CASE WakeDrain(c)
  <2>1. reg[c].sc \in SC /\ pc[c] = "drain"
    BY <1>0, <1>12 DEF WakeDrain, DrainBegin, DrainErase, DrainEnd
  <2>2. CASE DrainEnd(c)
    <3>1. /\ pc'[c] = reg[c].wret
          /\ reg'[c] = [NoReg EXCEPT !.resched = reg[c].resched, !.fired = reg[c].fired]
      BY <2>2 DEF DrainEnd
    <3>2. reg'[c].xret = "user" /\ reg'[c].wret = "user"
      BY <3>1
    <3> QED
      BY <1>0, <3>1, <3>2
  <2>3. CASE DrainBegin(c) \/ DrainErase(c)
    <3>1. pc'[c] \in {"drain", "fault"}
      BY <2>1, <2>3 DEF DrainBegin, DrainErase
    <3>2. /\ reg'[c].sc = reg[c].sc /\ reg'[c].xret = reg[c].xret
          /\ reg'[c].wret = reg[c].wret
      BY <1>0, <2>3 DEF DrainBegin, DrainErase, Reg
    <3> QED
      BY <1>0, <2>1, <3>1, <3>2
  <2> QED
    BY <1>12, <2>2, <2>3 DEF WakeDrain
<1>13. CASE FlipWrite(c)
  BY <1>0, <1>13 DEF FlipWrite, Reg
<1>14. CASE FlipTest(c)
  BY <1>0, <1>14 DEF FlipTest, Reg
<1>15. CASE QuantExpired(c)
  BY <1>0, <1>15 DEF QuantExpired, Fired, Reg
<1>16. CASE TickEnd(c)
  BY <1>0, <1>16 DEF TickEnd, Reg
<1>17. CASE DetachLock(c)
  BY <1>0, <1>17 DEF DetachLock, Reg
<1>18. CASE DetachWork(c)
  BY <1>0, <1>18 DEF DetachWork, RemoteStateChange, Reg
<1>19. CASE DetachUnlock(c)
  BY <1>0, <1>19 DEF DetachUnlock, Reg
<1>20. CASE Sleep(c)
  BY <1>0, <1>20 DEF Sleep, Reg
<1>21. CASE SetPrioIn(c)
  BY <1>0, <1>21 DEF SetPrioIn, Reg
<1>22. CASE IpiArrives(c)
  BY <1>0, <1>22 DEF IpiArrives, Reg
<1>23. CASE RqqTake(c)
  <2>1. CASE rqq[c] = <<>>
    BY <1>23, <2>1 DEF RqqTake
  <2>2. CASE rqq[c] # <<>>
    <3>1. pc'[c] = "apply" /\ reg'[c] = [reg[c] EXCEPT !.thr = Head(rqq[c])]
      BY <1>23, <2>2 DEF RqqTake
    <3>2. Head(rqq[c]) \in Thread
      BY <2>2, HeadTailProperties DEF StateOK
    <3> QED
      BY <1>0, <3>1, <3>2 DEF Reg
  <2> QED
    BY <2>1, <2>2
<1>24. CASE RqqApply(c)
  BY <1>0, <1>24 DEF RqqApply, Reg
<1>25. ASSUME NEW s \in SC, FlipRead(c, s)
      PROVE  LocalOK(c)'
  BY <1>0, <1>25 DEF FlipRead, Reg
<1>26. ASSUME NEW s \in SC, OobExpired(c, s)
      PROVE  LocalOK(c)'
  BY <1>0, <1>26 DEF OobExpired, Fired, Reg
<1>27. ASSUME NEW s \in SC, ReplExpired(c, s)
      PROVE  LocalOK(c)'
  BY <1>0, <1>27 DEF ReplExpired, Fired, Reg
<1>28. ASSUME NEW s \in SC, WindowExpired(c, s)
      PROVE  LocalOK(c)'
  <2> DEFINE f == Fired(c, TRUE)
  <2>1. f \in [Cpu -> Reg] /\ f[c].xret = "user" /\ f[c].wret = "user"
    BY <1>0, FiredType DEF Fired
  <2>2. CASE run[s]
    <3>1. pc'[c] = "tick" /\ reg'[c] = f[c]
      BY <1>28, <2>2 DEF WindowExpired
    <3> QED
      BY <2>1, <3>1
  <2>3. CASE ~ run[s]
    <3>1. /\ pc'[c] = "wakeLock"
          /\ reg'[c] = [f[c] EXCEPT !.sc = s, !.wret = "tick"]
      BY <1>28, <2>1, <2>3 DEF WindowExpired
    <3> QED
      BY <2>1, <3>1 DEF Reg
  <2> QED
    BY <2>2, <2>3
<1>29. ASSUME NEW t \in Thread, IpcTimeout(c, t)
      PROVE  LocalOK(c)'
  BY <1>0, <1>29 DEF IpcTimeout, Fired, Reg
<1>30. ASSUME NEW t \in Thread, NEW s \in SC, Attach(c, t, s)
      PROVE  LocalOK(c)'
  BY <1>0, <1>30 DEF Attach, Reg
<1>31. ASSUME NEW t \in User, NEW s \in SC, DetachSlot(c, t, s)
      PROVE  LocalOK(c)'
  <2>1. pc'[c] = "detachLock" /\ reg'[c] = [reg[c] EXCEPT !.thr = t, !.sc = s]
    BY <1>31 DEF DetachSlot
  <2> QED
    BY <1>0, <2>1 DEF Reg, User
<1>32. ASSUME NEW t \in Thread, WakeRemote(c, t)
      PROVE  LocalOK(c)'
  <2>1. pc'[c] = "enqueue" /\ reg'[c] = [reg[c] EXCEPT !.thr = t]
    BY <1>32 DEF WakeRemote, RemoteStateChange
  <2>2. reg[c].xret = "user"
    BY <1>0, <1>32 DEF WakeRemote, CanWake
  <2> QED
    BY <1>0, <2>1, <2>2 DEF Reg
<1>33. ASSUME NEW t \in Thread, WakeSwitch(c, t)
      PROVE  LocalOK(c)'
  BY <1>0, <1>33 DEF WakeSwitch, Reg
<1>34. ASSUME NEW t \in Thread, WakeLazy(c, t)
      PROVE  LocalOK(c)'
  BY <1>0, <1>34 DEF WakeLazy, Reg
<1>35. ASSUME NEW t \in User, NEW p \in Prio, SetPrioOut(c, t, p)
      PROVE  LocalOK(c)'
  <2>1. CASE InList(hook, t)
    <3>1. pc'[c] = "setPrio" /\ reg'[c] = [reg[c] EXCEPT !.thr = t]
      BY <1>35, <2>1 DEF SetPrioOut
    <3> QED
      BY <1>0, <3>1 DEF Reg, User
  <2>2. CASE ~ InList(hook, t)
    BY <1>0, <1>35, <2>2 DEF SetPrioOut
  <2> QED
    BY <2>1, <2>2
<1> QED
  BY <1>1, <1>2, <1>3, <1>4, <1>5, <1>6, <1>7, <1>8, <1>9, <1>10, <1>11, <1>12, <1>13, <1>14, <1>15, <1>16, <1>17, <1>18, <1>19, <1>20, <1>21, <1>22, <1>23, <1>24, <1>25, <1>26, <1>27, <1>28, <1>29, <1>30, <1>31, <1>32, <1>33, <1>34, <1>35
     DEF Step, Schedule, WakeUpAllBlocked, Flip, Timer, Detach, Ipc, SetPrio,
         HandleRequests

-----------------------------------------------------------------------------
(* A step of c takes a free lock for c or releases one that c holds, and it *)
(* does so where the critical sections begin and end.                       *)
LockStepOK(c, s) ==
    /\ lock'[s] = c <=> Holds(c, s)'
    /\ \A d \in Cpu \ {c} : lock'[s] = d <=> lock[s] = d

LEMMA LockStep ==
    ASSUME ListsOK, PathsOK, StateOK, LocalsOK, LocksOK, NEW c \in Cpu, NEW s \in SC,
           Step(c)
    PROVE  LockStepOK(c, s)
<1> USE ConstantAssumption DEF PathsOK, Goto, Return, NoReg, Holds, CrossCalls, LockStepOK
<1>0. /\ LocalOK(c)
      /\ lock[s] = c <=> Holds(c, s)
      /\ lock \in [SC -> OrNil(Cpu)]
      /\ reg[c] \in Reg
      /\ Nil \notin Cpu
  BY DEF LocalsOK, LocksOK, StateOK
<1>1. CASE SchedEnter(c)
  BY <1>0, <1>1 DEF SchedEnter, Reg, LocalOK
<1>2. CASE SchedPick(c)
  BY <1>0, <1>2 DEF SchedPick, Reg, LocalOK
<1>3. CASE SchedCheck(c)
  BY <1>0, <1>3 DEF SchedCheck, Reg, LocalOK
<1>4. CASE SchedLock(c)
  BY <1>0, <1>4 DEF SchedLock, Reg, LocalOK
<1>5. CASE SchedRecheck(c)
  BY <1>0, <1>5 DEF SchedRecheck, Reg, LocalOK
<1>6. CASE SchedBlock(c)
  BY <1>0, <1>6 DEF SchedBlock, Reg, LocalOK
<1>7. CASE SchedAccept(c)
  BY <1>0, <1>7 DEF SchedAccept, Reg, LocalOK
<1>8. CASE PendingRqqEnqueue(c)
  BY <1>0, <1>8 DEF PendingRqqEnqueue, Reg, LocalOK
<1>9. CASE SendIpi(c)
  BY <1>0, <1>9 DEF SendIpi, Reg, LocalOK
<1>10. CASE WakeLock(c)
  BY <1>0, <1>10 DEF WakeLock, Reg, LocalOK
<1>11. CASE WakeNotify(c)
  BY <1>0, <1>11 DEF WakeNotify, RemoteStateChange, Reg, LocalOK
<1>12. CASE WakeDrain(c)
  BY <1>0, <1>12 DEF WakeDrain, DrainBegin, DrainErase, DrainEnd, Reg, LocalOK
<1>13. CASE FlipWrite(c)
  BY <1>0, <1>13 DEF FlipWrite, Reg, LocalOK
<1>14. CASE FlipTest(c)
  BY <1>0, <1>14 DEF FlipTest, Reg, LocalOK
<1>15. CASE QuantExpired(c)
  BY <1>0, <1>15 DEF QuantExpired, Fired, Expire, Reg, LocalOK
<1>16. CASE TickEnd(c)
  BY <1>0, <1>16 DEF TickEnd, Reg, LocalOK
<1>17. CASE DetachLock(c)
  BY <1>0, <1>17 DEF DetachLock, Reg, LocalOK
<1>18. CASE DetachWork(c)
  BY <1>0, <1>18 DEF DetachWork, RemoteStateChange, Reg, LocalOK
<1>19. CASE DetachUnlock(c)
  BY <1>0, <1>19 DEF DetachUnlock, Reg, LocalOK
<1>20. CASE Sleep(c)
  BY <1>0, <1>20 DEF Sleep, Reg, LocalOK
<1>21. CASE SetPrioIn(c)
  BY <1>0, <1>21 DEF SetPrioIn, Reg, LocalOK
<1>22. CASE IpiArrives(c)
  BY <1>0, <1>22 DEF IpiArrives, Reg, LocalOK
<1>23. CASE RqqTake(c)
  BY <1>0, <1>23 DEF RqqTake, Reg, LocalOK
<1>24. CASE RqqApply(c)
  BY <1>0, <1>24 DEF RqqApply, Reg, LocalOK
<1>25. ASSUME NEW x \in SC, FlipRead(c, x)
      PROVE  LockStepOK(c, s)
  BY <1>0, <1>25 DEF FlipRead, Reg, LocalOK
<1>26. ASSUME NEW x \in SC, OobExpired(c, x)
      PROVE  LockStepOK(c, s)
  BY <1>0, <1>26 DEF OobExpired, Fired, Expire, Reg, LocalOK
<1>27. ASSUME NEW x \in SC, ReplExpired(c, x)
      PROVE  LockStepOK(c, s)
  BY <1>0, <1>27 DEF ReplExpired, Fired, Expire, Reg, LocalOK
<1>28. ASSUME NEW x \in SC, WindowExpired(c, x)
      PROVE  LockStepOK(c, s)
  BY <1>0, <1>28 DEF WindowExpired, Fired, Expire, Reg, LocalOK
<1>29. ASSUME NEW t \in Thread, IpcTimeout(c, t)
      PROVE  LockStepOK(c, s)
  BY <1>0, <1>29 DEF IpcTimeout, Fired, Expire, Reg, LocalOK
<1>30. ASSUME NEW t \in Thread, NEW x \in SC, Attach(c, t, x)
      PROVE  LockStepOK(c, s)
  BY <1>0, <1>30 DEF Attach, Reg, LocalOK
<1>31. ASSUME NEW t \in User, NEW x \in SC, DetachSlot(c, t, x)
      PROVE  LockStepOK(c, s)
  BY <1>0, <1>31 DEF DetachSlot, Reg, LocalOK
<1>32. ASSUME NEW t \in Thread, WakeRemote(c, t)
      PROVE  LockStepOK(c, s)
  BY <1>0, <1>32 DEF WakeRemote, RemoteStateChange, CanWake, Reg, LocalOK
<1>33. ASSUME NEW t \in Thread, WakeSwitch(c, t)
      PROVE  LockStepOK(c, s)
  BY <1>0, <1>33 DEF WakeSwitch, CanWake, Reg, LocalOK
<1>34. ASSUME NEW t \in Thread, WakeLazy(c, t)
      PROVE  LockStepOK(c, s)
  BY <1>0, <1>34 DEF WakeLazy, CanWake, Reg, LocalOK
<1>35. ASSUME NEW t \in User, NEW p \in Prio, SetPrioOut(c, t, p)
      PROVE  LockStepOK(c, s)
  BY <1>0, <1>35 DEF SetPrioOut, Reg, LocalOK
<1> QED
  BY <1>1, <1>2, <1>3, <1>4, <1>5, <1>6, <1>7, <1>8, <1>9, <1>10, <1>11, <1>12, <1>13, <1>14, <1>15, <1>16, <1>17, <1>18, <1>19, <1>20, <1>21, <1>22, <1>23, <1>24, <1>25, <1>26, <1>27, <1>28, <1>29, <1>30, <1>31, <1>32, <1>33, <1>34, <1>35
     DEF Step, Schedule, WakeUpAllBlocked, Flip, Timer, Detach, Ipc, SetPrio,
         HandleRequests

(* The locks are held by who is in a critical section, before and after.    *)
LEMMA LocksStep ==
    ASSUME ListsOK, PathsOK, StateOK, LocalsOK, LocksOK, NEW c \in Cpu, Step(c)
    PROVE  LocksOK'
<1>1. SUFFICES ASSUME NEW d \in Cpu, NEW s \in SC
               PROVE  lock'[s] = d <=> Holds(d, s)'
  BY DEF LocksOK
<1>2. LockStepOK(c, s)
  BY LockStep
<1>3. CASE d = c
  BY <1>2, <1>3 DEF LockStepOK
<1>4. CASE d # c
  <2>1. Holds(d, s)' <=> Holds(d, s)
    BY <1>4, OthersKeepPath DEF Holds
  <2>2. lock'[s] = d <=> lock[s] = d
    BY <1>2, <1>4 DEF LockStepOK
  <2> QED
    BY <2>1, <2>2 DEF LocksOK
<1> QED
  BY <1>3, <1>4

-----------------------------------------------------------------------------
(* What a step of c does to the openers of s: c is one of them after it, or *)
(* s is closed, or nobody is blocked on s or about to be, or c was none and *)
(* neither opened s nor put anybody on its list.                            *)
AboutToBlock(d, s) == pc[d] = "block" /\ reg[d].sc = s

OpenStepOK(c, s) ==
    \/ Opening(c, s)'
    \/ ~ run'[s]
    \/ blocked'[s] = Nil /\ \A d \in Cpu : ~ AboutToBlock(d, s)'
    \/ /\ ~ Opening(c, s)
       /\ run'[s] = run[s]
       /\ blocked'[s] # Nil => blocked[s] # Nil \/ AboutToBlock(c, s)
       /\ AboutToBlock(c, s)' => AboutToBlock(c, s)

LEMMA OpenStep ==
    ASSUME ListsOK, PathsOK, StateOK, LocalsOK, LocksOK, NEW c \in Cpu, NEW s \in SC,
           Step(c)
    PROVE  OpenStepOK(c, s)
<1> USE DEF PathsOK, Goto, Return, NoReg, Opening, AboutToBlock, OpenStepOK
<1>0. /\ LocalOK(c)
      /\ run \in [SC -> BOOLEAN]
      /\ blocked \in [SC -> OrNil(Thread)]
      /\ reg[c] \in Reg
  BY DEF LocalsOK, StateOK
<1>1. CASE SchedEnter(c)
  BY <1>0, <1>1 DEF SchedEnter, Reg, LocalOK, CrossCalls
<1>2. CASE SchedPick(c)
  BY <1>0, <1>2 DEF SchedPick, Reg, LocalOK, CrossCalls
<1>3. CASE SchedCheck(c)
  BY <1>0, <1>3 DEF SchedCheck, Reg, LocalOK, CrossCalls
<1>4. CASE SchedLock(c)
  BY <1>0, <1>4 DEF SchedLock, Reg, LocalOK, CrossCalls
<1>5. CASE SchedRecheck(c)
  BY <1>0, <1>5 DEF SchedRecheck, Reg, LocalOK, CrossCalls
<1>6. CASE SchedBlock(c)
  BY <1>0, <1>6 DEF SchedBlock, Reg, LocalOK, CrossCalls
<1>7. CASE SchedAccept(c)
  BY <1>0, <1>7 DEF SchedAccept, Reg, LocalOK, CrossCalls
<1>8. CASE PendingRqqEnqueue(c)
  BY <1>0, <1>8 DEF PendingRqqEnqueue, Reg, LocalOK, CrossCalls
<1>9. CASE SendIpi(c)
  BY <1>0, <1>9 DEF SendIpi, Reg, LocalOK, CrossCalls
<1>10. CASE WakeLock(c)
  BY <1>0, <1>10 DEF WakeLock, Reg, LocalOK, CrossCalls
<1>11. CASE WakeNotify(c)
  BY <1>0, <1>11 DEF WakeNotify, RemoteStateChange, Reg, LocalOK, CrossCalls
<1>12. CASE WakeDrain(c)
  \* The lock is released with the list empty and, the lock being held, with
  \* no other CPU about to put somebody on it.
  <2>1. /\ pc[c] = "drain" /\ run'[s] = run[s]
        /\ DrainBegin(c) \/ DrainErase(c) => /\ pc'[c] \in {"drain", "fault"}
                                             /\ reg'[c].sc = reg[c].sc
        /\ DrainEnd(c) => pc'[c] \in {"user", "tick"}
    BY <1>0, <1>12 DEF WakeDrain, DrainBegin, DrainErase, DrainEnd, Reg, LocalOK
  <2>2. CASE reg[c].sc # s
    <3>1. blocked'[s] = blocked[s]
      BY <1>0, <1>12, <2>2 DEF WakeDrain, DrainBegin, DrainErase, DrainEnd
    <3> QED
      BY <1>12, <2>1, <2>2, <3>1 DEF WakeDrain
  <2>3. CASE reg[c].sc = s /\ (DrainBegin(c) \/ DrainErase(c))
    BY <2>1, <2>3
  <2>4. CASE reg[c].sc = s /\ DrainEnd(c)
    <3>1. blocked'[s] = Nil /\ pc'[c] # "block"
      BY <2>1, <2>4 DEF DrainEnd
    <3>2. ASSUME NEW d \in Cpu, AboutToBlock(d, s)'
          PROVE  FALSE
      <4>1. d # c
        BY <3>1, <3>2
      <4>2. pc[d] = "block" /\ reg[d].sc = s
        BY <3>2, <4>1, OthersKeepPath
      <4>3. lock[s] = d /\ lock[s] = c
        BY <2>1, <2>4, <4>2 DEF LocksOK, Holds
      <4> QED
        BY <4>1, <4>3
    <3> QED
      BY <3>1, <3>2
  <2> QED
    BY <1>12, <2>2, <2>3, <2>4 DEF WakeDrain
<1>13. CASE FlipWrite(c)
  BY <1>0, <1>13 DEF FlipWrite, Reg, LocalOK, CrossCalls
<1>14. CASE FlipTest(c)
  BY <1>0, <1>14 DEF FlipTest, Reg, LocalOK, CrossCalls
<1>15. CASE QuantExpired(c)
  BY <1>0, <1>15 DEF QuantExpired, Fired, Expire, Reg, LocalOK, CrossCalls
<1>16. CASE TickEnd(c)
  BY <1>0, <1>16 DEF TickEnd, Reg, LocalOK, CrossCalls
<1>17. CASE DetachLock(c)
  BY <1>0, <1>17 DEF DetachLock, Reg, LocalOK, CrossCalls
<1>18. CASE DetachWork(c)
  \* deblock() takes a thread out of a list and puts none into it.
  <2> DEFINE r == RemoveItem(hook, blocked[reg[c].sc], reg[c].thr)
  <2>1. pc[c] = "detachWork" /\ run'[s] = run[s] /\ reg[c].thr # Nil
    BY <1>0, <1>18, ConstantAssumption DEF DetachWork, LocalOK, HasThread
  <2>2. pc'[c] # "block"
    BY <1>18 DEF DetachWork, RemoteStateChange
  <2>3. blocked[s] = Nil => blocked'[s] = Nil
    <3>1. blocked' = blocked \/ blocked' = [blocked EXCEPT ![reg[c].sc] = r.head]
      BY <1>18 DEF DetachWork
    <3>2. reg[c].sc = s /\ blocked[s] = Nil => r.head = Nil
      BY <2>1, RemoveFromEmpty
    <3> QED
      BY <1>0, <3>1, <3>2
  <2> QED
    BY <2>1, <2>2, <2>3
<1>19. CASE DetachUnlock(c)
  BY <1>0, <1>19 DEF DetachUnlock, Reg, LocalOK, CrossCalls
<1>20. CASE Sleep(c)
  BY <1>0, <1>20 DEF Sleep, Reg, LocalOK, CrossCalls
<1>21. CASE SetPrioIn(c)
  BY <1>0, <1>21 DEF SetPrioIn, Reg, LocalOK, CrossCalls
<1>22. CASE IpiArrives(c)
  BY <1>0, <1>22 DEF IpiArrives, Reg, LocalOK, CrossCalls
<1>23. CASE RqqTake(c)
  BY <1>0, <1>23 DEF RqqTake, Reg, LocalOK, CrossCalls
<1>24. CASE RqqApply(c)
  BY <1>0, <1>24 DEF RqqApply, Reg, LocalOK, CrossCalls
<1>25. ASSUME NEW x \in SC, FlipRead(c, x)
      PROVE  OpenStepOK(c, s)
  BY <1>0, <1>25 DEF FlipRead, Reg, LocalOK, CrossCalls
<1>26. ASSUME NEW x \in SC, OobExpired(c, x)
      PROVE  OpenStepOK(c, s)
  BY <1>0, <1>26 DEF OobExpired, Fired, Expire, Reg, LocalOK, CrossCalls
<1>27. ASSUME NEW x \in SC, ReplExpired(c, x)
      PROVE  OpenStepOK(c, s)
  BY <1>0, <1>27 DEF ReplExpired, Fired, Expire, Reg, LocalOK, CrossCalls
<1>28. ASSUME NEW x \in SC, WindowExpired(c, x)
      PROVE  OpenStepOK(c, s)
  <2>1. pc[c] \in {"user", "tick"} /\ blocked' = blocked
    BY <1>28 DEF WindowExpired, Expire
  <2>2. pc'[c] # "block"
    BY <1>28 DEF WindowExpired
  <2>3. CASE x # s
    <3>1. run'[s] = run[s]
      BY <1>0, <1>28, <2>3 DEF WindowExpired
    <3> QED
      BY <2>1, <2>2, <3>1
  <2>4. CASE x = s /\ run[s]
    <3>1. ~ run'[s]
      BY <1>0, <1>28, <2>4 DEF WindowExpired
    <3> QED
      BY <3>1
  <2>5. CASE x = s /\ ~ run[s]
    <3> DEFINE f == Fired(c, TRUE)
    <3>1. f \in [Cpu -> Reg]
      BY FiredType DEF PathsOK
    <3>2. pc'[c] = "wakeLock" /\ reg'[c] = [f[c] EXCEPT !.sc = s, !.wret = "tick"]
      BY <1>28, <2>5, <3>1 DEF WindowExpired
    <3>3. reg'[c].sc = s
      BY <3>1, <3>2 DEF Reg
    <3> QED
      BY <3>2, <3>3
  <2> QED
    BY <2>3, <2>4, <2>5
<1>29. ASSUME NEW t \in Thread, IpcTimeout(c, t)
      PROVE  OpenStepOK(c, s)
  BY <1>0, <1>29 DEF IpcTimeout, Fired, Expire, Reg, LocalOK, CrossCalls
<1>30. ASSUME NEW t \in Thread, NEW x \in SC, Attach(c, t, x)
      PROVE  OpenStepOK(c, s)
  BY <1>0, <1>30 DEF Attach, Reg, LocalOK, CrossCalls
<1>31. ASSUME NEW t \in User, NEW x \in SC, DetachSlot(c, t, x)
      PROVE  OpenStepOK(c, s)
  BY <1>0, <1>31 DEF DetachSlot, Reg, LocalOK, CrossCalls
<1>32. ASSUME NEW t \in Thread, WakeRemote(c, t)
      PROVE  OpenStepOK(c, s)
  BY <1>0, <1>32 DEF WakeRemote, RemoteStateChange, CanWake, Reg, LocalOK, CrossCalls
<1>33. ASSUME NEW t \in Thread, WakeSwitch(c, t)
      PROVE  OpenStepOK(c, s)
  BY <1>0, <1>33 DEF WakeSwitch, CanWake, Reg, LocalOK, CrossCalls
<1>34. ASSUME NEW t \in Thread, WakeLazy(c, t)
      PROVE  OpenStepOK(c, s)
  BY <1>0, <1>34 DEF WakeLazy, CanWake, Reg, LocalOK, CrossCalls
<1>35. ASSUME NEW t \in User, NEW p \in Prio, SetPrioOut(c, t, p)
      PROVE  OpenStepOK(c, s)
  BY <1>0, <1>35 DEF SetPrioOut, Reg, LocalOK, CrossCalls
<1> QED
  BY <1>1, <1>2, <1>3, <1>4, <1>5, <1>6, <1>7, <1>8, <1>9, <1>10, <1>11, <1>12, <1>13, <1>14, <1>15, <1>16, <1>17, <1>18, <1>19, <1>20, <1>21, <1>22, <1>23, <1>24, <1>25, <1>26, <1>27, <1>28, <1>29, <1>30, <1>31, <1>32, <1>33, <1>34, <1>35
     DEF Step, Schedule, WakeUpAllBlocked, Flip, Timer, Detach, Ipc, SetPrio,
         HandleRequests

(* Whoever opened a constraint stays an opener until its list is empty.     *)
LEMMA OpenersStep ==
    ASSUME ListsOK, PathsOK, StateOK, LocalsOK, LocksOK, OpenersAtWork,
           NEW c \in Cpu, Step(c)
    PROVE  OpenersAtWork'
<1>1. SUFFICES ASSUME NEW s \in SC, run'[s], BlockedSoon(s)'
               PROVE  \E d \in Cpu : Opening(d, s)'
  BY DEF OpenersAtWork
<1>2. OpenStepOK(c, s)
  BY OpenStep
<1>3. CASE Opening(c, s)'
  BY <1>3
<1>4. CASE ~ Opening(c, s)'
  <2>1. blocked'[s] # Nil \/ \E d \in Cpu : AboutToBlock(d, s)'
    BY <1>1 DEF BlockedSoon, AboutToBlock
  <2>2. /\ ~ Opening(c, s)
        /\ run'[s] = run[s]
        /\ blocked'[s] # Nil => blocked[s] # Nil \/ AboutToBlock(c, s)
        /\ AboutToBlock(c, s)' => AboutToBlock(c, s)
    BY <1>1, <1>2, <1>4, <2>1 DEF OpenStepOK
  <2>3. \A d \in Cpu : AboutToBlock(d, s)' => AboutToBlock(d, s)
    <3>1. ASSUME NEW d \in Cpu, d # c
          PROVE  AboutToBlock(d, s)' <=> AboutToBlock(d, s)
      BY <3>1, OthersKeepPath DEF AboutToBlock
    <3> QED
      BY <2>2, <3>1
  <2>4. run[s] /\ BlockedSoon(s)
    BY <1>1, <2>1, <2>2, <2>3 DEF BlockedSoon, AboutToBlock
  <2>5. PICK d \in Cpu : Opening(d, s)
    BY <2>4 DEF OpenersAtWork
  <2>6. d # c
    BY <2>2, <2>5
  <2>7. Opening(d, s)'
    BY <2>5, <2>6, OthersKeepPath DEF Opening
  <2> QED
    BY <2>7
<1> QED
  BY <1>3, <1>4

-----------------------------------------------------------------------------
(* The initial state.                                                       *)

(* A finite set can be put into a sequence: the one SetToSeq chooses exists.*)
LEMMA SetToSeqType ==
    ASSUME NEW S, IsFiniteSet(S)
    PROVE  SetToSeq(S) \in Seq(S)
<1>1. Cardinality(S) \in Nat /\ ExistsBijection(1 .. Cardinality(S), S)
  BY FS_CardinalityType
<1>2. \E f \in [1 .. Cardinality(S) -> S] : IsInjective(f)
  BY <1>1 DEF ExistsBijection, Bijection, Injection, IsInjective
<1>3. SetToSeq(S) \in [1 .. Cardinality(S) -> S]
  BY <1>2 DEF SetToSeq
<1> QED
  BY <1>1, <1>3

LEMMA InitInv == Init => IInv
<1> SUFFICES ASSUME Init PROVE IInv
  OBVIOUS
<1> USE ConstantAssumption DEF Init
<1>1. PathsOK
  <2>1. reg \in [Cpu -> Reg]
    BY NoRegType
  <2> QED
    BY <2>1 DEF PathsOK, Labels
<1>2. ListsOK
  BY MaxPrioAssumption DEF ListsOK, NoHooks, EmptyRq, Hook, Rq, OrNull, Prio
<1>3. StateOK
  <2>1. \A c \in Cpu : SetToSeq({t \in User : Home[t] = c}) \in Seq(Thread)
    <3> SUFFICES ASSUME NEW c \in Cpu
                 PROVE  SetToSeq({t \in User : Home[t] = c}) \in Seq(Thread)
      OBVIOUS
    <3> DEFINE mine == {t \in User : Home[t] = c}
    <3>1. mine \subseteq Thread
      BY DEF User
    <3>2. SetToSeq(mine) \in Seq(mine)
      BY <3>1, FS_Subset, SetToSeqType
    <3> QED
      BY <3>1, <3>2, SeqMonotonic
  <2>2. rqq \in [Cpu -> Seq(Thread)]
    BY <2>1
  <2>3. ipi \in [Cpu -> BOOLEAN] /\ ready \in [Thread -> BOOLEAN]
        /\ pending \in [Thread -> BOOLEAN]
    OBVIOUS
  <2>4. run \in [SC -> BOOLEAN] /\ timer \in [SC -> BOOLEAN]
    OBVIOUS
  <2>5. /\ blocked \in [SC -> OrNil(Thread)] /\ lock \in [SC -> OrNil(Cpu)]
        /\ slots \in [Thread -> [Slot -> OrNil(SC)]] /\ prio \in [Thread -> Prio]
        /\ curr \in [Cpu -> Thread] /\ rqcur \in [Cpu -> Thread]
        /\ quantum \in [Cpu -> BOOLEAN]
    BY DEF OrNil, Slot
  <2> QED
    BY <2>2, <2>3, <2>4, <2>5 DEF StateOK
<1>4. TypeOK
  BY <1>1, <1>2, <1>3, TypeParts
<1>5. LocalsOK
  BY DEF LocalsOK, LocalOK, NoReg, HasThread, HasSC, CrossCalls
<1>6. LocksOK
  BY DEF LocksOK, Holds, NoReg, CrossCalls
<1>7. OpenersAtWork
  BY DEF OpenersAtWork, BlockedSoon
<1> QED
  BY <1>4, <1>5, <1>6, <1>7 DEF IInv

LEMMA StepInv == IInv /\ [Next]_vars => IInv'
<1> SUFFICES ASSUME IInv, [Next]_vars PROVE IInv'
  OBVIOUS
<1>1. TypeOK'
  BY TypeStep DEF IInv
<1>2. CASE UNCHANGED vars
  <2>1. LocalsOK'
    BY <1>2 DEF IInv, vars, LocalsOK, LocalOK
  <2>2. LocksOK'
    BY <1>2 DEF IInv, vars, LocksOK, Holds
  <2>3. OpenersAtWork'
    BY <1>2 DEF IInv, vars, OpenersAtWork, BlockedSoon, Opening
  <2> QED
    BY <1>1, <2>1, <2>2, <2>3 DEF IInv
<1>3. CASE Next
  <2>1. PICK c \in Cpu : Step(c)
    BY <1>3 DEF Next, Step
  <2>2. ListsOK /\ PathsOK /\ StateOK /\ LocalsOK /\ LocksOK /\ OpenersAtWork
    BY TypeParts DEF IInv
  <2>3. LocalsOK'
    <3> SUFFICES ASSUME NEW d \in Cpu PROVE LocalOK(d)'
      BY DEF LocalsOK
    <3>1. CASE d = c
      BY <2>1, <2>2, <3>1, LocalStep
    <3>2. CASE d # c
      BY <2>1, <2>2, <3>2, OthersKeepPath DEF LocalsOK, LocalOK
    <3> QED
      BY <3>1, <3>2
  <2>4. LocksOK'
    BY <2>1, <2>2, LocksStep
  <2>5. OpenersAtWork'
    BY <2>1, <2>2, OpenersStep
  <2> QED
    BY <1>1, <2>3, <2>4, <2>5 DEF IInv
<1> QED
  BY <1>2, <1>3

(* The dispatcher keeps its types, whatever list an item is removed from    *)
(* and whoever runs: no kernel path uses a local it has not set.            *)
THEOREM TypeCorrect == Spec => []TypeOK
<1>1. IInv => TypeOK
  BY DEF IInv
<1> QED
  BY InitInv, StepInv, <1>1, PTL DEF Spec

(* The spin lock of a constraint is held by the CPU that is in one of its   *)
(* critical sections, so at most one is, across the remote wake-ups that    *)
(* wake_up_all_blocked() and deblock() make with the lock held.             *)
THEOREM LockDiscipline == Spec => []LocksOK
<1>1. IInv => LocksOK
  BY DEF IInv
<1> QED
  BY InitInv, StepInv, <1>1, PTL DEF Spec

(* No thread is stranded on an open constraint: neither by flips without a  *)
(* lock, nor by replenishments, windows, detaches or priority changes on    *)
(* any number of CPUs.                                                      *)
THEOREM NobodyStranded == Spec => []NoStranded
<1>1. IInv => NoStranded
  BY DEF IInv, OpenersAtWork, BlockedSoon, NoStranded
<1> QED
  BY InitInv, StepInv, <1>1, PTL DEF Spec

-----------------------------------------------------------------------------
(* Remote requests: nobody waits for an interrupt that is not going to be   *)
(* sent.                                                                   *)

\* The two halves of Notified, for one CPU and for one thread.
Rung(h) ==
    \/ ipi[h]
    \/ pc[h] \in {"rqq", "apply"}
    \/ \E d \in Cpu : pc[d] = "sendIpi" /\ Home[reg[d].thr] = h

Carried(t) ==
    \/ Contains(rqq[Home[t]], t)
    \/ \E d \in Cpu : reg[d].thr = t /\ pc[d] \in {"enqueue", "apply"}

LEMMA NotifiedParts ==
    Notified <=> /\ \A h \in Cpu : rqq[h] # <<>> => Rung(h)
                 /\ \A t \in Thread : pending[t] => Carried(t)
BY DEF Notified, Rung, Carried

LEMMA NotifiedPartsNext ==
    Notified' <=> /\ \A h \in Cpu : rqq'[h] # <<>> => Rung(h)'
                  /\ \A t \in Thread : pending'[t] => Carried(t)'
BY DEF Notified, Rung, Carried

(* What is in a sequence is its head or in its tail.                        *)
LEMMA HeadOrTail ==
    ASSUME NEW S, NEW s \in Seq(S), s # <<>>, NEW t, Contains(s, t), t # Head(s)
    PROVE  Contains(Tail(s), t)
<1>1. PICK i \in 1 .. Len(s) : s[i] = t
  BY DEF Contains
<1>2. i # 1 /\ i - 1 \in 1 .. Len(Tail(s)) /\ Tail(s)[i - 1] = s[i]
  BY <1>1, HeadTailProperties
<1> QED
  BY <1>1, <1>2 DEF Contains

(* What is appended is contained, and so is what was.                       *)
LEMMA AppendContains ==
    ASSUME NEW S, NEW s \in Seq(S), NEW e \in S
    PROVE  /\ Contains(Append(s, e), e)
           /\ \A t : Contains(s, t) => Contains(Append(s, e), t)
<1> DEFINE a == Append(s, e)
<1>1. /\ Len(a) = Len(s) + 1 /\ Len(s) \in Nat
      /\ \A i \in 1 .. Len(s) : a[i] = s[i]
      /\ a[Len(s) + 1] = e
  BY AppendProperties
<1> HIDE DEF a
<1>2. Contains(a, e)
  BY <1>1 DEF Contains
<1>3. \A t : Contains(s, t) => Contains(a, t)
  BY <1>1 DEF Contains
<1> QED
  BY <1>2, <1>3 DEF a

-----------------------------------------------------------------------------
(* What a step of c does to the bell of h: the queue is empty, or the bell  *)
(* rings, or is about to be rung by c, or c had nothing to do with it.      *)
RingStepOK(c, h) ==
    \/ rqq'[h] = <<>>
    \/ ipi'[h]
    \/ pc'[h] \in {"rqq", "apply"}
    \/ pc'[c] = "sendIpi" /\ Home[reg'[c].thr] = h
    \/ /\ rqq[h] # <<>>
       /\ ipi[h] => ipi'[h]
       /\ h = c => pc[c] \notin {"rqq", "apply"}
       /\ ~ (pc[c] = "sendIpi" /\ Home[reg[c].thr] = h)

LEMMA RingStep ==
    ASSUME ListsOK, PathsOK, StateOK, LocalsOK, NEW c \in Cpu, NEW h \in Cpu, Step(c)
    PROVE  RingStepOK(c, h)
<1> USE DEF PathsOK, Goto, Return, RingStepOK, remote
<1>0. /\ LocalOK(c)
      /\ ipi \in [Cpu -> BOOLEAN]
      /\ rqq \in [Cpu -> Seq(Thread)]
  BY DEF LocalsOK, StateOK
<1>1. CASE SchedEnter(c)
  BY <1>0, <1>1 DEF SchedEnter
<1>2. CASE SchedPick(c)
  BY <1>0, <1>2 DEF SchedPick
<1>3. CASE SchedCheck(c)
  BY <1>0, <1>3 DEF SchedCheck
<1>4. CASE SchedLock(c)
  BY <1>0, <1>4 DEF SchedLock
<1>5. CASE SchedRecheck(c)
  BY <1>0, <1>5 DEF SchedRecheck
<1>6. CASE SchedBlock(c)
  BY <1>0, <1>6 DEF SchedBlock
<1>7. CASE SchedAccept(c)
  BY <1>0, <1>7 DEF SchedAccept
<1>8. CASE PendingRqqEnqueue(c)
  BY <1>0, <1>8 DEF PendingRqqEnqueue
<1>9. CASE SendIpi(c)
  BY <1>0, <1>9 DEF SendIpi
<1>10. CASE WakeLock(c)
  BY <1>0, <1>10 DEF WakeLock
<1>11. CASE WakeNotify(c)
  BY <1>0, <1>11 DEF WakeNotify, RemoteStateChange
<1>12. CASE WakeDrain(c)
  BY <1>0, <1>12 DEF WakeDrain, DrainBegin, DrainErase, DrainEnd
<1>13. CASE FlipWrite(c)
  BY <1>0, <1>13 DEF FlipWrite
<1>14. CASE FlipTest(c)
  BY <1>0, <1>14 DEF FlipTest
<1>15. CASE QuantExpired(c)
  BY <1>0, <1>15 DEF QuantExpired, Fired, Expire
<1>16. CASE TickEnd(c)
  BY <1>0, <1>16 DEF TickEnd
<1>17. CASE DetachLock(c)
  BY <1>0, <1>17 DEF DetachLock
<1>18. CASE DetachWork(c)
  BY <1>0, <1>18 DEF DetachWork, RemoteStateChange
<1>19. CASE DetachUnlock(c)
  BY <1>0, <1>19 DEF DetachUnlock
<1>20. CASE Sleep(c)
  BY <1>0, <1>20 DEF Sleep
<1>21. CASE SetPrioIn(c)
  BY <1>0, <1>21 DEF SetPrioIn
<1>22. CASE IpiArrives(c)
  BY <1>0, <1>22 DEF IpiArrives
<1>23. CASE RqqTake(c)
  BY <1>0, <1>23 DEF RqqTake
<1>24. CASE RqqApply(c)
  BY <1>0, <1>24 DEF RqqApply
<1>25. ASSUME NEW x \in SC, FlipRead(c, x)
      PROVE  RingStepOK(c, h)
  BY <1>0, <1>25 DEF FlipRead
<1>26. ASSUME NEW x \in SC, OobExpired(c, x)
      PROVE  RingStepOK(c, h)
  BY <1>0, <1>26 DEF OobExpired, Fired, Expire
<1>27. ASSUME NEW x \in SC, ReplExpired(c, x)
      PROVE  RingStepOK(c, h)
  BY <1>0, <1>27 DEF ReplExpired, Fired, Expire
<1>28. ASSUME NEW x \in SC, WindowExpired(c, x)
      PROVE  RingStepOK(c, h)
  BY <1>0, <1>28 DEF WindowExpired, Fired, Expire
<1>29. ASSUME NEW t \in Thread, IpcTimeout(c, t)
      PROVE  RingStepOK(c, h)
  BY <1>0, <1>29 DEF IpcTimeout, Fired, Expire
<1>30. ASSUME NEW t \in Thread, NEW x \in SC, Attach(c, t, x)
      PROVE  RingStepOK(c, h)
  BY <1>0, <1>30 DEF Attach
<1>31. ASSUME NEW t \in User, NEW x \in SC, DetachSlot(c, t, x)
      PROVE  RingStepOK(c, h)
  BY <1>0, <1>31 DEF DetachSlot
<1>32. ASSUME NEW t \in Thread, WakeRemote(c, t)
      PROVE  RingStepOK(c, h)
  BY <1>0, <1>32 DEF WakeRemote, RemoteStateChange, CanWake
<1>33. ASSUME NEW t \in Thread, WakeSwitch(c, t)
      PROVE  RingStepOK(c, h)
  BY <1>0, <1>33 DEF WakeSwitch, CanWake
<1>34. ASSUME NEW t \in Thread, WakeLazy(c, t)
      PROVE  RingStepOK(c, h)
  BY <1>0, <1>34 DEF WakeLazy, CanWake
<1>35. ASSUME NEW t \in User, NEW p \in Prio, SetPrioOut(c, t, p)
      PROVE  RingStepOK(c, h)
  BY <1>0, <1>35 DEF SetPrioOut
<1> QED
  BY <1>1, <1>2, <1>3, <1>4, <1>5, <1>6, <1>7, <1>8, <1>9, <1>10, <1>11, <1>12, <1>13, <1>14, <1>15, <1>16, <1>17, <1>18, <1>19, <1>20, <1>21, <1>22, <1>23, <1>24, <1>25, <1>26, <1>27, <1>28, <1>29, <1>30, <1>31, <1>32, <1>33, <1>34, <1>35
     DEF Step, Schedule, WakeUpAllBlocked, Flip, Timer, Detach, Ipc, SetPrio,
         HandleRequests

(* What a step of c does to the request of t: it is done, or queued, or in  *)
(* the hands of c, or c had nothing to do with it.                          *)
CarryStepOK(c, t) ==
    \/ ~ pending'[t]
    \/ Contains(rqq'[Home[t]], t)
    \/ reg'[c].thr = t /\ pc'[c] \in {"enqueue", "apply"}
    \/ /\ pending[t]
       /\ Contains(rqq[Home[t]], t) => Contains(rqq'[Home[t]], t)
       /\ ~ (reg[c].thr = t /\ pc[c] \in {"enqueue", "apply"})

LEMMA CarryStep ==
    ASSUME ListsOK, PathsOK, StateOK, LocalsOK, NEW c \in Cpu, NEW t \in Thread, Step(c)
    PROVE  CarryStepOK(c, t)
<1> USE DEF PathsOK, Goto, Return, CarryStepOK, remote
<1>0. /\ LocalOK(c)
      /\ reg[c] \in Reg
      /\ pending \in [Thread -> BOOLEAN]
      /\ rqq \in [Cpu -> Seq(Thread)]
      /\ Home[t] \in Cpu
  BY ConstantAssumption DEF LocalsOK, StateOK
<1>1. CASE SchedEnter(c)
  BY <1>0, <1>1 DEF SchedEnter, Reg
<1>2. CASE SchedPick(c)
  BY <1>0, <1>2 DEF SchedPick, Reg
<1>3. CASE SchedCheck(c)
  BY <1>0, <1>3 DEF SchedCheck, Reg
<1>4. CASE SchedLock(c)
  BY <1>0, <1>4 DEF SchedLock, Reg
<1>5. CASE SchedRecheck(c)
  BY <1>0, <1>5 DEF SchedRecheck, Reg
<1>6. CASE SchedBlock(c)
  BY <1>0, <1>6 DEF SchedBlock, Reg
<1>7. CASE SchedAccept(c)
  BY <1>0, <1>7 DEF SchedAccept, Reg
<1>8. CASE PendingRqqEnqueue(c)
  <2> DEFINE y == reg[c].thr
             h == Home[y]
             q == IF Contains(rqq[h], y) THEN rqq[h] ELSE Append(rqq[h], y)
  <2>1. /\ y \in Thread /\ h \in Cpu
        /\ rqq' = [rqq EXCEPT ![h] = q]
        /\ pending' = pending /\ reg' = reg
    BY <1>0, <1>8, ConstantAssumption DEF PendingRqqEnqueue, LocalOK, HasThread
  <2>2. Contains(q, y) /\ \A z : Contains(rqq[h], z) => Contains(q, z)
    BY <1>0, <2>1, AppendContains
  <2> HIDE DEF q
  <2>3. CASE y = t
    BY <1>0, <2>1, <2>2, <2>3
  <2>4. CASE y # t
    BY <1>0, <2>1, <2>2, <2>4
  <2> QED
    BY <2>3, <2>4
<1>9. CASE SendIpi(c)
  BY <1>0, <1>9 DEF SendIpi, Reg
<1>10. CASE WakeLock(c)
  BY <1>0, <1>10 DEF WakeLock, Reg
<1>11. CASE WakeNotify(c)
  BY <1>0, <1>11 DEF WakeNotify, RemoteStateChange, Reg
<1>12. CASE WakeDrain(c)
  BY <1>0, <1>12 DEF WakeDrain, DrainBegin, DrainErase, DrainEnd, Reg
<1>13. CASE FlipWrite(c)
  BY <1>0, <1>13 DEF FlipWrite, Reg
<1>14. CASE FlipTest(c)
  BY <1>0, <1>14 DEF FlipTest, Reg
<1>15. CASE QuantExpired(c)
  BY <1>0, <1>15 DEF QuantExpired, Fired, Expire, Reg
<1>16. CASE TickEnd(c)
  BY <1>0, <1>16 DEF TickEnd, Reg
<1>17. CASE DetachLock(c)
  BY <1>0, <1>17 DEF DetachLock, Reg
<1>18. CASE DetachWork(c)
  BY <1>0, <1>18 DEF DetachWork, RemoteStateChange, Reg
<1>19. CASE DetachUnlock(c)
  BY <1>0, <1>19 DEF DetachUnlock, Reg
<1>20. CASE Sleep(c)
  BY <1>0, <1>20 DEF Sleep, Reg
<1>21. CASE SetPrioIn(c)
  BY <1>0, <1>21 DEF SetPrioIn, Reg
<1>22. CASE IpiArrives(c)
  BY <1>0, <1>22 DEF IpiArrives, Reg
<1>23. CASE RqqTake(c)
  <2>1. CASE rqq[c] = <<>>
    BY <1>0, <1>23, <2>1 DEF RqqTake, Reg
  <2>2. CASE rqq[c] # <<>> /\ Head(rqq[c]) = t
    BY <1>0, <1>23, <2>2 DEF RqqTake, Reg
  <2>3. CASE rqq[c] # <<>> /\ Head(rqq[c]) # t
    <3>1. /\ rqq' = [rqq EXCEPT ![c] = Tail(rqq[c])]
          /\ pending' = pending
          /\ ~ (reg[c].thr = t /\ pc[c] \in {"enqueue", "apply"})
      BY <1>23, <2>3 DEF RqqTake
    <3>2. Contains(rqq[c], t) => Contains(Tail(rqq[c]), t)
      BY <1>0, <2>3, HeadOrTail
    <3>3. Contains(rqq[Home[t]], t) => Contains(rqq'[Home[t]], t)
      BY <1>0, <3>1, <3>2
    <3> QED
      BY <1>0, <3>1, <3>3
  <2> QED
    BY <2>1, <2>2, <2>3
<1>24. CASE RqqApply(c)
  BY <1>0, <1>24 DEF RqqApply, Reg
<1>25. ASSUME NEW x \in SC, FlipRead(c, x)
      PROVE  CarryStepOK(c, t)
  BY <1>0, <1>25 DEF FlipRead, Reg
<1>26. ASSUME NEW x \in SC, OobExpired(c, x)
      PROVE  CarryStepOK(c, t)
  BY <1>0, <1>26 DEF OobExpired, Fired, Expire, Reg
<1>27. ASSUME NEW x \in SC, ReplExpired(c, x)
      PROVE  CarryStepOK(c, t)
  BY <1>0, <1>27 DEF ReplExpired, Fired, Expire, Reg
<1>28. ASSUME NEW x \in SC, WindowExpired(c, x)
      PROVE  CarryStepOK(c, t)
  BY <1>0, <1>28 DEF WindowExpired, Fired, Expire, Reg
<1>29. ASSUME NEW y \in Thread, IpcTimeout(c, y)
      PROVE  CarryStepOK(c, t)
  BY <1>0, <1>29 DEF IpcTimeout, Fired, Expire, Reg
<1>30. ASSUME NEW y \in Thread, NEW x \in SC, Attach(c, y, x)
      PROVE  CarryStepOK(c, t)
  BY <1>0, <1>30 DEF Attach, Reg
<1>31. ASSUME NEW y \in User, NEW x \in SC, DetachSlot(c, y, x)
      PROVE  CarryStepOK(c, t)
  BY <1>0, <1>31 DEF DetachSlot, Reg
<1>32. ASSUME NEW y \in Thread, WakeRemote(c, y)
      PROVE  CarryStepOK(c, t)
  BY <1>0, <1>32 DEF WakeRemote, RemoteStateChange, CanWake, Reg
<1>33. ASSUME NEW y \in Thread, WakeSwitch(c, y)
      PROVE  CarryStepOK(c, t)
  BY <1>0, <1>33 DEF WakeSwitch, CanWake, Reg
<1>34. ASSUME NEW y \in Thread, WakeLazy(c, y)
      PROVE  CarryStepOK(c, t)
  BY <1>0, <1>34 DEF WakeLazy, CanWake, Reg
<1>35. ASSUME NEW y \in User, NEW p \in Prio, SetPrioOut(c, y, p)
      PROVE  CarryStepOK(c, t)
  BY <1>0, <1>35 DEF SetPrioOut, Reg
<1> QED
  BY <1>1, <1>2, <1>3, <1>4, <1>5, <1>6, <1>7, <1>8, <1>9, <1>10, <1>11, <1>12, <1>13, <1>14, <1>15, <1>16, <1>17, <1>18, <1>19, <1>20, <1>21, <1>22, <1>23, <1>24, <1>25, <1>26, <1>27, <1>28, <1>29, <1>30, <1>31, <1>32, <1>33, <1>34, <1>35
     DEF Step, Schedule, WakeUpAllBlocked, Flip, Timer, Detach, Ipc, SetPrio,
         HandleRequests

(* A step of one CPU does not lose what another CPU is about to do.         *)
LEMMA NotifiedStep ==
    ASSUME TypeOK, LocalsOK, Notified, NEW c \in Cpu, Step(c)
    PROVE  Notified'
<1>1. ListsOK /\ PathsOK /\ StateOK
  BY TypeParts
<1>2. \A d \in Cpu \ {c} : pc'[d] = pc[d] /\ reg'[d] = reg[d]
  BY <1>1, OthersKeepPath
<1>3. ASSUME NEW h \in Cpu, rqq'[h] # <<>>
      PROVE  Rung(h)'
  <2>1. RingStepOK(c, h)
    BY <1>1, RingStep
  <2>2. rqq[h] # <<>> => Rung(h)
    BY NotifiedParts
  <2> QED
    BY <1>2, <1>3, <2>1, <2>2 DEF RingStepOK, Rung
<1>4. ASSUME NEW t \in Thread, pending'[t]
      PROVE  Carried(t)'
  <2>1. CarryStepOK(c, t)
    BY <1>1, CarryStep
  <2>2. pending[t] => Carried(t)
    BY NotifiedParts
  <2> QED
    BY <1>2, <1>4, <2>1, <2>2 DEF CarryStepOK, Carried
<1> QED
  BY <1>3, <1>4, NotifiedPartsNext

-----------------------------------------------------------------------------
(* The sequence of a finite set leaves nobody out.                          *)
LEMMA SetToSeqContains ==
    ASSUME NEW S, IsFiniteSet(S), NEW x \in S
    PROVE  Contains(SetToSeq(S), x)
<1> DEFINE n == Cardinality(S)
           f == SetToSeq(S)
<1>1. n \in Nat /\ ExistsBijection(1 .. n, S)
  BY FS_CardinalityType
<1>2. \E g \in [1 .. n -> S] : IsInjective(g)
  BY <1>1 DEF ExistsBijection, Bijection, Injection, IsInjective
<1>3. f \in [1 .. n -> S] /\ IsInjective(f)
  BY <1>2 DEF SetToSeq
<1>4. IsFiniteSet(1 .. n) /\ Cardinality(1 .. n) = n
  BY <1>1, FS_Interval
<1> HIDE DEF f
<1>5. f \in Injection(1 .. n, S)
  BY <1>3 DEF Injection, IsInjective
<1>6. f \in Surjection(1 .. n, S)
  BY <1>4, <1>5, FS_Injection
<1>7. PICK i \in 1 .. n : f[i] = x
  BY <1>6 DEF Surjection
<1>8. Len(f) = n
  BY <1>1, <1>3
<1>9. Contains(f, x)
  BY <1>7, <1>8 DEF Contains
<1> QED
  BY <1>9 DEF f

LEMMA InitNotified == Init => Notified
<1> SUFFICES ASSUME Init PROVE Notified
  OBVIOUS
<1>1. ASSUME NEW c \in Cpu, rqq[c] # <<>>
      PROVE  ipi[c]
  BY <1>1 DEF Init
<1>2. ASSUME NEW t \in Thread, pending[t]
      PROVE  Contains(rqq[Home[t]], t)
  <2> DEFINE mine == {u \in User : Home[u] = Home[t]}
  <2>1. t \in mine
    BY <1>2 DEF Init
  <2>2. IsFiniteSet(mine)
    BY ConstantAssumption, FS_Subset DEF User
  <2>3. rqq[Home[t]] = SetToSeq(mine)
    BY ConstantAssumption DEF Init
  <2> QED
    BY <2>1, <2>2, <2>3, SetToSeqContains
<1> QED
  BY <1>1, <1>2 DEF Notified

LEMMA StepNotified == IInv /\ Notified /\ [Next]_vars => Notified'
<1> SUFFICES ASSUME IInv, Notified, [Next]_vars PROVE Notified'
  OBVIOUS
<1>1. CASE UNCHANGED vars
  BY <1>1 DEF vars, Notified
<1>2. CASE Next
  <2>1. PICK c \in Cpu : Step(c)
    BY <1>2 DEF Next, Step
  <2> QED
    BY <2>1, NotifiedStep DEF IInv
<1> QED
  BY <1>1, <1>2

(* Nobody waits for an interrupt that is not going to be sent: with any     *)
(* number of CPUs that queue requests to each other while interrupts are    *)
(* taken and queues are emptied, a request queue that is not empty has an   *)
(* interrupt on its way, a CPU about to send one or its owner at work, and  *)
(* a state change has a request.                                            *)
THEOREM EverybodyNotified == Spec => []Notified
<1> QED
  BY InitInv, StepInv, InitNotified, StepNotified, PTL DEF Spec

-----------------------------------------------------------------------------
(* Where a context is linked.  w says of each context for which constraint  *)
(* it is blocked, or Nil; who is linked and not blocked is in the ready     *)
(* queue of its home CPU, in the list of its priority.                      *)

InReady(k, w, pr, c, p) ==
    {t \in Thread : InList(k, t) /\ w[t] = Nil /\ Home[t] = c /\ pr[t] = p}
InBlocked(k, w, s) == {t \in Thread : InList(k, t) /\ w[t] = s}

\* prio_highest names the most urgent list in use, or 0 when none is.
Exactly(q) ==
    /\ q.highest = 0 \/ q.queue[q.highest] # Nil
    /\ \A p \in Prio : q.queue[p] # Nil => p <= q.highest

Placed(k, q, b, w, pr) ==
    /\ k \in Hook(Thread) /\ q \in [Cpu -> Rq(Thread)] /\ b \in [SC -> OrNil(Thread)]
    /\ w \in [Thread -> OrNil(SC)] /\ pr \in [Thread -> Prio]
    /\ \A t \in Thread : w[t] # Nil => InList(k, t)
    /\ \A c \in Cpu, p \in Prio : RingOf(Thread, k, q[c].queue[p], InReady(k, w, pr, c, p))
    /\ \A c \in Cpu : Exactly(q[c])
    /\ \A s \in SC : RingOf(Thread, k, b[s], InBlocked(k, w, s))

\* the links l are those of k, with t linked too
LinkedToo(k, l, t) == \A x \in Thread : InList(l, x) <=> InList(k, x) \/ x = t
LinkedNot(k, l, t) == \A x \in Thread : InList(l, x) <=> InList(k, x) /\ x # t

LEMMA ThreadsFinite == Nil \notin Thread /\ IsFiniteSet(Thread) /\ Nil \notin SC
BY ConstantAssumption

\* A list that gets a head becomes the most urgent one if it is more urgent.
LEMMA RaiseExact ==
    ASSUME NEW q \in Rq(Thread), Exactly(q), NEW p \in Prio, NEW h, h # Nil
    PROVE  Exactly([queue |-> [q.queue EXCEPT ![p] = h],
                    highest |-> IF p > q.highest THEN p ELSE q.highest])
<1>1. /\ q.queue \in [Prio -> OrNull(Thread)] /\ q.highest \in Prio
      /\ \A r \in Prio : r \in Nat
  BY MaxPrioAssumption DEF Rq, Prio
<1> DEFINE u == [q.queue EXCEPT ![p] = h]
           m == IF p > q.highest THEN p ELSE q.highest
<1>2. m \in Prio /\ m \in Nat /\ p <= m /\ q.highest <= m /\ m \in {p, q.highest}
  BY <1>1
<1>3. \A r \in Prio : u[r] = IF r = p THEN h ELSE q.queue[r]
  BY <1>1
<1> HIDE DEF u, m
<1>4. m = 0 \/ u[m] # Nil
  BY <1>2, <1>3 DEF Exactly
<1>5. \A r \in Prio : u[r] # Nil => r <= m
  <2> SUFFICES ASSUME NEW r \in Prio, u[r] # Nil PROVE r <= m
    OBVIOUS
  <2>1. r = p \/ r <= q.highest
    BY <1>3 DEF Exactly
  <2>2. r \in Nat /\ q.highest \in Nat
    BY <1>1
  <2> QED
    BY <1>2, <2>1, <2>2
<1> QED
  BY <1>4, <1>5 DEF Exactly, u, m

\* After the head of a list has changed, the loop finds the most urgent list.
LEMMA LowerExact ==
    ASSUME NEW q \in Rq(Thread), Exactly(q), NEW p \in Prio, NEW h,
           q.queue[p] # Nil
    PROVE  LET u == [q.queue EXCEPT ![p] = h]
           IN  Exactly([queue |-> u, highest |-> LowerHighest(u, q.highest)])
<1>1. /\ q.queue \in [Prio -> OrNull(Thread)] /\ q.highest \in Prio
      /\ \A r \in Prio : r \in Nat
  BY MaxPrioAssumption DEF Rq, Prio
<1> DEFINE u == [q.queue EXCEPT ![p] = h]
           m == LowerHighest(u, q.highest)
<1>2. /\ m \in 0 .. q.highest
      /\ m = 0 \/ u[m] # Nil
      /\ \A r \in m + 1 .. q.highest : u[r] = Nil
  BY <1>1, LowerHighestStops
<1>3. \A r \in Prio : u[r] # Nil => q.queue[r] # Nil
  BY <1>1
<1> HIDE DEF u, m
<1>4. \A r \in Prio : u[r] # Nil => r <= m
  <2> SUFFICES ASSUME NEW r \in Prio, u[r] # Nil PROVE r <= m
    OBVIOUS
  <2>1. r <= q.highest /\ r \in Nat /\ m \in Nat /\ q.highest \in Nat
    BY <1>1, <1>2, <1>3 DEF Exactly
  <2> QED
    BY <1>2, <2>1
<1> QED
  BY <1>2, <1>4 DEF Exactly, u, m

\* enqueue(): who is linked stays, who is not gets into the ready queue of its home.
LEMMA PlacedEnqueue ==
    ASSUME NEW k, NEW q, NEW b, NEW w, NEW pr, Placed(k, q, b, w, pr),
           NEW t \in Thread, NEW c \in Cpu, c = Home[t], NEW pos
    PROVE  LET r == Enqueue(k, q[c], t, pr[t], pos)
           IN  /\ Placed(r.hook, [q EXCEPT ![c] = r.rq], b, w, pr)
               /\ LinkedToo(k, r.hook, t)
<1> DEFINE r == Enqueue(k, q[c], t, pr[t], pos)
<1>0. /\ k \in Hook(Thread) /\ q \in [Cpu -> Rq(Thread)] /\ b \in [SC -> OrNil(Thread)]
      /\ w \in [Thread -> OrNil(SC)] /\ pr \in [Thread -> Prio] /\ pr[t] \in Prio
      /\ q[c] \in Rq(Thread) /\ Exactly(q[c])
  BY DEF Placed
<1>1. CASE InList(k, t)
  <2>1. r.hook = k /\ r.rq = q[c]
    BY <1>1 DEF Enqueue
  <2>2. [q EXCEPT ![c] = r.rq] = q
    BY <1>0, <2>1
  <2> QED
    BY <1>1, <2>1, <2>2 DEF LinkedToo
<1>2. CASE ~ InList(k, t)
  <2> DEFINE p == pr[t]
             h == q[c].queue[p]
             M == InReady(k, w, pr, c, p)
             z == Push(k, h, t, pos)
             qq == [q EXCEPT ![c] = r.rq]
  <2>1. RingOf(Thread, k, h, M) /\ p \in Prio
    BY <1>0 DEF Placed
  <2>2. /\ RingOf(Thread, z.hook, z.head, M \cup {t})
        /\ \A x \in Thread : InList(z.hook, x) <=> InList(k, x) \/ x = t
        /\ \A g, N : RingOf(Thread, k, g, N) /\ N \cap M = {} => RingOf(Thread, z.hook, g, N)
    BY <1>0, <1>2, <2>1, RingPush, ThreadsFinite
  <2>3. r.hook = z.hook /\ r.rq.queue = [q[c].queue EXCEPT ![p] = z.head]
        /\ r.rq = [queue |-> [q[c].queue EXCEPT ![p] = z.head],
                   highest |-> IF p > q[c].highest THEN p ELSE q[c].highest]
    BY <1>2 DEF Enqueue
  <2>4. r.hook \in Hook(Thread) /\ r.rq \in Rq(Thread)
    BY <1>0, EnqueueType
  <2>5. w[t] = Nil
    BY <1>2 DEF Placed
  <2>6. Exactly(r.rq)
    <3>1. z.head # Nil
      <4>1. h \in OrNull(Thread)
        BY <1>0, <2>1 DEF Rq
      <4> QED
        BY <1>0, <4>1, PushType, ThreadsFinite
    <3> HIDE DEF z, r, p
    <3>2. Exactly([queue |-> [q[c].queue EXCEPT ![p] = z.head],
                   highest |-> IF p > q[c].highest THEN p ELSE q[c].highest])
      BY <1>0, <2>1, <3>1, RaiseExact
    <3> QED
      BY <2>3, <3>2
  <2>7. /\ qq \in [Cpu -> Rq(Thread)]
        /\ \A d \in Cpu : qq[d] = IF d = c THEN r.rq ELSE q[d]
    BY <1>0, <2>4
  <2>8. q[c].queue \in [Prio -> OrNull(Thread)]
    BY <1>0 DEF Rq
  <2>9. \A d \in Cpu, y \in Prio : qq[d].queue[y] = IF d = c /\ y = p THEN z.head ELSE q[d].queue[y]
    BY <2>1, <2>3, <2>7, <2>8
  <2> HIDE DEF z, qq, r, h
  <2>10. ASSUME NEW d \in Cpu, NEW y \in Prio
         PROVE  RingOf(Thread, r.hook, qq[d].queue[y], InReady(r.hook, w, pr, d, y))
    <3>1. CASE d = c /\ y = p
      <4>1. InReady(r.hook, w, pr, d, y) = M \cup {t}
        BY <2>2, <2>3, <2>5, <3>1 DEF InReady
      <4> QED
        BY <2>2, <2>3, <2>9, <3>1, <4>1
    <3>2. CASE ~ (d = c /\ y = p)
      <4>1. InReady(r.hook, w, pr, d, y) = InReady(k, w, pr, d, y)
        BY <2>2, <2>3, <3>2 DEF InReady
      <4>2. InReady(k, w, pr, d, y) \cap M = {}
        BY <3>2 DEF InReady
      <4>3. RingOf(Thread, k, q[d].queue[y], InReady(k, w, pr, d, y))
        BY DEF Placed
      <4>4. qq[d].queue[y] = q[d].queue[y]
        BY <2>9, <3>2
      <4> QED
        BY <2>2, <2>3, <4>1, <4>2, <4>3, <4>4
    <3> QED
      BY <3>1, <3>2
  <2>11. ASSUME NEW s \in SC
         PROVE  RingOf(Thread, r.hook, b[s], InBlocked(r.hook, w, s))
    <3>1. InBlocked(r.hook, w, s) = InBlocked(k, w, s) /\ InBlocked(k, w, s) \cap M = {}
      BY <2>2, <2>3, <2>5, ThreadsFinite DEF InBlocked, InReady
    <3>2. RingOf(Thread, k, b[s], InBlocked(k, w, s))
      BY DEF Placed
    <3> QED
      BY <2>2, <2>3, <3>1, <3>2
  <2>12. \A x \in Thread : w[x] # Nil => InList(r.hook, x)
    BY <2>2, <2>3 DEF Placed
  <2>13. \A d \in Cpu : Exactly(qq[d])
    BY <2>6, <2>7 DEF Placed
  <2>14. Placed(r.hook, qq, b, w, pr)
    BY <1>0, <2>4, <2>7, <2>10, <2>11, <2>12, <2>13 DEF Placed
  <2> QED
    BY <2>2, <2>3, <2>14 DEF qq, r, LinkedToo
<1> QED
  BY <1>1, <1>2

\* dequeue() of a context that no constraint blocks
LEMMA PlacedDequeue ==
    ASSUME NEW k, NEW q, NEW b, NEW w, NEW pr, Placed(k, q, b, w, pr),
           NEW t \in Thread, NEW c \in Cpu, c = Home[t], w[t] = Nil
    PROVE  LET r == ReadyDequeue(k, q[c], t, pr[t])
           IN  /\ Placed(r.hook, [q EXCEPT ![c] = r.rq], b, w, pr)
               /\ LinkedNot(k, r.hook, t)
<1> DEFINE r == ReadyDequeue(k, q[c], t, pr[t])
<1>0. /\ k \in Hook(Thread) /\ q \in [Cpu -> Rq(Thread)] /\ b \in [SC -> OrNil(Thread)]
      /\ w \in [Thread -> OrNil(SC)] /\ pr \in [Thread -> Prio] /\ pr[t] \in Prio
      /\ q[c] \in Rq(Thread) /\ Exactly(q[c])
  BY DEF Placed
<1>1. CASE ~ InList(k, t)
  <2>1. r.hook = k /\ r.rq = q[c]
    BY <1>1 DEF ReadyDequeue
  <2>2. [q EXCEPT ![c] = r.rq] = q
    BY <1>0, <2>1
  <2> QED
    BY <1>1, <2>1, <2>2 DEF LinkedNot
<1>2. CASE InList(k, t)
  <2> DEFINE p == pr[t]
             h == q[c].queue[p]
             M == InReady(k, w, pr, c, p)
             z == RemoveItem(k, h, t)
             u == [q[c].queue EXCEPT ![p] = z.head]
             qq == [q EXCEPT ![c] = r.rq]
  <2>1. RingOf(Thread, k, h, M) /\ p \in Prio /\ t \in M
    BY <1>0, <1>2 DEF Placed, InReady
  <2>2. /\ RingOf(Thread, z.hook, z.head, M \ {t})
        /\ \A x \in Thread : InList(z.hook, x) <=> InList(k, x) /\ x # t
        /\ \A g, N : RingOf(Thread, k, g, N) /\ N \cap M = {} => RingOf(Thread, z.hook, g, N)
    <3> HIDE DEF h, M, p
    <3> QED
      BY <1>0, <2>1, RingRemove, ThreadsFinite
  <2>3. r.hook = z.hook /\ r.rq.queue = u /\ r.rq = [queue |-> u, highest |-> LowerHighest(u, q[c].highest)]
    BY <1>2 DEF ReadyDequeue
  <2>4. r.hook \in Hook(Thread) /\ r.rq \in Rq(Thread)
    BY <1>0, ReadyDequeueType
  <2>6. Exactly(r.rq)
    <3>1. h # Nil
      BY <1>0, <2>1, RingFacts, ThreadsFinite
    <3> HIDE DEF z, M, r, p
    <3>2. Exactly([queue |-> u, highest |-> LowerHighest(u, q[c].highest)])
      BY <1>0, <2>1, <3>1, LowerExact DEF h, u
    <3> QED
      BY <2>3, <3>2
  <2>7. /\ qq \in [Cpu -> Rq(Thread)]
        /\ \A d \in Cpu : qq[d] = IF d = c THEN r.rq ELSE q[d]
    BY <1>0, <2>4
  <2>8. q[c].queue \in [Prio -> OrNull(Thread)]
    BY <1>0 DEF Rq
  <2>9. \A d \in Cpu, y \in Prio : qq[d].queue[y] = IF d = c /\ y = p THEN z.head ELSE q[d].queue[y]
    <3>1. \A y \in Prio : u[y] = IF y = p THEN z.head ELSE q[c].queue[y]
      BY <2>1, <2>8
    <3> HIDE DEF u, z, qq, r
    <3> QED
      BY <2>3, <2>7, <3>1
  <2> HIDE DEF z, qq, r, h, u
  <2>10. ASSUME NEW d \in Cpu, NEW y \in Prio
         PROVE  RingOf(Thread, r.hook, qq[d].queue[y], InReady(r.hook, w, pr, d, y))
    <3>1. CASE d = c /\ y = p
      <4>1. InReady(r.hook, w, pr, d, y) = M \ {t}
        BY <2>2, <2>3, <3>1 DEF InReady
      <4> QED
        BY <2>2, <2>3, <2>9, <3>1, <4>1
    <3>2. CASE ~ (d = c /\ y = p)
      <4>1. InReady(r.hook, w, pr, d, y) = InReady(k, w, pr, d, y)
        BY <2>2, <2>3, <3>2 DEF InReady
      <4>2. InReady(k, w, pr, d, y) \cap M = {}
        BY <3>2 DEF InReady
      <4>3. RingOf(Thread, k, q[d].queue[y], InReady(k, w, pr, d, y))
        BY DEF Placed
      <4>4. qq[d].queue[y] = q[d].queue[y]
        BY <2>9, <3>2
      <4> QED
        BY <2>2, <2>3, <4>1, <4>2, <4>3, <4>4
    <3> QED
      BY <3>1, <3>2
  <2>11. ASSUME NEW s \in SC
         PROVE  RingOf(Thread, r.hook, b[s], InBlocked(r.hook, w, s))
    <3>1. InBlocked(r.hook, w, s) = InBlocked(k, w, s) /\ InBlocked(k, w, s) \cap M = {}
      BY <2>2, <2>3, ThreadsFinite DEF InBlocked, InReady
    <3>2. RingOf(Thread, k, b[s], InBlocked(k, w, s))
      BY DEF Placed
    <3> QED
      BY <2>2, <2>3, <3>1, <3>2
  <2>12. \A x \in Thread : w[x] # Nil => InList(r.hook, x)
    BY <2>2, <2>3 DEF Placed
  <2>13. \A d \in Cpu : Exactly(qq[d])
    BY <2>6, <2>7 DEF Placed
  <2>14. Placed(r.hook, qq, b, w, pr)
    BY <1>0, <2>4, <2>7, <2>10, <2>11, <2>12, <2>13 DEF Placed
  <2> QED
    BY <2>2, <2>3, <2>14 DEF qq, r, LinkedNot
<1> QED
  BY <1>1, <1>2

\* Off the blocked list of the constraint it is blocked for.
LEMMA PlacedTake ==
    ASSUME NEW k, NEW q, NEW b, NEW w, NEW pr, Placed(k, q, b, w, pr),
           NEW t \in Thread, NEW s \in SC, w[t] = s
    PROVE  LET r == RemoveItem(k, b[s], t)
           IN  /\ Placed(r.hook, q, [b EXCEPT ![s] = r.head], [w EXCEPT ![t] = Nil], pr)
               /\ LinkedNot(k, r.hook, t)
<1> DEFINE r == RemoveItem(k, b[s], t)
           M == InBlocked(k, w, s)
           bb == [b EXCEPT ![s] = r.head]
           ww == [w EXCEPT ![t] = Nil]
<1>0. /\ k \in Hook(Thread) /\ q \in [Cpu -> Rq(Thread)] /\ b \in [SC -> OrNil(Thread)]
      /\ w \in [Thread -> OrNil(SC)] /\ pr \in [Thread -> Prio] /\ InList(k, t)
  BY ThreadsFinite DEF Placed
<1>1. RingOf(Thread, k, b[s], M) /\ t \in M
  BY <1>0 DEF Placed, InBlocked
<1>2. /\ RingOf(Thread, r.hook, r.head, M \ {t})
      /\ \A x \in Thread : InList(r.hook, x) <=> InList(k, x) /\ x # t
      /\ \A g, N : RingOf(Thread, k, g, N) /\ N \cap M = {} => RingOf(Thread, r.hook, g, N)
  <2> HIDE DEF M
  <2> QED
    BY <1>0, <1>1, RingRemove, ThreadsFinite
<1>3. r.hook \in Hook(Thread) /\ r.head \in OrNil(Thread)
  <2>1. b[s] \in OrNull(Thread)
    BY <1>0 DEF OrNull, OrNil
  <2> HIDE DEF r
  <2>2. r.hook \in Hook(Thread) /\ r.head \in OrNull(Thread)
    BY <1>0, <2>1, RemoveItemType DEF r
  <2> QED
    BY <2>2 DEF OrNull, OrNil
<1> HIDE DEF r
<1>4. /\ bb \in [SC -> OrNil(Thread)] /\ \A z \in SC : bb[z] = IF z = s THEN r.head ELSE b[z]
      /\ ww \in [Thread -> OrNil(SC)] /\ \A x \in Thread : ww[x] = IF x = t THEN Nil ELSE w[x]
  BY <1>0, <1>3 DEF OrNil
<1> HIDE DEF bb, ww
<1>5. ASSUME NEW c \in Cpu, NEW p \in Prio
      PROVE  RingOf(Thread, r.hook, q[c].queue[p], InReady(r.hook, ww, pr, c, p))
  <2>1. InReady(r.hook, ww, pr, c, p) = InReady(k, w, pr, c, p)
    BY <1>2, <1>4, ThreadsFinite DEF InReady
  <2>2. InReady(k, w, pr, c, p) \cap M = {}
    BY ThreadsFinite DEF InReady, InBlocked
  <2>3. RingOf(Thread, k, q[c].queue[p], InReady(k, w, pr, c, p))
    BY DEF Placed
  <2> HIDE DEF M
  <2> QED
    BY <1>2, <2>1, <2>2, <2>3
<1>6. ASSUME NEW z \in SC
      PROVE  RingOf(Thread, r.hook, bb[z], InBlocked(r.hook, ww, z))
  <2>1. CASE z = s
    <3>1. InBlocked(r.hook, ww, z) = M \ {t}
      BY <1>2, <1>4, <2>1, ThreadsFinite DEF InBlocked
    <3> QED
      BY <1>2, <1>4, <2>1, <3>1
  <2>2. CASE z # s
    <3>1. InBlocked(r.hook, ww, z) = InBlocked(k, w, z) /\ InBlocked(k, w, z) \cap M = {}
      BY <1>2, <1>4, <2>2, ThreadsFinite DEF InBlocked
    <3>2. RingOf(Thread, k, b[z], InBlocked(k, w, z))
      BY DEF Placed
    <3>3. bb[z] = b[z]
      BY <1>4, <2>2
    <3> HIDE DEF M
    <3> QED
      BY <1>2, <3>1, <3>2, <3>3
  <2> QED
    BY <2>1, <2>2
<1>7. \A x \in Thread : ww[x] # Nil => InList(r.hook, x)
  BY <1>2, <1>4 DEF Placed
<1>8. Placed(r.hook, q, bb, ww, pr)
  BY <1>0, <1>3, <1>4, <1>5, <1>6, <1>7 DEF Placed
<1> QED
  BY <1>2, <1>8 DEF r, bb, ww, LinkedNot

\* Onto the blocked list of a constraint, from nowhere.
LEMMA PlacedAdd ==
    ASSUME NEW k, NEW q, NEW b, NEW w, NEW pr, Placed(k, q, b, w, pr),
           NEW t \in Thread, NEW s \in SC, ~ InList(k, t), NEW pos
    PROVE  LET r == Push(k, b[s], t, pos)
           IN  /\ Placed(r.hook, q, [b EXCEPT ![s] = r.head], [w EXCEPT ![t] = s], pr)
               /\ LinkedToo(k, r.hook, t)
<1> DEFINE r == Push(k, b[s], t, pos)
           M == InBlocked(k, w, s)
           bb == [b EXCEPT ![s] = r.head]
           ww == [w EXCEPT ![t] = s]
<1>0. /\ k \in Hook(Thread) /\ q \in [Cpu -> Rq(Thread)] /\ b \in [SC -> OrNil(Thread)]
      /\ w \in [Thread -> OrNil(SC)] /\ pr \in [Thread -> Prio] /\ w[t] = Nil
  BY DEF Placed
<1>1. RingOf(Thread, k, b[s], M)
  BY <1>0 DEF Placed
<1>2. /\ RingOf(Thread, r.hook, r.head, M \cup {t})
      /\ \A x \in Thread : InList(r.hook, x) <=> InList(k, x) \/ x = t
      /\ \A g, N : RingOf(Thread, k, g, N) /\ N \cap M = {} => RingOf(Thread, r.hook, g, N)
  <2> HIDE DEF M
  <2>1. /\ Nil \notin Thread /\ IsFiniteSet(Thread) /\ k \in Hook(Thread)
        /\ RingOf(Thread, k, b[s], M) /\ t \in Thread /\ ~ InList(k, t)
    BY <1>0, <1>1, ThreadsFinite
  <2> QED
    BY ONLY <2>1, RingPush
<1>3. r.hook \in Hook(Thread) /\ r.head \in OrNil(Thread)
  <2>1. b[s] \in OrNull(Thread)
    BY <1>0 DEF OrNull, OrNil
  <2> HIDE DEF r
  <2>2. r.hook \in Hook(Thread) /\ r.head \in Thread
    BY <1>0, <2>1, PushType DEF r
  <2> QED
    BY <2>2 DEF OrNil
<1> HIDE DEF r
<1>4. /\ bb \in [SC -> OrNil(Thread)] /\ \A z \in SC : bb[z] = IF z = s THEN r.head ELSE b[z]
      /\ ww \in [Thread -> OrNil(SC)] /\ \A x \in Thread : ww[x] = IF x = t THEN s ELSE w[x]
  BY <1>0, <1>3 DEF OrNil
<1> HIDE DEF bb, ww
<1>5. ASSUME NEW c \in Cpu, NEW p \in Prio
      PROVE  RingOf(Thread, r.hook, q[c].queue[p], InReady(r.hook, ww, pr, c, p))
  <2>1. InReady(r.hook, ww, pr, c, p) = InReady(k, w, pr, c, p)
    BY <1>2, <1>4, ThreadsFinite DEF InReady
  <2>2. InReady(k, w, pr, c, p) \cap M = {}
    BY ThreadsFinite DEF InReady, InBlocked
  <2>3. RingOf(Thread, k, q[c].queue[p], InReady(k, w, pr, c, p))
    BY DEF Placed
  <2> HIDE DEF M
  <2> QED
    BY <1>2, <2>1, <2>2, <2>3
<1>6. ASSUME NEW z \in SC
      PROVE  RingOf(Thread, r.hook, bb[z], InBlocked(r.hook, ww, z))
  <2>1. CASE z = s
    <3>1. InBlocked(r.hook, ww, z) = M \cup {t}
      BY <1>2, <1>4, <2>1, ThreadsFinite DEF InBlocked
    <3> QED
      BY <1>2, <1>4, <2>1, <3>1
  <2>2. CASE z # s
    <3>1. InBlocked(r.hook, ww, z) = InBlocked(k, w, z) /\ InBlocked(k, w, z) \cap M = {}
      BY <1>0, <1>2, <1>4, <2>2, ThreadsFinite DEF InBlocked
    <3>2. RingOf(Thread, k, b[z], InBlocked(k, w, z))
      BY DEF Placed
    <3>3. bb[z] = b[z]
      BY <1>4, <2>2
    <3> HIDE DEF M
    <3> QED
      BY <1>2, <3>1, <3>2, <3>3
  <2> QED
    BY <2>1, <2>2
<1>7. \A x \in Thread : ww[x] # Nil => InList(r.hook, x)
  BY <1>2, <1>4 DEF Placed
<1>8. Placed(r.hook, q, bb, ww, pr)
  BY <1>0, <1>3, <1>4, <1>5, <1>6, <1>7 DEF Placed
<1> QED
  BY <1>2, <1>8 DEF r, bb, ww, LinkedToo

\* requeue() of a context that no constraint blocks
LEMMA PlacedRequeue ==
    ASSUME NEW k, NEW q, NEW b, NEW w, NEW pr, Placed(k, q, b, w, pr),
           NEW t \in Thread, NEW c \in Cpu, c = Home[t], w[t] = Nil
    PROVE  LET r == Requeue(k, q[c], t, pr[t])
           IN  /\ Placed(r.hook, [q EXCEPT ![c] = r.rq], b, w, pr)
               /\ LinkedToo(k, r.hook, t)
<1> DEFINE r == Requeue(k, q[c], t, pr[t])
<1>0. /\ k \in Hook(Thread) /\ q \in [Cpu -> Rq(Thread)] /\ b \in [SC -> OrNil(Thread)]
      /\ w \in [Thread -> OrNil(SC)] /\ pr \in [Thread -> Prio] /\ pr[t] \in Prio
      /\ q[c] \in Rq(Thread) /\ Exactly(q[c])
  BY DEF Placed
<1>1. CASE ~ InList(k, t)
  <2>1. r = Enqueue(k, q[c], t, pr[t], "Back")
    BY <1>1 DEF Requeue
  <2> QED
    BY <2>1, PlacedEnqueue
<1>2. CASE InList(k, t)
  <2> DEFINE p == pr[t]
             M == InReady(k, w, pr, c, p)
             qq == [q EXCEPT ![c] = r.rq]
  <2>1. RingOf(Thread, k, q[c].queue[p], M) /\ p \in Prio /\ t \in M
    BY <1>0, <1>2 DEF Placed, InReady
  <2>2. r.hook = k /\ r.rq = [q[c] EXCEPT !.queue[p] = k.next[t]]
    BY <1>2 DEF Requeue
  <2>3. RingOf(Thread, k, k.next[t], M)
    <3> HIDE DEF M, p
    <3> QED
      BY <1>0, <2>1, RingTurn, ThreadsFinite
  <2>4. r.rq \in Rq(Thread)
    BY <1>0, RequeueType
  <2>5. /\ q[c].queue \in [Prio -> OrNull(Thread)] /\ r.rq.highest = q[c].highest
        /\ \A y \in Prio : r.rq.queue[y] = IF y = p THEN k.next[t] ELSE q[c].queue[y]
    BY <1>0, <2>1, <2>2 DEF Rq
  <2>6. k.next[t] # Nil /\ q[c].queue[p] # Nil
    <3> HIDE DEF M, p
    <3>1. q[c].queue[p] # Nil
      BY <1>0, <2>1, RingFacts, ThreadsFinite
    <3>2. k.next[t] # Nil
      BY <1>2 DEF InList
    <3> QED
      BY <3>1, <3>2
  <2>7. Exactly(r.rq)
    BY <1>0, <2>5, <2>6 DEF Exactly, Rq
  <2>8. qq \in [Cpu -> Rq(Thread)] /\ \A d \in Cpu : qq[d] = IF d = c THEN r.rq ELSE q[d]
    BY <1>0, <2>4
  <2> HIDE DEF qq, r
  <2>9. ASSUME NEW d \in Cpu, NEW y \in Prio
        PROVE  RingOf(Thread, k, qq[d].queue[y], InReady(k, w, pr, d, y))
    <3>1. CASE d = c /\ y = p
      BY <2>3, <2>5, <2>8, <3>1
    <3>2. CASE ~ (d = c /\ y = p)
      <4>1. qq[d].queue[y] = q[d].queue[y]
        BY <2>5, <2>8, <3>2
      <4> QED
        BY <4>1 DEF Placed
    <3> QED
      BY <3>1, <3>2
  <2>10. Placed(k, qq, b, w, pr)
    BY <1>0, <2>7, <2>8, <2>9 DEF Placed
  <2> QED
    BY <1>2, <2>2, <2>10 DEF qq, r, LinkedToo
<1> QED
  BY <1>1, <1>2

\* Who is linked nowhere may get another priority.
LEMMA PlacedReprio ==
    ASSUME NEW k, NEW q, NEW b, NEW w, NEW pr, Placed(k, q, b, w, pr),
           NEW t \in Thread, ~ InList(k, t), NEW p \in Prio
    PROVE  Placed(k, q, b, w, [pr EXCEPT ![t] = p])
<1> DEFINE np == [pr EXCEPT ![t] = p]
<1>1. /\ np \in [Thread -> Prio] /\ \A x \in Thread : x # t => np[x] = pr[x]
  BY DEF Placed
<1> HIDE DEF np
<1>2. \A c \in Cpu, y \in Prio : InReady(k, w, np, c, y) = InReady(k, w, pr, c, y)
  BY <1>1 DEF InReady
<1>3. Placed(k, q, b, w, np)
  BY <1>1, <1>2 DEF Placed
<1> QED
  BY <1>3 DEF np

\* No context is linked at first.
LEMMA PlacedInit ==
    ASSUME Init
    PROVE  Placed(hook, rq, blocked, [t \in Thread |-> Nil], prio) /\ \A t \in Thread : ~ InList(hook, t)
<1> DEFINE w == [t \in Thread |-> Nil]
<1>1. hook \in Hook(Thread) /\ \A t \in Thread : ~ InList(hook, t)
  BY DEF Init, NoHooks, Hook, OrNull, InList
<1>2. 0 \in Prio /\ \A c \in Cpu : rq[c] = EmptyRq
  BY MaxPrioAssumption DEF Init, Prio
<1>3. EmptyRq \in Rq(Thread) /\ Exactly(EmptyRq) /\ \A p \in Prio : EmptyRq.queue[p] = Nil
  BY <1>2 DEF EmptyRq, Rq, OrNull, Exactly
<1>4. rq \in [Cpu -> Rq(Thread)]
  BY <1>3 DEF Init
<1>5. blocked \in [SC -> OrNil(Thread)] /\ \A s \in SC : blocked[s] = Nil
  BY DEF Init, OrNil
<1>6. prio \in [Thread -> Prio] /\ w \in [Thread -> OrNil(SC)]
  BY ConstantAssumption DEF Init, OrNil
<1>7. \A c \in Cpu, p \in Prio : InReady(hook, w, prio, c, p) = {}
  BY <1>1 DEF InReady
<1>8. \A s \in SC : InBlocked(hook, w, s) = {}
  BY <1>1 DEF InBlocked
<1>9. \A c \in Cpu, p \in Prio : RingOf(Thread, hook, rq[c].queue[p], InReady(hook, w, prio, c, p))
  BY <1>2, <1>3, <1>7, RingEmpty
<1>10. \A s \in SC : RingOf(Thread, hook, blocked[s], InBlocked(hook, w, s))
  BY <1>5, <1>8, RingEmpty
<1>11. \A t \in Thread : w[t] = Nil
  OBVIOUS
<1> HIDE DEF w
<1> QED
  BY <1>1, <1>2, <1>3, <1>4, <1>5, <1>6, <1>9, <1>10, <1>11 DEF Placed, w

\* What it means for the lists that everybody is in its place.
LEMMA PlacedFacts ==
    ASSUME NEW k, NEW q, NEW b, NEW w, NEW pr, Placed(k, q, b, w, pr)
    PROVE  /\ \A s \in SC : /\ Members(k, b[s]) = InBlocked(k, w, s)
                            /\ b[s] # Nil => b[s] \in Thread /\ w[b[s]] = s
           /\ \A c \in Cpu, p \in Prio :
                 /\ Members(k, q[c].queue[p]) = InReady(k, w, pr, c, p)
                 /\ q[c].queue[p] # Nil <=> InReady(k, w, pr, c, p) # {}
                 /\ q[c].queue[p] # Nil => q[c].queue[p] \in InReady(k, w, pr, c, p)
           /\ RingsClosed(k)
<1>0. k \in Hook(Thread) /\ w \in [Thread -> OrNil(SC)] /\ pr \in [Thread -> Prio]
  BY DEF Placed
<1>1. ASSUME NEW s \in SC
      PROVE  /\ Members(k, b[s]) = InBlocked(k, w, s)
             /\ b[s] # Nil => b[s] \in InBlocked(k, w, s)
             /\ \A x \in InBlocked(k, w, s) :
                   /\ InList(k, x) /\ k.next[x] \in Thread /\ k.prev[x] \in Thread
                   /\ k.prev[k.next[x]] = x /\ k.next[k.prev[x]] = x
  <2>1. RingOf(Thread, k, b[s], InBlocked(k, w, s))
    BY DEF Placed
  <2> QED
    BY <1>0, <2>1, RingFacts, ThreadsFinite
<1>2. ASSUME NEW c \in Cpu, NEW p \in Prio
      PROVE  /\ Members(k, q[c].queue[p]) = InReady(k, w, pr, c, p)
             /\ q[c].queue[p] # Nil <=> InReady(k, w, pr, c, p) # {}
             /\ q[c].queue[p] # Nil => q[c].queue[p] \in InReady(k, w, pr, c, p)
             /\ \A x \in InReady(k, w, pr, c, p) :
                   /\ InList(k, x) /\ k.next[x] \in Thread /\ k.prev[x] \in Thread
                   /\ k.prev[k.next[x]] = x /\ k.next[k.prev[x]] = x
  <2>1. RingOf(Thread, k, q[c].queue[p], InReady(k, w, pr, c, p))
    BY DEF Placed
  <2> QED
    BY <1>0, <2>1, RingFacts, ThreadsFinite
<1>3. \A s \in SC : b[s] # Nil => b[s] \in Thread /\ w[b[s]] = s
  BY <1>1 DEF InBlocked
<1>4. RingsClosed(k)
  <2> SUFFICES ASSUME NEW x \in Thread, InList(k, x)
               PROVE  /\ k.next[x] \in Thread /\ k.prev[x] \in Thread
                      /\ k.prev[k.next[x]] = x /\ k.next[k.prev[x]] = x
    BY <1>0 DEF RingsClosed, InList, Hook
  <2>1. CASE w[x] = Nil
    <3>1. Home[x] \in Cpu /\ pr[x] \in Prio /\ x \in InReady(k, w, pr, Home[x], pr[x])
      BY <1>0, <2>1, ConstantAssumption DEF InReady
    <3> QED
      BY <1>2, <3>1
  <2>2. CASE w[x] # Nil
    <3>1. w[x] \in SC /\ x \in InBlocked(k, w, w[x])
      BY <1>0, <2>2 DEF OrNil, InBlocked
    <3> QED
      BY <1>1, <3>1
  <2> QED
    BY <2>1, <2>2
<1> QED
  BY <1>1, <1>2, <1>3, <1>4

-----------------------------------------------------------------------------
(* What the home CPU of a context owes it.  No other CPU dispatches it, and *)
(* the requests queued to a CPU are of its own contexts.                    *)

\* The dispatcher looks at the context it took from the ready queue.
Checking == {"check", "lock", "recheck", "block"}
Picking == Checking \cup {"pick"}

NoConstraint ==
    "attach" \notin Ops /\ \A t \in Thread, i \in Slot : InitSlots[t][i] = Nil
Orderly == NoConstraint \/ ("wakeLazy" \notin Ops /\ "setPrio" \notin Ops)
IdleFree == \A c \in Cpu, i \in Slot : InitSlots[Idle[c]][i] = Nil

AtHome(c) ==
    /\ Home[curr[c]] = c /\ Home[rqcur[c]] = c
    /\ \A i \in DOMAIN rqq[c] : Home[rqq[c][i]] = c
    /\ pc[c] \in Checking \cup {"apply"} => Home[reg[c].thr] = c
    /\ pc[c] \in {"lock", "recheck", "block"} => reg[c].thr \in User /\ ~ NoConstraint
    /\ ready[Idle[c]]

SlotsOK ==
    /\ \A c \in Cpu, i \in Slot : slots[Idle[c]][i] = Nil
    /\ NoConstraint => \A t \in Thread, i \in Slot : slots[t][i] = Nil

\* What a step of c does to the contexts that run, to the requests and to the
\* slots.
HomeStepOK(c) ==
    /\ \A d \in Cpu : d # c => curr'[d] = curr[d] /\ rqcur'[d] = rqcur[d]
    /\ Home[curr'[c]] = c /\ Home[rqcur'[c]] = c
    /\ \A h \in Cpu : \A i \in DOMAIN rqq'[h] : Home[rqq'[h][i]] = h
    /\ pc'[c] \in Checking \cup {"apply"} => Home[reg'[c].thr] = c
    /\ pc'[c] \in {"lock", "recheck", "block"} => reg'[c].thr \in User /\ ~ NoConstraint
    /\ \A d \in Cpu : ready'[Idle[d]]
    /\ SlotsOK'

LEMMA AppendHome ==
    ASSUME NEW q \in Seq(Thread), NEW h, NEW t \in Thread, Home[t] = h,
           \A i \in DOMAIN q : Home[q[i]] = h
    PROVE  \A i \in DOMAIN Append(q, t) : Home[Append(q, t)[i]] = h
<1> DEFINE a == Append(q, t)
<1>1. /\ Len(a) = Len(q) + 1 /\ Len(q) \in Nat /\ DOMAIN a = 1 .. Len(a) /\ DOMAIN q = 1 .. Len(q)
      /\ \A i \in 1 .. Len(q) : a[i] = q[i]
      /\ a[Len(q) + 1] = t
  BY AppendProperties
<1> HIDE DEF a
<1>2. \A i \in DOMAIN a : Home[a[i]] = h
  BY <1>1
<1> QED
  BY <1>2 DEF a

LEMMA TailHome ==
    ASSUME NEW q \in Seq(Thread), q # <<>>, NEW h, \A i \in DOMAIN q : Home[q[i]] = h
    PROVE  Home[Head(q)] = h /\ \A i \in DOMAIN Tail(q) : Home[Tail(q)[i]] = h
<1>1. /\ Len(q) \in Nat /\ 1 \in DOMAIN q /\ DOMAIN q = 1 .. Len(q) /\ Head(q) = q[1]
      /\ DOMAIN Tail(q) = 1 .. Len(q) - 1
      /\ \A i \in 1 .. Len(q) - 1 : Tail(q)[i] = q[i + 1]
  BY HeadTailProperties
<1> QED
  BY <1>1

LEMMA HomeStep ==
    ASSUME ListsOK, PathsOK, StateOK, LocalsOK, NEW c \in Cpu, Step(c),
           \A d \in Cpu : AtHome(d), SlotsOK,
           pc[c] = "pick" /\ NextToRun(rq[c]) # Nil => Home[NextToRun(rq[c])] = c
    PROVE  HomeStepOK(c)
<1> USE DEF PathsOK, Goto, Return, HomeStepOK, remote, runs, threads
<1>0. /\ LocalOK(c) /\ AtHome(c) /\ \A d \in Cpu : ready[Idle[d]] /\ Idle[d] \in Thread /\ Idle[d] \notin User
      /\ User \subseteq Thread
      /\ \A d \in Cpu : \A i \in DOMAIN rqq[d] : Home[rqq[d][i]] = d
      /\ ready \in [Thread -> BOOLEAN] /\ slots \in [Thread -> [Slot -> OrNil(SC)]]
      /\ curr \in [Cpu -> Thread] /\ rqcur \in [Cpu -> Thread]
      /\ rqq \in [Cpu -> Seq(Thread)]
      /\ reg[c].i \in Nat
  BY ConstantAssumption DEF LocalsOK, StateOK, AtHome, User, Reg
<1>00. UNCHANGED slots => SlotsOK'
  BY DEF SlotsOK
<1>000. ASSUME curr' = curr, rqcur' = rqcur, rqq' = rqq, slots' = slots,
               pc'[c] \notin Checking \cup {"apply"}, \A d \in Cpu : ready'[Idle[d]]
        PROVE  HomeStepOK(c)
  BY <1>0, <1>00, <1>000 DEF AtHome, Checking

<1>1. CASE SchedEnter(c)
  BY <1>0, <1>00, <1>1 DEF SchedEnter, AtHome, Checking, LocalOK, HasThread, NoReg
<1>2. CASE SchedPick(c)
  <2>1. /\ curr' = curr /\ rqcur' = rqcur /\ rqq' = rqq /\ slots' = slots /\ ready' = ready
        /\ pc'[c] = "check" /\ reg'[c].thr = NextToRun(rq[c]) /\ pc[c] = "pick" /\ NextToRun(rq[c]) # Nil
    BY <1>0, <1>2 DEF SchedPick, NoReg
  <2> QED
    BY <1>0, <1>00, <2>1 DEF AtHome, Checking
<1>3. CASE SchedCheck(c)
  <2>1. /\ curr' = curr /\ rqcur' = rqcur /\ rqq' = rqq /\ slots' = slots /\ ready' = ready
        /\ pc[c] = "check" /\ reg'[c].thr = reg[c].thr /\ pc'[c] \in {"check", "lock"}
        /\ pc'[c] = "lock" => reg[c].i \in Slot /\ slots[reg[c].thr][reg[c].i] # Nil
    BY <1>0, <1>3 DEF SchedCheck, Reg
  <2>2. reg[c].thr \in Thread /\ Home[reg[c].thr] = c
    BY <1>0, <2>1 DEF AtHome, Checking, LocalOK, HasThread
  <2>3. pc'[c] = "lock" => reg[c].thr \in User /\ ~ NoConstraint
    BY <1>0, <2>1, <2>2 DEF SlotsOK, User
  <2> QED
    BY <1>0, <1>00, <2>1, <2>2, <2>3 DEF AtHome, Checking
<1>4. CASE SchedLock(c)
  BY <1>0, <1>00, <1>4 DEF SchedLock, AtHome, Checking, LocalOK, HasThread, NoReg
<1>5. CASE SchedRecheck(c)
  <2>1. /\ curr' = curr /\ rqcur' = rqcur /\ rqq' = rqq /\ slots' = slots /\ ready' = ready
        /\ pc[c] = "recheck" /\ reg'[c].thr = reg[c].thr /\ pc'[c] \in {"check", "block"}
    BY <1>0, <1>5 DEF SchedRecheck, Reg
  <2> QED
    BY <1>0, <1>00, <2>1 DEF AtHome, Checking
<1>6. CASE SchedBlock(c)
  BY <1>0, <1>00, <1>6 DEF SchedBlock, AtHome, Checking, LocalOK, HasThread, NoReg
<1>7. CASE SchedAccept(c)
  BY <1>0, <1>00, <1>7 DEF SchedAccept, ScheduleSwitchTo, AtHome, Checking, LocalOK, HasThread, NoReg
<1>8. CASE PendingRqqEnqueue(c)
  <2> DEFINE t == reg[c].thr
             h == Home[t]
  <2>1. /\ curr' = curr /\ rqcur' = rqcur /\ slots' = slots /\ ready' = ready
        /\ rqq' = [rqq EXCEPT ![h] = IF Contains(@, t) THEN @ ELSE Append(@, t)]
    BY <1>8 DEF PendingRqqEnqueue
  <2>9. t \in Thread /\ h \in Cpu
    BY <1>0, <1>8, ConstantAssumption DEF PendingRqqEnqueue, LocalOK, HasThread
  <2>8. pc'[c] \in {"sendIpi", "user", "notify", "detachUnlock"}
    BY <1>0, <1>8 DEF PendingRqqEnqueue, LocalOK, CrossCalls
  <2>2. ASSUME NEW g \in Cpu, NEW i \in DOMAIN rqq'[g] PROVE Home[rqq'[g][i]] = g
    <3>1. CASE rqq'[g] = rqq[g]
      BY <1>0, <2>2, <3>1
    <3>2. CASE rqq'[g] # rqq[g]
      <4>1. g = h /\ rqq'[g] = Append(rqq[g], t)
        BY <1>0, <2>1, <2>9, <3>2
      <4> HIDE DEF t
      <4>2. \A j \in DOMAIN Append(rqq[g], t) : Home[Append(rqq[g], t)[j]] = g
        BY <1>0, <2>1, <2>9, <4>1, AppendHome
      <4> QED
        BY <2>2, <4>1, <4>2
    <3> QED
      BY <3>1, <3>2
  <2> QED
    BY <1>0, <1>00, <2>1, <2>2, <2>8 DEF AtHome, Checking
<1>9. CASE SendIpi(c)
  BY <1>0, <1>000, <1>9 DEF SendIpi, LocalOK, CrossCalls, Checking
<1>10. CASE WakeLock(c)
  BY <1>0, <1>00, <1>10 DEF WakeLock, AtHome, Checking, LocalOK, HasThread, NoReg
<1>11. CASE WakeNotify(c)
  <2>1. curr' = curr /\ rqcur' = rqcur /\ rqq' = rqq /\ slots' = slots
    BY <1>11 DEF WakeNotify
  <2>2. pc'[c] \in {"notify", "drain", "enqueue"}
    BY <1>0, <1>11 DEF WakeNotify, RemoteStateChange
  <2>3. \A d \in Cpu : ready'[Idle[d]]
    BY <1>0, <1>11 DEF WakeNotify
  <2> QED
    BY <1>000, <2>1, <2>2, <2>3 DEF Checking
<1>12. CASE WakeDrain(c)
  BY <1>0, <1>00, <1>12 DEF WakeDrain, DrainBegin, DrainErase, DrainEnd, AtHome, Checking, LocalOK, HasThread, NoReg
<1>13. CASE FlipWrite(c)
  BY <1>0, <1>00, <1>13 DEF FlipWrite, AtHome, Checking, LocalOK, HasThread, NoReg
<1>14. CASE FlipTest(c)
  BY <1>0, <1>00, <1>14 DEF FlipTest, AtHome, Checking, LocalOK, HasThread, NoReg
<1>15. CASE QuantExpired(c)
  BY <1>0, <1>00, <1>15 DEF QuantExpired, Fired, Expire, AtHome, Checking, LocalOK, HasThread, NoReg
<1>16. CASE TickEnd(c)
  BY <1>0, <1>00, <1>16 DEF TickEnd, AtHome, Checking, LocalOK, HasThread, NoReg
<1>17. CASE DetachLock(c)
  BY <1>0, <1>00, <1>17 DEF DetachLock, AtHome, Checking, LocalOK, HasThread, NoReg
<1>18. CASE DetachWork(c)
  <2>1. curr' = curr /\ rqcur' = rqcur /\ rqq' = rqq /\ slots' = slots
    BY <1>18 DEF DetachWork
  <2>2. pc'[c] \in {"detachUnlock", "enqueue"}
    BY <1>0, <1>18 DEF DetachWork, RemoteStateChange
  <2>3. \A d \in Cpu : ready'[Idle[d]]
    BY <1>0, <1>18 DEF DetachWork
  <2> QED
    BY <1>000, <2>1, <2>2, <2>3 DEF Checking
<1>19. CASE DetachUnlock(c)
  BY <1>0, <1>00, <1>19 DEF DetachUnlock, AtHome, Checking, LocalOK, HasThread, NoReg
<1>20. CASE Sleep(c)
  BY <1>0, <1>00, <1>20 DEF Sleep, AtHome, Checking, LocalOK, HasThread, NoReg
<1>21. CASE SetPrioIn(c)
  BY <1>0, <1>00, <1>21 DEF SetPrioIn, AtHome, Checking, LocalOK, HasThread, NoReg
<1>22. CASE IpiArrives(c)
  BY <1>0, <1>00, <1>22 DEF IpiArrives, AtHome, Checking, LocalOK, HasThread, NoReg
<1>23. CASE RqqTake(c)
  <2>1. curr' = curr /\ rqcur' = rqcur /\ slots' = slots /\ ready' = ready /\ pc[c] = "rqq"
    BY <1>23 DEF RqqTake
  <2>2. CASE rqq[c] = <<>>
    <3>1. rqq' = rqq /\ pc'[c] \in {"sched", "user"}
      BY <1>0, <1>23, <2>2 DEF RqqTake
    <3> QED
      BY <1>0, <1>000, <2>1, <3>1 DEF Checking
  <2>3. CASE rqq[c] # <<>>
    <3>1. /\ rqq' = [rqq EXCEPT ![c] = Tail(@)] /\ reg'[c].thr = Head(rqq[c])
          /\ pc'[c] = "apply"
      BY <1>0, <1>23, <2>3 DEF RqqTake, Reg
    <3>2. /\ Home[Head(rqq[c])] = c
          /\ \A i \in DOMAIN Tail(rqq[c]) : Home[Tail(rqq[c])[i]] = c
      BY <1>0, <2>3, TailHome
    <3> QED
      BY <1>0, <1>00, <2>1, <3>1, <3>2 DEF AtHome, Checking
  <2> QED
    BY <2>2, <2>3
<1>24. CASE RqqApply(c)
  BY <1>0, <1>00, <1>24 DEF RqqApply, AtHome, Checking, LocalOK, HasThread, NoReg
<1>25. ASSUME NEW x \in SC, FlipRead(c, x)
      PROVE  HomeStepOK(c)
  BY <1>0, <1>00, <1>25 DEF FlipRead, AtHome, Checking, LocalOK, HasThread, NoReg
<1>26. ASSUME NEW x \in SC, OobExpired(c, x)
      PROVE  HomeStepOK(c)
  BY <1>0, <1>00, <1>26 DEF OobExpired, Fired, Expire, AtHome, Checking, LocalOK, HasThread, NoReg
<1>27. ASSUME NEW x \in SC, ReplExpired(c, x)
      PROVE  HomeStepOK(c)
  BY <1>0, <1>00, <1>27 DEF ReplExpired, Fired, Expire, AtHome, Checking, LocalOK, HasThread, NoReg
<1>28. ASSUME NEW x \in SC, WindowExpired(c, x)
      PROVE  HomeStepOK(c)
  BY <1>0, <1>00, <1>28 DEF WindowExpired, Fired, Expire, AtHome, Checking, LocalOK, HasThread, NoReg
<1>29. ASSUME NEW t \in Thread, IpcTimeout(c, t)
      PROVE  HomeStepOK(c)
  BY <1>0, <1>00, <1>29 DEF IpcTimeout, Fired, Expire, AtHome, Checking, LocalOK, HasThread, NoReg
<1>30. ASSUME NEW t \in Thread, NEW x \in SC, Attach(c, t, x)
      PROVE  HomeStepOK(c)
  <2>1. UNCHANGED <<curr, rqcur, rqq, ready, pc, reg>> /\ "attach" \in Ops /\ t \in User
    BY <1>30 DEF Attach
  <2>2. PICK i \in Slot : slots' = [slots EXCEPT ![t][i] = x]
    BY <1>30 DEF Attach
  <2>3. SlotsOK'
    BY <1>0, <2>1, <2>2 DEF SlotsOK, NoConstraint, User
  <2> QED
    BY <1>0, <2>1, <2>3 DEF AtHome
<1>31. ASSUME NEW t \in User, NEW x \in SC, DetachSlot(c, t, x)
      PROVE  HomeStepOK(c)
  <2>1. UNCHANGED <<curr, rqcur, rqq, ready>> /\ pc'[c] = "detachLock"
    BY <1>31 DEF DetachSlot
  <2>2. PICK i \in Slot : slots' = [slots EXCEPT ![t][i] = Nil]
    BY <1>31 DEF DetachSlot
  <2>3. SlotsOK'
    BY <1>0, <2>2 DEF SlotsOK, NoConstraint, User
  <2> QED
    BY <1>0, <2>1, <2>3 DEF AtHome, Checking
<1>32. ASSUME NEW t \in Thread, WakeRemote(c, t)
      PROVE  HomeStepOK(c)
  BY <1>0, <1>00, <1>32 DEF WakeRemote, RemoteStateChange, CanWake, AtHome, Checking, LocalOK, HasThread, NoReg
<1>33. ASSUME NEW t \in Thread, WakeSwitch(c, t)
      PROVE  HomeStepOK(c)
  BY <1>0, <1>00, <1>33 DEF WakeSwitch, CanWake, AtHome, Checking, LocalOK, HasThread, NoReg
<1>34. ASSUME NEW t \in Thread, WakeLazy(c, t)
      PROVE  HomeStepOK(c)
  BY <1>0, <1>00, <1>34 DEF WakeLazy, CanWake, ScheduleSwitchTo, AtHome, Checking, LocalOK, HasThread, NoReg
<1>35. ASSUME NEW t \in User, NEW p \in Prio, SetPrioOut(c, t, p)
      PROVE  HomeStepOK(c)
  BY <1>0, <1>00, <1>35 DEF SetPrioOut, AtHome, Checking, LocalOK, HasThread, NoReg
<1> QED
  BY <1>1, <1>2, <1>3, <1>4, <1>5, <1>6, <1>7, <1>8, <1>9, <1>10, <1>11, <1>12, <1>13, <1>14, <1>15, <1>16, <1>17, <1>18, <1>19, <1>20, <1>21, <1>22, <1>23, <1>24, <1>25, <1>26, <1>27, <1>28, <1>29, <1>30, <1>31, <1>32, <1>33, <1>34, <1>35
     DEF Step, Schedule, WakeUpAllBlocked, Flip, Timer, Detach, Ipc, SetPrio,
         HandleRequests

-----------------------------------------------------------------------------
(* The lists, step by step.                                                 *)

PlacedNow(w) == Placed(hook, rq, blocked, w, prio)

\* What the dispatcher of c has looked at and what it runs is not blocked.
LinkOK(c, w) ==
    /\ pc[c] \in Checking => w[reg[c].thr] = Nil
    /\ pc[c] \notin Picking => w[rqcur[c]] = Nil
    /\ w[Idle[c]] = Nil

\* The idle thread is queued whenever it does not run.
IdleOK(c) == InList(hook, Idle[c]) \/ (curr[c] = Idle[c] /\ pc[c] \notin Picking)

\* erase() meets the end of the list as long as it takes the first one out.
DrainOK(c) ==
    pc[c] = "drain" /\ reg[c].it # Nil =>
       reg[c].it = blocked[reg[c].sc] /\ reg[c].hd = reg[c].it

\* wake_up_all_blocked() finds one context, or none, in the list it empties.
DrainsOne ==
    \A c \in Cpu : pc[c] = "drain" =>
       \A t, u \in Members(hook, blocked[reg[c].sc]) : t = u

InPlace(w) ==
    /\ PlacedNow(w)
    /\ NoConstraint => \A t \in Thread : w[t] = Nil
    /\ \A c \in Cpu : LinkOK(c, w)

PlaceInv ==
    /\ \A c \in Cpu : AtHome(c) /\ IdleOK(c) /\ DrainOK(c)
    /\ SlotsOK
    /\ \E w : InPlace(w)

LEMMA PlacedType ==
    ASSUME NEW w, PlacedNow(w)
    PROVE  /\ hook \in Hook(Thread) /\ rq \in [Cpu -> Rq(Thread)]
           /\ blocked \in [SC -> OrNil(Thread)] /\ w \in [Thread -> OrNil(SC)]
           /\ prio \in [Thread -> Prio]
           /\ \A t \in Thread : w[t] # Nil => InList(hook, t)
BY DEF PlacedNow, Placed

LEMMA ListsEnqueue ==
    ASSUME NEW w, PlacedNow(w), NEW t \in Thread, NEW d \in Cpu, d = Home[t],
           SetRq(d, EnqueueOn(d, t)), blocked' = blocked, prio' = prio
    PROVE  PlacedNow(w)' /\ LinkedToo(hook, hook', t)
<1> DEFINE r == EnqueueOn(d, t)
<1>1. hook' = r.hook /\ rq' = [rq EXCEPT ![d] = r.rq]
  BY DEF SetRq
<1>2. r = Enqueue(hook, rq[d], t, prio[t], "Front")
  BY DEF EnqueueOn, ReadyEnqueue
<1> HIDE DEF r
<1>3. LET z == Enqueue(hook, rq[d], t, prio[t], "Front")
      IN  /\ Placed(z.hook, [rq EXCEPT ![d] = z.rq], blocked, w, prio)
          /\ LinkedToo(hook, z.hook, t)
  BY PlacedEnqueue DEF PlacedNow
<1> QED
  BY <1>1, <1>2, <1>3 DEF PlacedNow

LEMMA ListsDequeue ==
    ASSUME NEW w, PlacedNow(w), NEW t \in Thread, NEW d \in Cpu, d = Home[t], w[t] = Nil,
           SetRq(d, DequeueOn(d, t)), blocked' = blocked, prio' = prio
    PROVE  PlacedNow(w)' /\ LinkedNot(hook, hook', t)
<1> DEFINE r == DequeueOn(d, t)
<1>1. hook' = r.hook /\ rq' = [rq EXCEPT ![d] = r.rq]
  BY DEF SetRq
<1>2. r = ReadyDequeue(hook, rq[d], t, prio[t])
  BY DEF DequeueOn
<1> HIDE DEF r
<1>3. LET z == ReadyDequeue(hook, rq[d], t, prio[t])
      IN  /\ Placed(z.hook, [rq EXCEPT ![d] = z.rq], blocked, w, prio)
          /\ LinkedNot(hook, z.hook, t)
  BY PlacedDequeue DEF PlacedNow
<1> QED
  BY <1>1, <1>2, <1>3 DEF PlacedNow

LEMMA ListsUpdate ==
    ASSUME NEW w, PlacedNow(w), NEW c \in Cpu, curr[c] \in Thread, Home[curr[c]] = c,
           UpdateReadyList(c), blocked' = blocked, prio' = prio
    PROVE  /\ PlacedNow(w)'
           /\ \A x \in Thread : InList(hook', x) <=> InList(hook, x) \/ (x = curr[c] /\ ready[x])
<1>1. CASE ready[curr[c]]
  <2>1. SetRq(c, EnqueueOn(c, curr[c]))
    BY <1>1 DEF UpdateReadyList
  <2>2. PlacedNow(w)' /\ LinkedToo(hook, hook', curr[c])
    BY <2>1, ListsEnqueue
  <2> QED
    BY <1>1, <2>2 DEF LinkedToo
<1>2. CASE ~ ready[curr[c]]
  <2>1. hook' = hook /\ rq' = rq
    BY <1>2 DEF UpdateReadyList, lists
  <2> QED
    BY <1>2, <2>1 DEF PlacedNow
<1> QED
  BY <1>1, <1>2

\* block(): from the ready queue to the blocked list
LEMMA ListsBlock ==
    ASSUME NEW w, PlacedNow(w), NEW c \in Cpu, SchedBlock(c),
           NEW t \in Thread, reg[c].thr = t, Home[t] = c, NEW s \in SC, reg[c].sc = s,
           w[t] = Nil
    PROVE  PlacedNow([w EXCEPT ![t] = s])' /\ LinkedToo(hook, hook', t)
<1> DEFINE out == DequeueOn(c, t)
           in  == Push(out.hook, blocked[s], t, "Back")
           q   == [rq EXCEPT ![c] = out.rq]
<1>1. /\ rq' = q /\ hook' = in.hook
      /\ blocked' = [blocked EXCEPT ![s] = in.head] /\ prio' = prio
  BY DEF SchedBlock, threads
<1>2. out = ReadyDequeue(hook, rq[c], t, prio[t])
  BY DEF DequeueOn
<1> HIDE DEF out
<1>4. LET z == ReadyDequeue(hook, rq[c], t, prio[t])
      IN  /\ Placed(z.hook, [rq EXCEPT ![c] = z.rq], blocked, w, prio)
          /\ LinkedNot(hook, z.hook, t)
  BY PlacedDequeue DEF PlacedNow
<1>5. Placed(out.hook, q, blocked, w, prio) /\ LinkedNot(hook, out.hook, t)
  BY <1>2, <1>4
<1>6. ~ InList(out.hook, t)
  BY <1>5 DEF LinkedNot
<1> HIDE DEF q
<1>7. /\ Placed(in.hook, q, [blocked EXCEPT ![s] = in.head], [w EXCEPT ![t] = s], prio)
      /\ LinkedToo(out.hook, in.hook, t)
  BY <1>5, <1>6, PlacedAdd
<1> HIDE DEF in
<1>8. PlacedNow([w EXCEPT ![t] = s])' /\ LinkedToo(hook, hook', t)
  BY <1>1, <1>5, <1>7 DEF PlacedNow, LinkedToo, LinkedNot
<1> QED
  BY <1>8

\* The second loop of wake_up_all_blocked(): off the blocked list
LEMMA ListsTake ==
    ASSUME NEW w, PlacedNow(w), NEW s \in SC, NEW t \in Thread, w[t] = s,
           hook' = RemoveItem(hook, blocked[s], t).hook, rq' = rq,
           blocked' = [blocked EXCEPT ![s] = RemoveItem(hook, blocked[s], t).head],
           prio' = prio
    PROVE  PlacedNow([w EXCEPT ![t] = Nil])' /\ LinkedNot(hook, hook', t)
<1> DEFINE r == RemoveItem(hook, blocked[s], t)
<1>1. /\ Placed(r.hook, rq, [blocked EXCEPT ![s] = r.head], [w EXCEPT ![t] = Nil], prio)
      /\ LinkedNot(hook, r.hook, t)
  BY PlacedTake DEF PlacedNow
<1>2. hook' = r.hook /\ blocked' = [blocked EXCEPT ![s] = r.head]
  OBVIOUS
<1> HIDE DEF r
<1> QED
  BY <1>1, <1>2 DEF PlacedNow

\* deblock() of a constraint: from the blocked list to the ready queue
LEMMA ListsRelease ==
    ASSUME NEW w, PlacedNow(w), NEW s \in SC, NEW t \in Thread, w[t] = s,
           NEW c \in Cpu, c = Home[t],
           hook' = ReadyEnqueue(RemoveItem(hook, blocked[s], t).hook, rq[c], t, prio[t]).hook,
           rq' = [rq EXCEPT ![c] =
                    ReadyEnqueue(RemoveItem(hook, blocked[s], t).hook, rq[c], t, prio[t]).rq],
           blocked' = [blocked EXCEPT ![s] = RemoveItem(hook, blocked[s], t).head],
           prio' = prio
    PROVE  PlacedNow([w EXCEPT ![t] = Nil])' /\ LinkedToo(hook, hook', t)
<1> DEFINE r == RemoveItem(hook, blocked[s], t)
           b == [blocked EXCEPT ![s] = r.head]
           v == [w EXCEPT ![t] = Nil]
           q == Enqueue(r.hook, rq[c], t, prio[t], "Front")
<1>1. Placed(r.hook, rq, b, v, prio) /\ LinkedNot(hook, r.hook, t)
  BY PlacedTake DEF PlacedNow
<1>2. hook' = q.hook /\ rq' = [rq EXCEPT ![c] = q.rq] /\ blocked' = b
  BY DEF ReadyEnqueue
<1> HIDE DEF r, b, v
<1>3. Placed(q.hook, [rq EXCEPT ![c] = q.rq], b, v, prio) /\ LinkedToo(r.hook, q.hook, t)
  BY <1>1, PlacedEnqueue
<1> HIDE DEF q
<1>4. PlacedNow(v)' /\ LinkedToo(hook, hook', t)
  <2>1. InList(hook, t)
    BY PlacedType, ThreadsFinite
  <2> QED
    BY <1>1, <1>2, <1>3, <2>1 DEF PlacedNow, LinkedToo, LinkedNot
<1> QED
  BY <1>4 DEF v

\* The quantum is over: to the back
LEMMA ListsRequeue ==
    ASSUME NEW w, PlacedNow(w), NEW t \in Thread, NEW c \in Cpu, c = Home[t], w[t] = Nil,
           SetRq(c, Requeue(hook, rq[c], t, prio[t])), blocked' = blocked, prio' = prio
    PROVE  PlacedNow(w)' /\ LinkedToo(hook, hook', t)
<1> DEFINE r == Requeue(hook, rq[c], t, prio[t])
<1>1. hook' = r.hook /\ rq' = [rq EXCEPT ![c] = r.rq]
  BY DEF SetRq
<1> HIDE DEF r
<1>2. /\ Placed(r.hook, [rq EXCEPT ![c] = r.rq], blocked, w, prio)
      /\ LinkedToo(hook, r.hook, t)
  BY PlacedRequeue DEF PlacedNow, r
<1> QED
  BY <1>1, <1>2 DEF PlacedNow

\* change_prio_to(), first half
LEMMA ListsReprio ==
    ASSUME NEW w, PlacedNow(w), NEW c \in Cpu, NEW t \in User, NEW p \in Prio,
           SetPrioOut(c, t, p), w[t] = Nil
    PROVE  PlacedNow(w)' /\ LinkedNot(hook, hook', t)
<1>1. /\ prio' = [prio EXCEPT ![t] = p] /\ blocked' = blocked
      /\ IF InList(hook, t) THEN SetRq(Home[t], DequeueOn(Home[t], t)) ELSE UNCHANGED lists
      /\ t \in Thread /\ Home[t] \in Cpu
  BY ConstantAssumption DEF SetPrioOut, User
<1> DEFINE r == ReadyDequeue(hook, rq[Home[t]], t, prio[t])
<1>2. hook' = r.hook /\ rq' = [rq EXCEPT ![Home[t]] = r.rq]
  <2>1. CASE InList(hook, t)
    BY <1>1, <2>1 DEF SetRq, DequeueOn
  <2>2. CASE ~ InList(hook, t)
    <3>1. hook' = hook /\ rq' = rq /\ r.hook = hook /\ r.rq = rq[Home[t]]
      BY <1>1, <2>2 DEF lists, ReadyDequeue
    <3>2. rq \in [Cpu -> Rq(Thread)]
      BY PlacedType
    <3> QED
      BY <1>1, <3>1, <3>2
  <2> QED
    BY <2>1, <2>2
<1> HIDE DEF r
<1>3. /\ Placed(r.hook, [rq EXCEPT ![Home[t]] = r.rq], blocked, w, prio)
      /\ LinkedNot(hook, r.hook, t)
  BY <1>1, PlacedDequeue DEF PlacedNow, r
<1>4. Placed(hook', rq', blocked, w, prio) /\ LinkedNot(hook, hook', t)
  BY <1>2, <1>3
<1>5. ~ InList(hook', t)
  BY <1>1, <1>4 DEF LinkedNot
<1>6. Placed(hook', rq', blocked, w, [prio EXCEPT ![t] = p])
  BY <1>1, <1>4, <1>5, PlacedReprio
<1> QED
  BY <1>1, <1>4, <1>6 DEF PlacedNow

-----------------------------------------------------------------------------
\* What a step of c does to the lists.
ListStepOK(c, w, v) ==
    /\ PlacedNow(v)'
    /\ \A t \in Thread : v[t] # w[t] =>
          \/ v[t] = Nil
          \/ pc[c] = "block" /\ t = reg[c].thr /\ t \in User /\ v[t] = reg[c].sc
    /\ \A d \in Cpu : InList(hook, Idle[d]) => InList(hook', Idle[d])
    /\ pc[c] = "sched" /\ ready[curr[c]] => InList(hook', curr[c])

LEMMA ListStep ==
    ASSUME PathsOK, StateOK, LocalsOK, NEW c \in Cpu, Step(c), Orderly,
           \A d \in Cpu : AtHome(d), DrainOK(c),
           NEW w, PlacedNow(w), NoConstraint => \A t \in Thread : w[t] = Nil,
           \A d \in Cpu : LinkOK(d, w)
    PROVE  \E v : ListStepOK(c, w, v)
<1> USE DEF lists
<1>0. /\ LocalOK(c) /\ AtHome(c) /\ LinkOK(c, w)
      /\ \A d \in Cpu : Idle[d] \in Thread /\ Idle[d] \notin User /\ w[Idle[d]] = Nil
      /\ \A d \in Cpu : ready[Idle[d]]
      /\ User \subseteq Thread /\ \A t \in Thread : Home[t] \in Cpu
      /\ curr \in [Cpu -> Thread] /\ rqcur \in [Cpu -> Thread]
      /\ reg \in [Cpu -> Reg]
      /\ w \in [Thread -> OrNil(SC)]
      /\ \A t \in Thread : w[t] # Nil => InList(hook, t)
      /\ Nil \notin SC
      /\ Home[curr[c]] = c /\ Home[rqcur[c]] = c
      /\ prio \in [Thread -> Prio]
  BY ConstantAssumption, PlacedType DEF LocalsOK, StateOK, PathsOK, AtHome, LinkOK, User
<1>00. ASSUME hook' = hook, rq' = rq, blocked' = blocked, prio' = prio, pc[c] # "sched"
       PROVE  \E v : ListStepOK(c, w, v)
  <2>1. ListStepOK(c, w, w)
    BY <1>00 DEF ListStepOK, PlacedNow
  <2> QED
    BY <2>1
<1>000. ASSUME NEW t \in Thread, SetRq(Home[t], EnqueueOn(Home[t], t)),
               blocked' = blocked, prio' = prio, pc[c] # "sched"
        PROVE  \E v : ListStepOK(c, w, v)
  <2>1. PlacedNow(w)' /\ LinkedToo(hook, hook', t)
    BY <1>0, <1>000, ListsEnqueue
  <2>2. ListStepOK(c, w, w)
    BY <1>0, <1>000, <2>1 DEF ListStepOK, LinkedToo
  <2> QED
    BY <2>2
<1>0000. ASSUME UpdateReadyList(c), blocked' = blocked, prio' = prio
         PROVE  \E v : ListStepOK(c, w, v)
  <2>1. /\ PlacedNow(w)'
        /\ \A x \in Thread : InList(hook', x) <=> InList(hook, x) \/ (x = curr[c] /\ ready[x])
    BY <1>0, <1>0000, ListsUpdate
  <2>2. ListStepOK(c, w, w)
    BY <1>0, <2>1 DEF ListStepOK
  <2> QED
    BY <2>2
<1>00000. ASSUME NEW t \in Thread, NEW s \in SC, w[t] = s, PlacedNow([w EXCEPT ![t] = Nil])',
                 LinkedNot(hook, hook', t) \/ LinkedToo(hook, hook', t), pc[c] # "sched"
          PROVE  \E v : ListStepOK(c, w, v)
  <2> DEFINE v == [w EXCEPT ![t] = Nil]
  <2>1. \A x \in Thread : v[x] # w[x] => v[x] = Nil
    BY <1>0
  <2>2. PlacedNow(v)'
    BY <1>00000
  <2> HIDE DEF v
  <2>3. ListStepOK(c, w, v)
    BY <1>0, <1>00000, <2>1, <2>2, ThreadsFinite DEF ListStepOK, LinkedNot, LinkedToo
  <2> QED
    BY <2>3

<1>1. CASE SchedEnter(c)
  BY <1>0000, <1>1 DEF SchedEnter, threads
<1>2. CASE SchedPick(c)
  BY <1>00, <1>2 DEF SchedPick, threads
<1>3. CASE SchedCheck(c)
  BY <1>00, <1>3 DEF SchedCheck, threads
<1>4. CASE SchedLock(c)
  BY <1>00, <1>4 DEF SchedLock, threads
<1>5. CASE SchedRecheck(c)
  BY <1>00, <1>5 DEF SchedRecheck, threads
<1>6. CASE SchedBlock(c)
  <2>1. /\ reg[c].thr \in Thread /\ Home[reg[c].thr] = c /\ reg[c].sc \in SC
        /\ w[reg[c].thr] = Nil /\ reg[c].thr \in User /\ pc[c] = "block"
    BY <1>0, <1>6 DEF SchedBlock, LocalOK, HasThread, HasSC, AtHome, LinkOK, Checking
  <2>2. PICK t \in Thread, s \in SC : t = reg[c].thr /\ s = reg[c].sc
    BY <2>1
  <2> DEFINE v == [w EXCEPT ![t] = s]
  <2>3. PlacedNow(v)' /\ LinkedToo(hook, hook', t)
    BY <1>6, <2>1, <2>2, ListsBlock
  <2>4. v[t] = s /\ \A x \in Thread : v[x] # w[x] => x = t
    BY <1>0
  <2> HIDE DEF v
  <2>5. ListStepOK(c, w, v)
    BY <1>0, <2>1, <2>2, <2>3, <2>4 DEF ListStepOK, LinkedToo
  <2> QED
    BY <2>5
<1>7. CASE SchedAccept(c)
  <2>1. blocked' = blocked /\ prio' = prio /\ pc[c] = "check"
    BY <1>7 DEF SchedAccept, threads
  <2>2. CASE ready[reg[c].thr] /\ reg[c].thr = curr[c]
    BY <1>00, <1>7, <2>1, <2>2 DEF SchedAccept
  <2>3. CASE ready[reg[c].thr] /\ reg[c].thr # curr[c]
    BY <1>0000, <1>7, <2>1, <2>3 DEF SchedAccept
  <2>4. CASE ~ ready[reg[c].thr]
    <3>1. PICK t \in Thread : t = reg[c].thr /\ Home[t] = c /\ w[t] = Nil
      BY <1>0, <2>1 DEF LocalOK, HasThread, AtHome, LinkOK, Checking
    <3>2. SetRq(c, DequeueOn(c, t))
      BY <1>7, <2>4, <3>1 DEF SchedAccept
    <3>3. PlacedNow(w)' /\ LinkedNot(hook, hook', t)
      BY <2>1, <3>1, <3>2, ListsDequeue
    <3>4. \A d \in Cpu : Idle[d] # t
      BY <1>0, <2>4, <3>1
    <3>5. ListStepOK(c, w, w)
      BY <1>0, <2>1, <3>3, <3>4 DEF ListStepOK, LinkedNot
    <3> QED
      BY <3>5
  <2> QED
    BY <2>2, <2>3, <2>4
<1>8. CASE PendingRqqEnqueue(c)
  BY <1>00, <1>8 DEF PendingRqqEnqueue, threads
<1>9. CASE SendIpi(c)
  BY <1>00, <1>9 DEF SendIpi, threads
<1>10. CASE WakeLock(c)
  BY <1>00, <1>10 DEF WakeLock, threads
<1>11. CASE WakeNotify(c)
  <2>1. blocked' = blocked /\ prio' = prio /\ pc[c] = "notify"
    BY <1>11 DEF WakeNotify, threads
  <2>2. CASE reg[c].it # Nil /\ Home[reg[c].it] = c
    <3>1. reg[c].it \in Thread /\ SetRq(c, EnqueueOn(c, reg[c].it))
      BY <1>0, <1>11, <2>2 DEF WakeNotify, Reg, OrNil
    <3> QED
      BY <1>000, <2>1, <2>2, <3>1
  <2>3. CASE ~ (reg[c].it # Nil /\ Home[reg[c].it] = c)
    <3>1. hook' = hook /\ rq' = rq
      BY <1>11, <2>3 DEF WakeNotify
    <3> QED
      BY <1>00, <2>1, <3>1
  <2> QED
    BY <2>2, <2>3
<1>12. CASE WakeDrain(c)
  <2>1. rq' = rq /\ prio' = prio /\ pc[c] = "drain" /\ reg[c].sc \in SC
    BY <1>0, <1>12 DEF WakeDrain, DrainBegin, DrainErase, DrainEnd, threads, LocalOK, HasSC
  <2>2. PICK s \in SC : s = reg[c].sc
    BY <2>1
  <2>3. CASE DrainBegin(c) \/ DrainEnd(c)
    <3>1. hook' = hook /\ blocked' = blocked
      BY <2>3 DEF DrainBegin, DrainEnd
    <3> QED
      BY <1>00, <2>1, <3>1
  <2>4. CASE DrainErase(c)
    <3>1. reg[c].it # Nil /\ reg[c].it = blocked[s]
      BY <2>1, <2>2, <2>4 DEF DrainErase, DrainOK
    <3>2. blocked[s] \in Thread /\ w[blocked[s]] = s
      BY <3>1, PlacedFacts DEF PlacedNow
    <3>3. PICK t \in Thread : t = blocked[s]
      BY <3>2
    <3>4. /\ hook' = RemoveItem(hook, blocked[s], t).hook
          /\ blocked' = [blocked EXCEPT ![s] = RemoveItem(hook, blocked[s], t).head]
      BY <2>2, <2>4, <3>1, <3>3 DEF DrainErase
    <3>5. PlacedNow([w EXCEPT ![t] = Nil])' /\ LinkedNot(hook, hook', t)
      BY <2>1, <3>2, <3>3, <3>4, ListsTake
    <3> QED
      BY <1>00000, <2>1, <3>2, <3>3, <3>5
  <2> QED
    BY <1>12, <2>3, <2>4 DEF WakeDrain
<1>13. CASE FlipWrite(c)
  BY <1>00, <1>13 DEF FlipWrite, threads
<1>14. CASE FlipTest(c)
  BY <1>00, <1>14 DEF FlipTest, threads
<1>15. CASE QuantExpired(c)
  <2>1. PICK t \in Thread : t = rqcur[c]
    BY <1>0
  <2>2. /\ blocked' = blocked /\ prio' = prio /\ pc[c] \in {"user", "tick"}
        /\ SetRq(c, Requeue(hook, rq[c], t, prio[t]))
    BY <1>15, <2>1 DEF QuantExpired, threads, Expire
  <2>3. w[t] = Nil /\ Home[t] = c
    BY <1>0, <2>1, <2>2 DEF LinkOK, Picking, Checking
  <2>4. PlacedNow(w)' /\ LinkedToo(hook, hook', t)
    BY <2>2, <2>3, ListsRequeue
  <2>5. ListStepOK(c, w, w)
    BY <1>0, <2>2, <2>4 DEF ListStepOK, LinkedToo
  <2> QED
    BY <2>5
<1>16. CASE TickEnd(c)
  BY <1>00, <1>16 DEF TickEnd, threads
<1>17. CASE DetachLock(c)
  BY <1>00, <1>17 DEF DetachLock, threads
<1>18. CASE DetachWork(c)
  <2>1. prio' = prio /\ pc[c] = "detachWork" /\ reg[c].sc \in SC /\ reg[c].thr \in Thread
    BY <1>0, <1>18 DEF DetachWork, threads, LocalOK, HasSC, HasThread
  <2>2. PICK s \in SC, t \in Thread : s = reg[c].sc /\ t = reg[c].thr
    BY <2>1
  <2>3. CASE t \notin Members(hook, blocked[s])
    <3>1. hook' = hook /\ blocked' = blocked /\ rq' = rq
      BY <1>18, <2>2, <2>3 DEF DetachWork
    <3> QED
      BY <1>00, <2>1, <3>1
  <2>4. CASE t \in Members(hook, blocked[s])
    <3>1. w[t] = s
      BY <2>4, PlacedFacts DEF PlacedNow, InBlocked
    <3>2. CASE Home[t] = c
      <4>1. /\ hook' = ReadyEnqueue(RemoveItem(hook, blocked[s], t).hook, rq[c], t, prio[t]).hook
            /\ rq' = [rq EXCEPT ![c] =
                        ReadyEnqueue(RemoveItem(hook, blocked[s], t).hook, rq[c], t, prio[t]).rq]
            /\ blocked' = [blocked EXCEPT ![s] = RemoveItem(hook, blocked[s], t).head]
        BY <1>18, <2>2, <2>4, <3>2 DEF DetachWork, SetRq
      <4>2. PlacedNow([w EXCEPT ![t] = Nil])' /\ LinkedToo(hook, hook', t)
        BY <2>1, <3>1, <3>2, <4>1, ListsRelease
      <4> QED
        BY <1>00000, <2>1, <3>1, <4>2
    <3>3. CASE Home[t] # c
      <4>1. /\ hook' = RemoveItem(hook, blocked[s], t).hook /\ rq' = rq
            /\ blocked' = [blocked EXCEPT ![s] = RemoveItem(hook, blocked[s], t).head]
        BY <1>18, <2>2, <2>4, <3>3 DEF DetachWork
      <4>2. PlacedNow([w EXCEPT ![t] = Nil])' /\ LinkedNot(hook, hook', t)
        BY <2>1, <3>1, <4>1, ListsTake
      <4> QED
        BY <1>00000, <2>1, <3>1, <4>2
    <3> QED
      BY <3>2, <3>3
  <2> QED
    BY <2>3, <2>4
<1>19. CASE DetachUnlock(c)
  BY <1>00, <1>19 DEF DetachUnlock, threads
<1>20. CASE Sleep(c)
  BY <1>00, <1>20 DEF Sleep, threads
<1>21. CASE SetPrioIn(c)
  <2>1. /\ reg[c].thr \in Thread /\ blocked' = blocked /\ prio' = prio /\ pc[c] # "sched"
        /\ SetRq(Home[reg[c].thr], EnqueueOn(Home[reg[c].thr], reg[c].thr))
    BY <1>0, <1>21 DEF SetPrioIn, threads, LocalOK, HasThread
  <2> QED
    BY <1>000, <2>1
<1>22. CASE IpiArrives(c)
  BY <1>00, <1>22 DEF IpiArrives, threads
<1>23. CASE RqqTake(c)
  BY <1>00, <1>23 DEF RqqTake, threads
<1>24. CASE RqqApply(c)
  <2>1. reg[c].thr \in Thread /\ Home[reg[c].thr] = c /\ blocked' = blocked /\ prio' = prio /\ pc[c] # "sched"
    BY <1>0, <1>24 DEF RqqApply, threads, LocalOK, HasThread, AtHome
  <2>2. \/ SetRq(c, EnqueueOn(c, reg[c].thr))
        \/ hook' = hook /\ rq' = rq
    BY <1>24 DEF RqqApply
  <2> QED
    BY <1>00, <1>000, <2>1, <2>2
<1>25. ASSUME NEW x \in SC, FlipRead(c, x)
      PROVE  \E v : ListStepOK(c, w, v)
  BY <1>00, <1>25 DEF FlipRead, threads
<1>26. ASSUME NEW x \in SC, OobExpired(c, x)
      PROVE  \E v : ListStepOK(c, w, v)
  BY <1>00, <1>26 DEF OobExpired, Fired, Expire, threads
<1>27. ASSUME NEW x \in SC, ReplExpired(c, x)
      PROVE  \E v : ListStepOK(c, w, v)
  BY <1>00, <1>27 DEF ReplExpired, Fired, Expire, threads
<1>28. ASSUME NEW x \in SC, WindowExpired(c, x)
      PROVE  \E v : ListStepOK(c, w, v)
  BY <1>00, <1>28 DEF WindowExpired, Fired, Expire, threads
<1>29. ASSUME NEW t \in Thread, IpcTimeout(c, t)
      PROVE  \E v : ListStepOK(c, w, v)
  BY <1>0, <1>000, <1>29 DEF IpcTimeout, threads, Expire
<1>30. ASSUME NEW t \in Thread, NEW x \in SC, Attach(c, t, x)
      PROVE  \E v : ListStepOK(c, w, v)
  BY <1>00, <1>30 DEF Attach, threads
<1>31. ASSUME NEW t \in User, NEW x \in SC, DetachSlot(c, t, x)
      PROVE  \E v : ListStepOK(c, w, v)
  BY <1>00, <1>31 DEF DetachSlot, threads
<1>32. ASSUME NEW t \in Thread, WakeRemote(c, t)
      PROVE  \E v : ListStepOK(c, w, v)
  BY <1>00, <1>32 DEF WakeRemote, threads, CanWake
<1>33. ASSUME NEW t \in Thread, WakeSwitch(c, t)
      PROVE  \E v : ListStepOK(c, w, v)
  BY <1>0000, <1>33 DEF WakeSwitch, threads, CanWake
<1>34. ASSUME NEW t \in Thread, WakeLazy(c, t)
      PROVE  \E v : ListStepOK(c, w, v)
  <2>1. /\ blocked' = blocked /\ prio' = prio /\ pc[c] = "user" /\ Home[t] = c
        /\ UpdateReadyList(c) \/ SetRq(c, EnqueueOn(c, t))
    BY <1>34 DEF WakeLazy, threads, CanWake
  <2> QED
    BY <1>000, <1>0000, <2>1
<1>35. ASSUME NEW t \in User, NEW p \in Prio, SetPrioOut(c, t, p)
      PROVE  \E v : ListStepOK(c, w, v)
  <2>1. NoConstraint /\ pc[c] = "user"
    BY <1>35 DEF SetPrioOut, Orderly
  <2>2. t \in Thread /\ w[t] = Nil
    BY <1>0, <2>1
  <2>3. PlacedNow(w)' /\ LinkedNot(hook, hook', t)
    BY <1>35, <2>2, ListsReprio
  <2>4. ListStepOK(c, w, w)
    BY <1>0, <2>1, <2>3 DEF ListStepOK, LinkedNot
  <2> QED
    BY <2>4
<1> QED
  BY <1>1, <1>2, <1>3, <1>4, <1>5, <1>6, <1>7, <1>8, <1>9, <1>10, <1>11, <1>12, <1>13, <1>14, <1>15, <1>16, <1>17, <1>18, <1>19, <1>20, <1>21, <1>22, <1>23, <1>24, <1>25, <1>26, <1>27, <1>28, <1>29, <1>30, <1>31, <1>32, <1>33, <1>34, <1>35
     DEF Step, Schedule, WakeUpAllBlocked, Flip, Timer, Detach, Ipc, SetPrio,
         HandleRequests

-----------------------------------------------------------------------------
\* What a step of c does to the context it looks at and to the one it runs.
PathStepOK(c) ==
    /\ pc'[c] \in Checking =>
          \/ pc[c] \in Checking /\ reg'[c].thr = reg[c].thr
          \/ /\ pc[c] = "pick" /\ NextToRun(rq[c]) # Nil
             /\ reg'[c].thr = NextToRun(rq[c])
    /\ pc'[c] \notin Picking =>
          \/ pc[c] \notin Picking /\ rqcur'[c] = rqcur[c]
          \/ pc[c] = "check" /\ rqcur'[c] = reg[c].thr
          \/ NoConstraint
    /\ pc[c] = "block" => pc'[c] = "pick"
    /\ pc[c] \notin Picking =>
          \/ curr'[c] = curr[c] /\ (pc'[c] \notin Picking \/ pc[c] = "sched")
          \/ curr[c] \in User

LEMMA PathStep ==
    ASSUME PathsOK, StateOK, LocalsOK, NEW c \in Cpu, Step(c), Orderly
    PROVE  PathStepOK(c)
<1> USE DEF PathsOK, Goto, Return, PathStepOK, runs, Picking, Checking
<1>0. /\ LocalOK(c) /\ curr \in [Cpu -> Thread] /\ rqcur \in [Cpu -> Thread] /\ reg[c] \in Reg
  BY DEF LocalsOK, StateOK

<1>1. CASE SchedEnter(c)
  BY <1>0, <1>1 DEF SchedEnter
<1>2. CASE SchedPick(c)
  BY <1>0, <1>2 DEF SchedPick, NoReg
<1>3. CASE SchedCheck(c)
  BY <1>0, <1>3 DEF SchedCheck, Reg
<1>4. CASE SchedLock(c)
  BY <1>0, <1>4 DEF SchedLock
<1>5. CASE SchedRecheck(c)
  BY <1>0, <1>5 DEF SchedRecheck, Reg
<1>6. CASE SchedBlock(c)
  BY <1>0, <1>6 DEF SchedBlock
<1>7. CASE SchedAccept(c)
  BY <1>0, <1>7 DEF SchedAccept, ScheduleSwitchTo
<1>8. CASE PendingRqqEnqueue(c)
  BY <1>0, <1>8 DEF PendingRqqEnqueue, LocalOK, CrossCalls
<1>9. CASE SendIpi(c)
  BY <1>0, <1>9 DEF SendIpi, LocalOK, CrossCalls
<1>10. CASE WakeLock(c)
  BY <1>0, <1>10 DEF WakeLock
<1>11. CASE WakeNotify(c)
  BY <1>0, <1>11 DEF WakeNotify, RemoteStateChange
<1>12. CASE WakeDrain(c)
  BY <1>0, <1>12 DEF WakeDrain, DrainBegin, DrainErase, DrainEnd, LocalOK
<1>13. CASE FlipWrite(c)
  BY <1>0, <1>13 DEF FlipWrite
<1>14. CASE FlipTest(c)
  BY <1>0, <1>14 DEF FlipTest
<1>15. CASE QuantExpired(c)
  BY <1>0, <1>15 DEF QuantExpired, Fired, Expire
<1>16. CASE TickEnd(c)
  BY <1>0, <1>16 DEF TickEnd
<1>17. CASE DetachLock(c)
  BY <1>0, <1>17 DEF DetachLock
<1>18. CASE DetachWork(c)
  BY <1>0, <1>18 DEF DetachWork, RemoteStateChange
<1>19. CASE DetachUnlock(c)
  BY <1>0, <1>19 DEF DetachUnlock
<1>20. CASE Sleep(c)
  BY <1>0, <1>20 DEF Sleep
<1>21. CASE SetPrioIn(c)
  BY <1>0, <1>21 DEF SetPrioIn
<1>22. CASE IpiArrives(c)
  BY <1>0, <1>22 DEF IpiArrives
<1>23. CASE RqqTake(c)
  BY <1>0, <1>23 DEF RqqTake
<1>24. CASE RqqApply(c)
  BY <1>0, <1>24 DEF RqqApply
<1>25. ASSUME NEW x \in SC, FlipRead(c, x)
      PROVE  PathStepOK(c)
  BY <1>0, <1>25 DEF FlipRead
<1>26. ASSUME NEW x \in SC, OobExpired(c, x)
      PROVE  PathStepOK(c)
  BY <1>0, <1>26 DEF OobExpired, Fired, Expire
<1>27. ASSUME NEW x \in SC, ReplExpired(c, x)
      PROVE  PathStepOK(c)
  BY <1>0, <1>27 DEF ReplExpired, Fired, Expire
<1>28. ASSUME NEW x \in SC, WindowExpired(c, x)
      PROVE  PathStepOK(c)
  BY <1>0, <1>28 DEF WindowExpired, Fired, Expire
<1>29. ASSUME NEW t \in Thread, IpcTimeout(c, t)
      PROVE  PathStepOK(c)
  BY <1>0, <1>29 DEF IpcTimeout, Fired, Expire
<1>30. ASSUME NEW t \in Thread, NEW x \in SC, Attach(c, t, x)
      PROVE  PathStepOK(c)
  BY <1>0, <1>30 DEF Attach
<1>31. ASSUME NEW t \in User, NEW x \in SC, DetachSlot(c, t, x)
      PROVE  PathStepOK(c)
  BY <1>0, <1>31 DEF DetachSlot
<1>32. ASSUME NEW t \in Thread, WakeRemote(c, t)
      PROVE  PathStepOK(c)
  BY <1>0, <1>32 DEF WakeRemote, RemoteStateChange, CanWake
<1>33. ASSUME NEW t \in Thread, WakeSwitch(c, t)
      PROVE  PathStepOK(c)
  BY <1>0, <1>33 DEF WakeSwitch, CanWake
<1>34. ASSUME NEW t \in Thread, WakeLazy(c, t)
      PROVE  PathStepOK(c)
  BY <1>0, <1>34 DEF WakeLazy, ScheduleSwitchTo, CanWake, Orderly
<1>35. ASSUME NEW t \in User, NEW p \in Prio, SetPrioOut(c, t, p)
      PROVE  PathStepOK(c)
  BY <1>0, <1>35 DEF SetPrioOut
<1> QED
  BY <1>1, <1>2, <1>3, <1>4, <1>5, <1>6, <1>7, <1>8, <1>9, <1>10, <1>11, <1>12, <1>13, <1>14, <1>15, <1>16, <1>17, <1>18, <1>19, <1>20, <1>21, <1>22, <1>23, <1>24, <1>25, <1>26, <1>27, <1>28, <1>29, <1>30, <1>31, <1>32, <1>33, <1>34, <1>35
     DEF Step, Schedule, WakeUpAllBlocked, Flip, Timer, Detach, Ipc, SetPrio,
         HandleRequests

-----------------------------------------------------------------------------
(* The iterator of wake_up_all_blocked().  Only who holds the lock of a     *)
(* constraint changes its list, so the list stays what it was for the one   *)
(* who drains it.                                                           *)

DrainStepOK(c) ==
    /\ \A s \in SC : blocked'[s] # blocked[s] => Holds(c, s)
    /\ DrainOK(c)'

LEMMA DrainStep ==
    ASSUME PathsOK, StateOK, LocalsOK, NEW c \in Cpu, Step(c), DrainOK(c),
           pc[c] = "drain" /\ reg[c].it # Nil => hook.next[reg[c].it] = reg[c].it
    PROVE  DrainStepOK(c)
<1> USE DEF PathsOK, Goto, Return
<1>0. /\ LocalOK(c) /\ reg \in [Cpu -> Reg] /\ pc \in [Cpu -> Labels]
      /\ blocked \in [SC -> OrNil(Thread)]
  BY DEF LocalsOK, StateOK
<1>00. ASSUME blocked' = blocked, pc'[c] # "drain" PROVE DrainStepOK(c)
  BY <1>00 DEF DrainStepOK, DrainOK

<1>1. CASE SchedEnter(c)
  BY <1>0, <1>00, <1>1 DEF SchedEnter
<1>2. CASE SchedPick(c)
  BY <1>0, <1>00, <1>2 DEF SchedPick
<1>3. CASE SchedCheck(c)
  BY <1>0, <1>00, <1>3 DEF SchedCheck
<1>4. CASE SchedLock(c)
  BY <1>0, <1>00, <1>4 DEF SchedLock
<1>5. CASE SchedRecheck(c)
  BY <1>0, <1>00, <1>5 DEF SchedRecheck
<1>6. CASE SchedBlock(c)
  <2>1. /\ pc[c] = "block" /\ pc'[c] = "pick"
        /\ \A s \in SC : blocked'[s] # blocked[s] => s = reg[c].sc
    BY <1>0, <1>6 DEF SchedBlock
  <2> QED
    BY <2>1 DEF DrainStepOK, DrainOK, Holds
<1>7. CASE SchedAccept(c)
  BY <1>0, <1>00, <1>7 DEF SchedAccept
<1>8. CASE PendingRqqEnqueue(c)
  <2>1. pc'[c] \in {"sendIpi", "user", "notify", "detachUnlock"} /\ blocked' = blocked
    BY <1>0, <1>8 DEF PendingRqqEnqueue, LocalOK, CrossCalls
  <2> QED
    BY <1>00, <2>1
<1>9. CASE SendIpi(c)
  <2>1. pc'[c] \in {"user", "notify", "detachUnlock"} /\ blocked' = blocked
    BY <1>0, <1>9 DEF SendIpi, LocalOK, CrossCalls
  <2> QED
    BY <1>00, <2>1
<1>10. CASE WakeLock(c)
  BY <1>0, <1>00, <1>10 DEF WakeLock
<1>11. CASE WakeNotify(c)
  <2>1. blocked' = blocked /\ (pc'[c] = "drain" => reg'[c].it = Nil)
    BY <1>0, <1>11 DEF WakeNotify, RemoteStateChange
  <2> QED
    BY <2>1 DEF DrainStepOK, DrainOK
<1>12. CASE WakeDrain(c)
  <2>1. CASE DrainBegin(c)
    <3>1. blocked' = blocked /\ reg'[c] = [reg[c] EXCEPT !.it = blocked[reg[c].sc],
                                                        !.hd = blocked[reg[c].sc]]
      BY <1>0, <2>1 DEF DrainBegin
    <3>2. /\ reg'[c].it = blocked[reg[c].sc] /\ reg'[c].hd = reg'[c].it
          /\ reg'[c].sc = reg[c].sc
      BY <1>0, <3>1 DEF Reg
    <3> QED
      BY <3>1, <3>2 DEF DrainStepOK, DrainOK
  <2>2. CASE DrainErase(c)
    <3>1. /\ pc[c] = "drain" /\ reg[c].it # Nil
          /\ \A s \in SC : blocked'[s] # blocked[s] => s = reg[c].sc
      BY <1>0, <2>2 DEF DrainErase
    <3>2. hook.next[reg[c].it] = reg[c].hd /\ InList(hook, reg[c].it)
      BY <3>1 DEF DrainOK, InList
    <3>3. reg' = [reg EXCEPT ![c].it = Nil]
      BY <2>2, <3>2 DEF DrainErase
    <3>4. reg'[c].it = Nil
      BY <1>0, <3>3 DEF Reg
    <3> QED
      BY <3>1, <3>4 DEF DrainStepOK, DrainOK, Holds
  <2>3. CASE DrainEnd(c)
    BY <1>0, <1>00, <2>3 DEF DrainEnd, LocalOK
  <2> QED
    BY <1>12, <2>1, <2>2, <2>3 DEF WakeDrain
<1>13. CASE FlipWrite(c)
  BY <1>0, <1>00, <1>13 DEF FlipWrite
<1>14. CASE FlipTest(c)
  BY <1>0, <1>00, <1>14 DEF FlipTest
<1>15. CASE QuantExpired(c)
  BY <1>0, <1>00, <1>15 DEF QuantExpired
<1>16. CASE TickEnd(c)
  BY <1>0, <1>00, <1>16 DEF TickEnd
<1>17. CASE DetachLock(c)
  BY <1>0, <1>00, <1>17 DEF DetachLock
<1>18. CASE DetachWork(c)
  <2>1. /\ pc[c] = "detachWork" /\ pc'[c] \in {"detachUnlock", "enqueue"}
        /\ \A s \in SC : blocked'[s] # blocked[s] => s = reg[c].sc
    BY <1>0, <1>18 DEF DetachWork, RemoteStateChange
  <2> QED
    BY <2>1 DEF DrainStepOK, DrainOK, Holds
<1>19. CASE DetachUnlock(c)
  BY <1>0, <1>00, <1>19 DEF DetachUnlock
<1>20. CASE Sleep(c)
  BY <1>0, <1>00, <1>20 DEF Sleep
<1>21. CASE SetPrioIn(c)
  BY <1>0, <1>00, <1>21 DEF SetPrioIn
<1>22. CASE IpiArrives(c)
  BY <1>0, <1>00, <1>22 DEF IpiArrives
<1>23. CASE RqqTake(c)
  BY <1>0, <1>00, <1>23 DEF RqqTake
<1>24. CASE RqqApply(c)
  BY <1>0, <1>00, <1>24 DEF RqqApply
<1>25. ASSUME NEW x \in SC, FlipRead(c, x)
      PROVE  DrainStepOK(c)
  BY <1>0, <1>00, <1>25 DEF FlipRead
<1>26. ASSUME NEW x \in SC, OobExpired(c, x)
      PROVE  DrainStepOK(c)
  BY <1>0, <1>00, <1>26 DEF OobExpired
<1>27. ASSUME NEW x \in SC, ReplExpired(c, x)
      PROVE  DrainStepOK(c)
  BY <1>0, <1>00, <1>27 DEF ReplExpired
<1>28. ASSUME NEW x \in SC, WindowExpired(c, x)
      PROVE  DrainStepOK(c)
  BY <1>0, <1>00, <1>28 DEF WindowExpired
<1>29. ASSUME NEW t \in Thread, IpcTimeout(c, t)
      PROVE  DrainStepOK(c)
  BY <1>0, <1>00, <1>29 DEF IpcTimeout
<1>30. ASSUME NEW t \in Thread, NEW x \in SC, Attach(c, t, x)
      PROVE  DrainStepOK(c)
  BY <1>0, <1>00, <1>30 DEF Attach
<1>31. ASSUME NEW t \in User, NEW x \in SC, DetachSlot(c, t, x)
      PROVE  DrainStepOK(c)
  BY <1>0, <1>00, <1>31 DEF DetachSlot
<1>32. ASSUME NEW t \in Thread, WakeRemote(c, t)
      PROVE  DrainStepOK(c)
  BY <1>0, <1>00, <1>32 DEF WakeRemote, RemoteStateChange, CanWake
<1>33. ASSUME NEW t \in Thread, WakeSwitch(c, t)
      PROVE  DrainStepOK(c)
  BY <1>0, <1>00, <1>33 DEF WakeSwitch, CanWake
<1>34. ASSUME NEW t \in Thread, WakeLazy(c, t)
      PROVE  DrainStepOK(c)
  BY <1>0, <1>00, <1>34 DEF WakeLazy, CanWake
<1>35. ASSUME NEW t \in User, NEW p \in Prio, SetPrioOut(c, t, p)
      PROVE  DrainStepOK(c)
  BY <1>0, <1>00, <1>35 DEF SetPrioOut
<1> QED
  BY <1>1, <1>2, <1>3, <1>4, <1>5, <1>6, <1>7, <1>8, <1>9, <1>10, <1>11, <1>12, <1>13, <1>14, <1>15, <1>16, <1>17, <1>18, <1>19, <1>20, <1>21, <1>22, <1>23, <1>24, <1>25, <1>26, <1>27, <1>28, <1>29, <1>30, <1>31, <1>32, <1>33, <1>34, <1>35
     DEF Step, Schedule, WakeUpAllBlocked, Flip, Timer, Detach, Ipc, SetPrio,
         HandleRequests

\* A list of one leads back to itself.
LEMMA DrainLast ==
    ASSUME NEW w, PlacedNow(w), NEW s \in SC, blocked[s] # Nil,
           \A t, u \in Members(hook, blocked[s]) : t = u
    PROVE  hook.next[blocked[s]] = blocked[s]
<1>1. RingOf(Thread, hook, blocked[s], InBlocked(hook, w, s)) /\ hook \in Hook(Thread)
  BY DEF PlacedNow, Placed
<1> QED
  BY <1>1, RingFacts, ThreadsFinite

LEMMA DrainsStep ==
    ASSUME IInv, PlaceInv, DrainsOne, NEW c \in Cpu, Step(c), NEW d \in Cpu
    PROVE  DrainOK(d)'
<1>1. PathsOK /\ StateOK /\ LocalsOK
  BY TypeParts DEF IInv
<1>2. PICK w : PlacedNow(w)
  BY DEF PlaceInv, InPlace
<1>3. DrainOK(c) /\ DrainOK(d)
  BY DEF PlaceInv
<1>4. pc[c] = "drain" /\ reg[c].it # Nil => hook.next[reg[c].it] = reg[c].it
  <2>1. pc[c] = "drain" => reg[c].sc \in SC
    BY <1>1 DEF LocalsOK, LocalOK, HasSC
  <2> QED
    BY <1>2, <1>3, <2>1, DrainLast DEF DrainOK, DrainsOne
<1>5. DrainStepOK(c)
  BY <1>1, <1>3, <1>4, DrainStep
<1>6. CASE d = c
  BY <1>5, <1>6 DEF DrainStepOK
<1>7. CASE d # c
  <2>1. pc'[d] = pc[d] /\ reg'[d] = reg[d]
    BY <1>1, <1>7, OthersKeepPath
  <2>2. pc[d] = "drain" => reg[d].sc \in SC /\ blocked'[reg[d].sc] = blocked[reg[d].sc]
    <3> SUFFICES ASSUME pc[d] = "drain"
                 PROVE  reg[d].sc \in SC /\ blocked'[reg[d].sc] = blocked[reg[d].sc]
      OBVIOUS
    <3>1. reg[d].sc \in SC
      BY <1>1 DEF LocalsOK, LocalOK, HasSC
    <3>2. lock[reg[d].sc] = d
      BY <3>1 DEF IInv, LocksOK, Holds
    <3>3. ~ Holds(c, reg[d].sc)
      BY <1>7, <3>1, <3>2 DEF IInv, LocksOK
    <3> QED
      BY <1>5, <3>1, <3>3 DEF DrainStepOK
  <2> QED
    BY <1>3, <2>1, <2>2 DEF DrainOK
<1> QED
  BY <1>6, <1>7

-----------------------------------------------------------------------------
LEMMA NextPlaced ==
    ASSUME NEW w, PlacedNow(w), NEW c \in Cpu, NextToRun(rq[c]) # Nil
    PROVE  /\ NextToRun(rq[c]) \in Thread /\ w[NextToRun(rq[c])] = Nil
           /\ Home[NextToRun(rq[c])] = c
<1>1. rq[c].highest \in Prio
  BY PlacedType DEF Rq
<1> QED
  BY <1>1, PlacedFacts DEF PlacedNow, NextToRun, InReady

LEMMA PlaceInit ==
    ASSUME Init, IdleFree
    PROVE  PlaceInv
<1>1. /\ \A d \in Cpu : Idle[d] \in Thread /\ Home[Idle[d]] = d /\ Idle[d] \notin User
      /\ IsFiniteSet(Thread)
  BY ConstantAssumption DEF User
<1>2. ASSUME NEW c \in Cpu PROVE AtHome(c) /\ IdleOK(c) /\ DrainOK(c)
  <2> DEFINE mine == {t \in User : Home[t] = c}
             q    == SetToSeq(mine)
  <2>1. IsFiniteSet(mine)
    BY <1>1, FS_Subset DEF User
  <2>2. q \in Seq(mine)
    BY <2>1, SetToSeqType
  <2>3. \A i \in DOMAIN q : q[i] \in mine
    <3> HIDE DEF q, mine
    <3> QED
      BY <2>2, ElementOfSeq, LenProperties
  <2>4. rqq[c] = q
    BY DEF Init
  <2>5. \A i \in DOMAIN rqq[c] : Home[rqq[c][i]] = c
    BY <2>3, <2>4
  <2>6. ready[Idle[c]] /\ curr = Idle /\ rqcur = Idle /\ pc[c] = "user"
    BY <1>1 DEF Init
  <2> QED
    BY <1>1, <2>5, <2>6 DEF AtHome, IdleOK, DrainOK, Checking, Picking
<1>3. SlotsOK
  BY DEF Init, SlotsOK, IdleFree, NoConstraint
<1>4. InPlace([t \in Thread |-> Nil])
  <2> DEFINE w == [t \in Thread |-> Nil]
  <2>1. PlacedNow(w)
    BY PlacedInit DEF PlacedNow
  <2>2. \A t \in Thread : w[t] = Nil
    OBVIOUS
  <2>3. \A c \in Cpu : pc[c] = "user" /\ rqcur[c] = Idle[c]
    BY DEF Init
  <2> HIDE DEF w
  <2>4. InPlace(w)
    BY <1>1, <2>1, <2>2, <2>3 DEF InPlace, LinkOK, Checking, Picking
  <2> QED
    BY <2>4 DEF w
<1> QED
  BY <1>2, <1>3, <1>4 DEF PlaceInv

LEMMA PlaceStep ==
    ASSUME IInv, PlaceInv, DrainsOne, Orderly, NEW c \in Cpu, Step(c)
    PROVE  PlaceInv'
<1>1. ListsOK /\ PathsOK /\ StateOK /\ LocalsOK
  BY TypeParts DEF IInv
<1>2. PICK w : InPlace(w)
  BY DEF PlaceInv
<1>3. /\ PlacedNow(w) /\ (NoConstraint => \A t \in Thread : w[t] = Nil)
      /\ \A d \in Cpu : LinkOK(d, w)
      /\ \A d \in Cpu : AtHome(d) /\ IdleOK(d) /\ DrainOK(d)
      /\ SlotsOK
  BY <1>2 DEF InPlace, PlaceInv
<1>4. pc[c] = "pick" /\ NextToRun(rq[c]) # Nil => Home[NextToRun(rq[c])] = c
  BY <1>3, NextPlaced
<1>5. HomeStepOK(c)
  BY <1>1, <1>3, <1>4, HomeStep
<1>6. PICK v : ListStepOK(c, w, v)
  BY <1>1, <1>3, ListStep
<1>7. PathStepOK(c)
  BY <1>1, PathStep
<1>8. \A d \in Cpu : d # c => pc'[d] = pc[d] /\ reg'[d] = reg[d] /\ curr'[d] = curr[d] /\ rqcur'[d] = rqcur[d]
  BY <1>1, <1>5, OthersKeepPath DEF HomeStepOK
<1>9. \A d \in Cpu : Idle[d] \in Thread /\ Idle[d] \notin User /\ curr[d] \in Thread /\ rqcur[d] \in Thread
  BY <1>1, ConstantAssumption DEF User, StateOK
<1>10. ASSUME NEW d \in Cpu PROVE AtHome(d)'
  <2>1. CASE d = c
    BY <1>5, <2>1 DEF HomeStepOK, AtHome
  <2>2. CASE d # c
    BY <1>3, <1>5, <1>8, <2>2 DEF HomeStepOK, AtHome
  <2> QED
    BY <2>1, <2>2
<1>11. ASSUME NEW d \in Cpu PROVE IdleOK(d)'
  <2>1. CASE InList(hook, Idle[d])
    BY <1>6, <2>1 DEF ListStepOK, IdleOK
  <2>2. CASE ~ InList(hook, Idle[d])
    <3>1. curr[d] = Idle[d] /\ pc[d] \notin Picking
      BY <1>3, <2>2 DEF IdleOK
    <3>2. CASE d # c
      BY <1>8, <3>1, <3>2 DEF IdleOK
    <3>3. CASE d = c
      <4>1. curr'[c] = Idle[c] /\ (pc'[c] \notin Picking \/ pc[c] = "sched")
        BY <1>7, <1>9, <3>1, <3>3 DEF PathStepOK
      <4>2. pc[c] = "sched" => InList(hook', Idle[c])
        BY <1>3, <1>6, <3>1, <3>3 DEF ListStepOK, AtHome
      <4> QED
        BY <3>3, <4>1, <4>2 DEF IdleOK
    <3> QED
      BY <3>2, <3>3
  <2> QED
    BY <2>1, <2>2
<1>12. NoConstraint => \A t \in Thread : v[t] = Nil
  BY <1>3, <1>6 DEF ListStepOK, AtHome
<1>13. ASSUME NEW t \in Thread, w[t] = Nil, ~ (pc[c] = "block" /\ t = reg[c].thr /\ t \in User)
       PROVE  v[t] = Nil
  BY <1>6, <1>13 DEF ListStepOK
<1>14. ASSUME NEW d \in Cpu PROVE LinkOK(d, v)'
  <2>1. v[Idle[d]] = Nil
    BY <1>3, <1>9, <1>13 DEF LinkOK
  <2>2. CASE d # c
    <3>1. pc[c] = "block" => Home[reg[c].thr] = c
      BY <1>3 DEF AtHome, Checking
    <3>2. pc[d] \in Checking => v[reg[d].thr] = Nil
      <4> SUFFICES ASSUME pc[d] \in Checking PROVE v[reg[d].thr] = Nil
        OBVIOUS
      <4>1. Home[reg[d].thr] = d /\ w[reg[d].thr] = Nil /\ reg[d].thr \in Thread
        BY <1>1, <1>3 DEF AtHome, LinkOK, LocalsOK, LocalOK, HasThread, Checking
      <4> QED
        BY <1>13, <2>2, <3>1, <4>1
    <3>3. pc[d] \notin Picking => v[rqcur[d]] = Nil
      <4> SUFFICES ASSUME pc[d] \notin Picking PROVE v[rqcur[d]] = Nil
        OBVIOUS
      <4>1. Home[rqcur[d]] = d /\ w[rqcur[d]] = Nil /\ rqcur[d] \in Thread
        BY <1>3, <1>9 DEF AtHome, LinkOK
      <4> QED
        BY <1>13, <2>2, <3>1, <4>1
    <3> QED
      BY <1>8, <2>1, <2>2, <3>2, <3>3 DEF LinkOK
  <2>3. CASE d = c
    <3>1. pc'[c] \in Checking => v[reg'[c].thr] = Nil
      <4> SUFFICES ASSUME pc'[c] \in Checking PROVE v[reg'[c].thr] = Nil
        OBVIOUS
      <4>0. pc[c] # "block"
        BY <1>7 DEF PathStepOK, Checking
      <4>1. CASE pc[c] \in Checking /\ reg'[c].thr = reg[c].thr
        <5>1. w[reg[c].thr] = Nil /\ reg[c].thr \in Thread
          BY <1>1, <1>3, <4>1 DEF LinkOK, LocalsOK, LocalOK, HasThread, Checking
        <5> QED
          BY <1>13, <4>0, <4>1, <5>1
      <4>2. CASE NextToRun(rq[c]) # Nil /\ reg'[c].thr = NextToRun(rq[c])
        <5>1. w[NextToRun(rq[c])] = Nil /\ NextToRun(rq[c]) \in Thread
          BY <1>3, <4>2, NextPlaced
        <5> QED
          BY <1>13, <4>0, <4>2, <5>1
      <4> QED
        BY <1>7, <4>1, <4>2 DEF PathStepOK
    <3>2. pc'[c] \notin Picking => v[rqcur'[c]] = Nil
      <4> SUFFICES ASSUME pc'[c] \notin Picking PROVE v[rqcur'[c]] = Nil
        OBVIOUS
      <4>0. pc[c] # "block"
        BY <1>7 DEF PathStepOK, Picking
      <4>1. CASE pc[c] \notin Picking /\ rqcur'[c] = rqcur[c]
        BY <1>3, <1>9, <1>13, <4>0, <4>1 DEF LinkOK
      <4>2. CASE pc[c] = "check" /\ rqcur'[c] = reg[c].thr
        <5>1. w[reg[c].thr] = Nil /\ reg[c].thr \in Thread
          BY <1>1, <1>3, <4>2 DEF LinkOK, LocalsOK, LocalOK, HasThread, Checking
        <5> QED
          BY <1>13, <4>0, <4>2, <5>1
      <4>3. CASE NoConstraint
        <5>1. rqcur'[c] \in Thread
          BY <1>1, <1>5, TypeStep, <4>3 DEF HomeStepOK, IInv, Next, Step, TypeOK
        <5> QED
          BY <1>12, <4>3, <5>1
      <4> QED
        BY <1>7, <4>1, <4>2, <4>3 DEF PathStepOK
    <3> QED
      BY <2>1, <2>3, <3>1, <3>2 DEF LinkOK
  <2> QED
    BY <2>2, <2>3
<1>15. InPlace(v)'
  BY <1>6, <1>12, <1>14 DEF InPlace, ListStepOK
<1>16. \A d \in Cpu : DrainOK(d)'
  BY DrainsStep
<1> QED
  BY <1>5, <1>10, <1>11, <1>15, <1>16 DEF PlaceInv, HomeStepOK

LEMMA StepPlace == IInv /\ PlaceInv /\ DrainsOne /\ Orderly /\ [Next]_vars => PlaceInv'
<1> SUFFICES ASSUME IInv, PlaceInv, DrainsOne, Orderly, [Next]_vars PROVE PlaceInv'
  OBVIOUS
<1>1. CASE UNCHANGED vars
  <2>1. PICK w : InPlace(w)
    BY DEF PlaceInv
  <2>2. InPlace(w)'
    BY <1>1, <2>1 DEF vars, InPlace, PlacedNow, LinkOK
  <2>3. SlotsOK' /\ \A c \in Cpu : AtHome(c)' /\ IdleOK(c)' /\ DrainOK(c)'
    BY <1>1 DEF vars, PlaceInv, SlotsOK, AtHome, IdleOK, DrainOK
  <2> QED
    BY <2>2, <2>3 DEF PlaceInv
<1>2. CASE Next
  <2>1. PICK c \in Cpu : Step(c)
    BY <1>2 DEF Next, Step
  <2> QED
    BY <2>1, PlaceStep
<1> QED
  BY <1>1, <1>2

LEMMA PlaceOneList ==
    ASSUME NEW w, PlacedNow(w)
    PROVE  OneList
<1>1. /\ \A s \in SC : Members(hook, blocked[s]) = InBlocked(hook, w, s)
      /\ \A c \in Cpu, p \in Prio : Members(hook, rq[c].queue[p]) = InReady(hook, w, prio, c, p)
      /\ RingsClosed(hook)
  BY PlacedFacts DEF PlacedNow
<1>2. w \in [Thread -> OrNil(SC)] /\ prio \in [Thread -> Prio] /\ Nil \notin SC /\ Home \in [Thread -> Cpu]
  BY PlacedType, ConstantAssumption
<1>3. ASSUME NEW t \in Thread, InList(hook, t)
      PROVE  \/ /\ t \in Members(hook, rq[Home[t]].queue[prio[t]])
                /\ \A s \in SC : t \notin Members(hook, blocked[s])
             \/ \E s \in SC :
                   /\ t \in Members(hook, blocked[s])
                   /\ \A r \in SC \ {s} : t \notin Members(hook, blocked[r])
  BY <1>1, <1>2, <1>3 DEF InBlocked, InReady, OrNil
<1>4. \A c \in Cpu, p \in Prio :
          Members(hook, rq[c].queue[p]) \subseteq
             {t \in Thread : InList(hook, t) /\ Home[t] = c /\ prio[t] = p}
  BY <1>1 DEF InReady
<1> QED
  BY <1>1, <1>3, <1>4 DEF OneList

LEMMA PlaceBlocks == IInv /\ PlaceInv => BlocksOnce
<1> SUFFICES ASSUME IInv, PlaceInv, NEW c \in Cpu, pc[c] = "block"
             PROVE  reg[c].thr \notin Members(hook, blocked[reg[c].sc])
  BY DEF BlocksOnce
<1>1. PICK w : InPlace(w)
  BY DEF PlaceInv
<1>2. w[reg[c].thr] = Nil
  BY <1>1 DEF InPlace, LinkOK, Checking
<1>3. reg[c].sc \in SC
  BY DEF IInv, LocalsOK, LocalOK, HasSC
<1>4. Members(hook, blocked[reg[c].sc]) = InBlocked(hook, w, reg[c].sc)
  BY <1>1, <1>3, PlacedFacts DEF InPlace, PlacedNow
<1> QED
  BY <1>2, <1>3, <1>4, ConstantAssumption DEF InBlocked

LEMMA PlaceDispatch == PlaceInv => DispatcherFindsNext
<1> SUFFICES ASSUME PlaceInv, NEW c \in Cpu
             PROVE  /\ pc[c] = "pick" => NextToRun(rq[c]) # Nil
                    /\ \A p \in Prio : rq[c].queue[p] # Nil => p <= rq[c].highest
  BY DEF DispatcherFindsNext
<1>1. PICK w : InPlace(w)
  BY DEF PlaceInv
<1>2. /\ Exactly(rq[c]) /\ rq[c].highest \in Prio
      /\ prio \in [Thread -> Prio]
  BY <1>1 DEF InPlace, PlacedNow, Placed, Rq
<1>3. ASSUME pc[c] = "pick" PROVE NextToRun(rq[c]) # Nil
  <2> DEFINE t == Idle[c]
             p == prio[t]
  <2>1. InList(hook, t) /\ w[t] = Nil /\ t \in Thread /\ Home[t] = c /\ p \in Prio
    BY <1>1, <1>2, <1>3, ConstantAssumption DEF PlaceInv, IdleOK, Picking, InPlace, LinkOK
  <2>2. t \in InReady(hook, w, prio, c, p)
    BY <2>1 DEF InReady
  <2>3. rq[c].queue[p] # Nil
    BY <1>1, <2>1, <2>2, PlacedFacts DEF InPlace, PlacedNow
  <2> HIDE DEF p
  <2>4. p <= rq[c].highest
    BY <1>2, <2>1, <2>3 DEF Exactly
  <2>5. rq[c].highest = 0 => p = 0
    BY <2>1, <2>4, MaxPrioAssumption DEF Prio
  <2> QED
    BY <1>2, <2>3, <2>5 DEF Exactly, NextToRun
<1> QED
  BY <1>2, <1>3 DEF Exactly

LEMMA PlaceAlways ==
    ASSUME Orderly, IdleFree
    PROVE  Spec /\ []DrainsOne => [](IInv /\ PlaceInv)
<1>1. Init => IInv /\ PlaceInv
  BY InitInv, PlaceInit
<1>2. IInv /\ PlaceInv /\ DrainsOne /\ [Next]_vars => (IInv /\ PlaceInv)'
  BY StepInv, StepPlace
<1> QED
  BY <1>1, <1>2, PTL DEF Spec

(* One hook serves all lists, and no context gets lost between them or into *)
(* two of them, as long as wake_up_all_blocked() never meets two in one     *)
(* list (run drain_of_two shows why).  A change of priority and a lazy      *)
(* wake-up do not look for what blocks a context, so one of them and a      *)
(* constraint are excluded.                                                 *)
THEOREM OneListAlways == Orderly /\ IdleFree => (Spec /\ []DrainsOne => []OneList)
<1> SUFFICES ASSUME Orderly, IdleFree PROVE Spec /\ []DrainsOne => []OneList
  OBVIOUS
<1>1. IInv /\ PlaceInv => OneList
  BY PlaceOneList DEF PlaceInv, InPlace
<1> QED
  BY <1>1, PlaceAlways, PTL

(* block() finds the context it is about to block linked nowhere: the       *)
(* assertion of Sched_constraint::block() holds, although other CPUs lock,  *)
(* drain and detach from the same constraint, where the dispatcher blocks   *)
(* whom it took from the ready queue of its own CPU, and no list of two is  *)
(* drained.                                                                 *)
THEOREM BlockedOnce == Orderly /\ IdleFree => (Spec /\ []DrainsOne => []BlocksOnce)
<1> SUFFICES ASSUME Orderly, IdleFree PROVE Spec /\ []DrainsOne => []BlocksOnce
  OBVIOUS
<1> QED
  BY PlaceAlways, PlaceBlocks, PTL

(* The dispatcher never follows a null pointer: prio_highest names a list   *)
(* in use whenever the dispatcher picks the next context, for the idle      *)
(* thread of the CPU is queued whenever it does not run, nothing can block  *)
(* it, and no drain of a list of two takes a context out of the ready queue *)
(* of another CPU.                                                          *)
THEOREM SomebodyToDispatch ==
    Orderly /\ IdleFree => (Spec /\ []DrainsOne => []DispatcherFindsNext)
<1> SUFFICES ASSUME Orderly, IdleFree PROVE Spec /\ []DrainsOne => []DispatcherFindsNext
  OBVIOUS
<1> QED
  BY PlaceAlways, PlaceDispatch, PTL

-----------------------------------------------------------------------------
(* Who shares no constraint with another never waits in a list with it.     *)

Owns(t, s) == \E i \in Slot : InitSlots[t][i] = s

Unshared ==
    /\ "attach" \notin Ops
    /\ \A s \in SC, t, u \in Thread : Owns(t, s) /\ Owns(u, s) => t = u

OwnPath(c) ==
    pc[c] \in {"lock", "recheck", "block"} => Owns(reg[c].thr, reg[c].sc)
OwnSlots == \A t \in Thread, i \in Slot : slots[t][i] \in {InitSlots[t][i], Nil}
OwnLists == \A s \in SC : \A t \in Members(hook, blocked[s]) : t \in Thread /\ Owns(t, s)
OwnInv == OwnSlots /\ OwnLists /\ \A c \in Cpu : OwnPath(c)

LEMMA OwnStep ==
    ASSUME PathsOK, StateOK, LocalsOK, NEW c \in Cpu, Step(c), Unshared,
           OwnSlots, OwnPath(c)
    PROVE  OwnSlots' /\ OwnPath(c)'
<1> USE DEF PathsOK, Goto, Return
<1>0. /\ LocalOK(c) /\ reg \in [Cpu -> Reg] /\ pc \in [Cpu -> Labels]
      /\ slots \in [Thread -> [Slot -> OrNil(SC)]] /\ Nil \notin SC
  BY ConstantAssumption DEF LocalsOK, StateOK
<1>00. ASSUME slots' = slots, pc'[c] \notin {"lock", "recheck", "block"}
       PROVE  OwnSlots' /\ OwnPath(c)'
  BY <1>00 DEF OwnSlots, OwnPath
<1>000. ASSUME slots' = slots, pc[c] \in {"lock", "recheck", "block"},
               reg'[c].thr = reg[c].thr, reg'[c].sc = reg[c].sc
        PROVE  OwnSlots' /\ OwnPath(c)'
  BY <1>000 DEF OwnSlots, OwnPath

<1>1. CASE SchedEnter(c)
  BY <1>0, <1>00, <1>1 DEF SchedEnter, threads
<1>2. CASE SchedPick(c)
  BY <1>0, <1>00, <1>2 DEF SchedPick, threads
<1>3. CASE SchedCheck(c)
  <2> DEFINE t == reg[c].thr
             x == slots[t][reg[c].i]
  <2>1. t \in Thread /\ reg[c].i \in Slot /\ slots' = slots
    BY <1>0, <1>3 DEF SchedCheck, LocalOK, HasThread, threads
  <2>2. \/ pc'[c] = "check"
        \/ x # Nil /\ reg'[c] = [reg[c] EXCEPT !.sc = x]
    BY <1>0, <1>3 DEF SchedCheck
  <2>3. x # Nil => Owns(t, x)
    BY <2>1 DEF OwnSlots, Owns
  <2>4. CASE pc'[c] = "check"
    BY <1>00, <2>1, <2>4
  <2>5. CASE x # Nil /\ reg'[c] = [reg[c] EXCEPT !.sc = x]
    <3>1. reg'[c].thr = t /\ reg'[c].sc = x
      BY <1>0, <2>5 DEF Reg
    <3> QED
      BY <2>1, <2>3, <2>5, <3>1 DEF OwnSlots, OwnPath
  <2> QED
    BY <2>2, <2>4, <2>5
<1>4. CASE SchedLock(c)
  BY <1>000, <1>4 DEF SchedLock, threads
<1>5. CASE SchedRecheck(c)
  <2>1. slots' = slots /\ pc[c] = "recheck" /\ (pc'[c] = "check" \/ reg' = reg)
    BY <1>0, <1>5 DEF SchedRecheck, threads
  <2> QED
    BY <1>00, <1>000, <2>1
<1>6. CASE SchedBlock(c)
  BY <1>0, <1>00, <1>6 DEF SchedBlock, threads
<1>7. CASE SchedAccept(c)
  BY <1>0, <1>00, <1>7 DEF SchedAccept, threads
<1>8. CASE PendingRqqEnqueue(c)
  <2>1. pc'[c] \in {"sendIpi", "user", "notify", "detachUnlock"} /\ slots' = slots
    BY <1>0, <1>8 DEF PendingRqqEnqueue, LocalOK, CrossCalls, threads
  <2> QED
    BY <1>00, <2>1
<1>9. CASE SendIpi(c)
  <2>1. pc'[c] \in {"user", "notify", "detachUnlock"} /\ slots' = slots
    BY <1>0, <1>9 DEF SendIpi, LocalOK, CrossCalls, threads
  <2> QED
    BY <1>00, <2>1
<1>10. CASE WakeLock(c)
  BY <1>0, <1>00, <1>10 DEF WakeLock, threads
<1>11. CASE WakeNotify(c)
  BY <1>0, <1>00, <1>11 DEF WakeNotify, RemoteStateChange, threads
<1>12. CASE WakeDrain(c)
  <2>1. pc'[c] \in {"drain", "fault", "user", "tick"} /\ slots' = slots
    BY <1>0, <1>12 DEF WakeDrain, DrainBegin, DrainErase, DrainEnd, LocalOK, threads
  <2> QED
    BY <1>00, <2>1
<1>13. CASE FlipWrite(c)
  BY <1>0, <1>00, <1>13 DEF FlipWrite, threads
<1>14. CASE FlipTest(c)
  BY <1>0, <1>00, <1>14 DEF FlipTest, threads
<1>15. CASE QuantExpired(c)
  BY <1>0, <1>00, <1>15 DEF QuantExpired, threads
<1>16. CASE TickEnd(c)
  BY <1>0, <1>00, <1>16 DEF TickEnd, threads
<1>17. CASE DetachLock(c)
  BY <1>0, <1>00, <1>17 DEF DetachLock, threads
<1>18. CASE DetachWork(c)
  BY <1>0, <1>00, <1>18 DEF DetachWork, RemoteStateChange, threads
<1>19. CASE DetachUnlock(c)
  BY <1>0, <1>00, <1>19 DEF DetachUnlock, threads
<1>20. CASE Sleep(c)
  BY <1>0, <1>00, <1>20 DEF Sleep, threads
<1>21. CASE SetPrioIn(c)
  BY <1>0, <1>00, <1>21 DEF SetPrioIn, threads
<1>22. CASE IpiArrives(c)
  BY <1>0, <1>00, <1>22 DEF IpiArrives, threads
<1>23. CASE RqqTake(c)
  BY <1>0, <1>00, <1>23 DEF RqqTake, threads
<1>24. CASE RqqApply(c)
  BY <1>0, <1>00, <1>24 DEF RqqApply, threads
<1>25. ASSUME NEW x \in SC, FlipRead(c, x)
      PROVE  OwnSlots' /\ OwnPath(c)'
  BY <1>0, <1>00, <1>25 DEF FlipRead, threads
<1>26. ASSUME NEW x \in SC, OobExpired(c, x)
      PROVE  OwnSlots' /\ OwnPath(c)'
  BY <1>0, <1>00, <1>26 DEF OobExpired, threads
<1>27. ASSUME NEW x \in SC, ReplExpired(c, x)
      PROVE  OwnSlots' /\ OwnPath(c)'
  BY <1>0, <1>00, <1>27 DEF ReplExpired, threads
<1>28. ASSUME NEW x \in SC, WindowExpired(c, x)
      PROVE  OwnSlots' /\ OwnPath(c)'
  BY <1>0, <1>00, <1>28 DEF WindowExpired, threads
<1>29. ASSUME NEW t \in Thread, IpcTimeout(c, t)
      PROVE  OwnSlots' /\ OwnPath(c)'
  BY <1>0, <1>00, <1>29 DEF IpcTimeout, threads
<1>30. ASSUME NEW t \in Thread, NEW x \in SC, Attach(c, t, x)
      PROVE  OwnSlots' /\ OwnPath(c)'
  BY <1>30 DEF Attach, Unshared
<1>31. ASSUME NEW t \in User, NEW x \in SC, DetachSlot(c, t, x)
      PROVE  OwnSlots' /\ OwnPath(c)'
  <2>1. PICK i \in Slot : slots' = [slots EXCEPT ![t][i] = Nil]
    BY <1>31 DEF DetachSlot
  <2>2. pc'[c] = "detachLock"
    BY <1>0, <1>31 DEF DetachSlot
  <2>3. \A u \in Thread, j \in Slot : slots'[u][j] \in {slots[u][j], Nil}
    BY <1>0, <2>1
  <2> QED
    BY <2>2, <2>3 DEF OwnSlots, OwnPath
<1>32. ASSUME NEW t \in Thread, WakeRemote(c, t)
      PROVE  OwnSlots' /\ OwnPath(c)'
  BY <1>0, <1>00, <1>32 DEF WakeRemote, RemoteStateChange, CanWake, threads
<1>33. ASSUME NEW t \in Thread, WakeSwitch(c, t)
      PROVE  OwnSlots' /\ OwnPath(c)'
  BY <1>0, <1>00, <1>33 DEF WakeSwitch, CanWake, threads
<1>34. ASSUME NEW t \in Thread, WakeLazy(c, t)
      PROVE  OwnSlots' /\ OwnPath(c)'
  BY <1>0, <1>00, <1>34 DEF WakeLazy, CanWake, threads
<1>35. ASSUME NEW t \in User, NEW p \in Prio, SetPrioOut(c, t, p)
      PROVE  OwnSlots' /\ OwnPath(c)'
  BY <1>0, <1>00, <1>35 DEF SetPrioOut, threads
<1> QED
  BY <1>1, <1>2, <1>3, <1>4, <1>5, <1>6, <1>7, <1>8, <1>9, <1>10, <1>11, <1>12, <1>13, <1>14, <1>15, <1>16, <1>17, <1>18, <1>19, <1>20, <1>21, <1>22, <1>23, <1>24, <1>25, <1>26, <1>27, <1>28, <1>29, <1>30, <1>31, <1>32, <1>33, <1>34, <1>35
     DEF Step, Schedule, WakeUpAllBlocked, Flip, Timer, Detach, Ipc, SetPrio,
         HandleRequests

LEMMA OwnersStep ==
    ASSUME IInv, PlaceInv, Orderly, Unshared, OwnInv, NEW c \in Cpu, Step(c)
    PROVE  OwnInv'
<1>1. ListsOK /\ PathsOK /\ StateOK /\ LocalsOK
  BY TypeParts DEF IInv
<1>2. PICK w : InPlace(w)
  BY DEF PlaceInv
<1>3. PICK v : ListStepOK(c, w, v)
  BY <1>1, <1>2, ListStep DEF InPlace, PlaceInv
<1>4. OwnSlots' /\ OwnPath(c)'
  BY <1>1, OwnStep DEF OwnInv
<1>5. ASSUME NEW d \in Cpu, d # c PROVE OwnPath(d)'
  BY <1>1, <1>5, OthersKeepPath DEF OwnInv, OwnPath
<1>6. ASSUME NEW s \in SC, NEW t \in Members(hook, blocked[s])'
      PROVE  t \in Thread /\ Owns(t, s)
  <2>1. PlacedNow(v)'
    BY <1>3 DEF ListStepOK
  <2>2. Members(hook', blocked'[s]) = InBlocked(hook', v, s)
    BY <2>1, PlacedFacts DEF PlacedNow
  <2>3. t \in Thread /\ v[t] = s
    BY <1>6, <2>2 DEF InBlocked
  <2>4. CASE v[t] = w[t]
    <3>1. w[t] = s /\ InList(hook, t)
      BY <1>2, <2>3, <2>4, ThreadsFinite, PlacedType DEF InPlace
    <3>2. Members(hook, blocked[s]) = InBlocked(hook, w, s)
      BY <1>2, PlacedFacts DEF InPlace, PlacedNow
    <3> QED
      BY <2>3, <3>1, <3>2 DEF InBlocked, OwnInv, OwnLists
  <2>5. CASE v[t] # w[t]
    <3>1. pc[c] = "block" /\ t = reg[c].thr /\ s = reg[c].sc
      BY <1>3, <2>3, <2>5, ThreadsFinite DEF ListStepOK
    <3> QED
      BY <2>3, <3>1 DEF OwnInv, OwnPath
  <2> QED
    BY <2>4, <2>5
<1> QED
  BY <1>4, <1>5, <1>6 DEF OwnInv, OwnLists

LEMMA OwnersDrain == IInv /\ OwnInv /\ Unshared => DrainsOne
<1> SUFFICES ASSUME IInv, OwnInv, Unshared, NEW c \in Cpu, pc[c] = "drain",
                    NEW t \in Members(hook, blocked[reg[c].sc]),
                    NEW u \in Members(hook, blocked[reg[c].sc])
             PROVE  t = u
  BY DEF DrainsOne
<1>1. reg[c].sc \in SC
  BY DEF IInv, LocalsOK, LocalOK, HasSC
<1> QED
  BY <1>1 DEF OwnInv, OwnLists, Unshared

(* wake_up_all_blocked() never meets two contexts in one list, and all that *)
(* follows from it, where no constraint is attached to two threads: nobody  *)
(* waits in the blocked list of a constraint of another, whatever is opened *)
(* and detached meanwhile, and from whichever CPU.                          *)
THEOREM UnsharedDrains == Orderly /\ IdleFree /\ Unshared => (Spec => []DrainsOne)
<1> SUFFICES ASSUME Orderly, IdleFree, Unshared PROVE Spec => []DrainsOne
  OBVIOUS
<1> DEFINE Inv == IInv /\ PlaceInv /\ OwnInv
<1>1. Init => Inv
  <2> SUFFICES ASSUME Init PROVE OwnInv
    BY InitInv, PlaceInit
  <2>1. PlaceInv /\ \A c \in Cpu : pc[c] = "user"
    BY PlaceInit DEF Init
  <2>2. \A t \in Thread : ~ InList(hook, t)
    BY PlacedInit
  <2>3. PICK w : PlacedNow(w)
    BY <2>1 DEF PlaceInv, InPlace
  <2>4. \A s \in SC : Members(hook, blocked[s]) = {}
    BY <2>2, <2>3, PlacedFacts DEF PlacedNow, InBlocked
  <2> QED
    BY <2>1, <2>4 DEF Init, OwnInv, OwnSlots, OwnLists, OwnPath
<1>2. Inv => DrainsOne
  BY OwnersDrain
<1>3. Inv /\ [Next]_vars => Inv'
  <2> SUFFICES ASSUME Inv, [Next]_vars PROVE OwnInv'
    BY <1>2, StepInv, StepPlace
  <2>1. CASE UNCHANGED vars
    BY <2>1 DEF vars, OwnInv, OwnSlots, OwnLists, OwnPath
  <2>2. CASE Next
    <3>1. PICK c \in Cpu : Step(c)
      BY <2>2 DEF Next, Step
    <3> QED
      BY <3>1, OwnersStep
  <2> QED
    BY <2>1, <2>2
<1> HIDE DEF Inv
<1> QED
  BY <1>1, <1>2, <1>3, PTL DEF Spec

-----------------------------------------------------------------------------
(* Nobody gets lost, unless a constraint opens for whom it blocks.          *)

Openings == {"flip", "repl", "window"}
NoOpening == NoConstraint \/ Openings \cap Ops = {}

WakePath == {"flipWrite", "flipTest", "wakeLock", "notify", "drain", "fault"}
NoWakePath(c) ==
    Openings \cap Ops = {} =>
       /\ pc[c] \notin WakePath
       /\ pc[c] \in CrossCalls => reg[c].xret # "notify"

LEMMA WakePathStep ==
    ASSUME PathsOK, LocalsOK, NEW c \in Cpu, Step(c), NoWakePath(c)
    PROVE  NoWakePath(c)'
<1> USE DEF PathsOK, Goto, Return, NoWakePath, WakePath, CrossCalls, Openings
<1>0. LocalOK(c) /\ reg[c] \in Reg
  BY DEF LocalsOK

<1>1. CASE SchedEnter(c)
  BY <1>0, <1>1 DEF SchedEnter
<1>2. CASE SchedPick(c)
  BY <1>0, <1>2 DEF SchedPick
<1>3. CASE SchedCheck(c)
  BY <1>0, <1>3 DEF SchedCheck
<1>4. CASE SchedLock(c)
  BY <1>0, <1>4 DEF SchedLock
<1>5. CASE SchedRecheck(c)
  BY <1>0, <1>5 DEF SchedRecheck
<1>6. CASE SchedBlock(c)
  BY <1>0, <1>6 DEF SchedBlock
<1>7. CASE SchedAccept(c)
  BY <1>0, <1>7 DEF SchedAccept
<1>8. CASE PendingRqqEnqueue(c)
  <2>1. /\ pc[c] = "enqueue" /\ reg' = reg
        /\ pc'[c] \in {"sendIpi", reg[c].xret}
    BY <1>0, <1>8 DEF PendingRqqEnqueue
  <2>2. reg[c].xret \in {"user", "notify", "detachUnlock"}
    BY <1>0, <2>1 DEF LocalOK
  <2> QED
    BY <2>1, <2>2
<1>9. CASE SendIpi(c)
  <2>1. pc[c] = "sendIpi" /\ pc'[c] = reg[c].xret
    BY <1>0, <1>9 DEF SendIpi
  <2>2. reg[c].xret \in {"user", "notify", "detachUnlock"}
    BY <1>0, <2>1 DEF LocalOK
  <2> QED
    BY <2>1, <2>2
<1>10. CASE WakeLock(c)
  BY <1>0, <1>10 DEF WakeLock
<1>11. CASE WakeNotify(c)
  BY <1>0, <1>11 DEF WakeNotify, RemoteStateChange
<1>12. CASE WakeDrain(c)
  BY <1>0, <1>12 DEF WakeDrain, DrainBegin, DrainErase, DrainEnd
<1>13. CASE FlipWrite(c)
  BY <1>0, <1>13 DEF FlipWrite
<1>14. CASE FlipTest(c)
  BY <1>0, <1>14 DEF FlipTest
<1>15. CASE QuantExpired(c)
  BY <1>0, <1>15 DEF QuantExpired, Fired, Expire
<1>16. CASE TickEnd(c)
  BY <1>0, <1>16 DEF TickEnd
<1>17. CASE DetachLock(c)
  BY <1>0, <1>17 DEF DetachLock
<1>18. CASE DetachWork(c)
  <2>1. \/ pc'[c] = "detachUnlock"
        \/ pc'[c] = "enqueue" /\ reg'[c].xret = "detachUnlock"
    BY <1>0, <1>18 DEF DetachWork, RemoteStateChange, Reg
  <2> QED
    BY <2>1
<1>19. CASE DetachUnlock(c)
  BY <1>0, <1>19 DEF DetachUnlock
<1>20. CASE Sleep(c)
  BY <1>0, <1>20 DEF Sleep
<1>21. CASE SetPrioIn(c)
  BY <1>0, <1>21 DEF SetPrioIn
<1>22. CASE IpiArrives(c)
  BY <1>0, <1>22 DEF IpiArrives
<1>23. CASE RqqTake(c)
  BY <1>0, <1>23 DEF RqqTake
<1>24. CASE RqqApply(c)
  BY <1>0, <1>24 DEF RqqApply
<1>25. ASSUME NEW x \in SC, FlipRead(c, x)
      PROVE  NoWakePath(c)'
  BY <1>0, <1>25 DEF FlipRead
<1>26. ASSUME NEW x \in SC, OobExpired(c, x)
      PROVE  NoWakePath(c)'
  BY <1>0, <1>26 DEF OobExpired, Fired, Expire
<1>27. ASSUME NEW x \in SC, ReplExpired(c, x)
      PROVE  NoWakePath(c)'
  BY <1>0, <1>27 DEF ReplExpired, Fired, Expire
<1>28. ASSUME NEW x \in SC, WindowExpired(c, x)
      PROVE  NoWakePath(c)'
  BY <1>0, <1>28 DEF WindowExpired, Fired, Expire
<1>29. ASSUME NEW t \in Thread, IpcTimeout(c, t)
      PROVE  NoWakePath(c)'
  BY <1>0, <1>29 DEF IpcTimeout, Fired, Expire
<1>30. ASSUME NEW t \in Thread, NEW x \in SC, Attach(c, t, x)
      PROVE  NoWakePath(c)'
  BY <1>0, <1>30 DEF Attach
<1>31. ASSUME NEW t \in User, NEW x \in SC, DetachSlot(c, t, x)
      PROVE  NoWakePath(c)'
  BY <1>0, <1>31 DEF DetachSlot
<1>32. ASSUME NEW t \in Thread, WakeRemote(c, t)
      PROVE  NoWakePath(c)'
  BY <1>0, <1>32 DEF WakeRemote, RemoteStateChange, CanWake, LocalOK, Reg
<1>33. ASSUME NEW t \in Thread, WakeSwitch(c, t)
      PROVE  NoWakePath(c)'
  BY <1>0, <1>33 DEF WakeSwitch, CanWake
<1>34. ASSUME NEW t \in Thread, WakeLazy(c, t)
      PROVE  NoWakePath(c)'
  BY <1>0, <1>34 DEF WakeLazy, CanWake
<1>35. ASSUME NEW t \in User, NEW p \in Prio, SetPrioOut(c, t, p)
      PROVE  NoWakePath(c)'
  BY <1>0, <1>35 DEF SetPrioOut
<1> QED
  BY <1>1, <1>2, <1>3, <1>4, <1>5, <1>6, <1>7, <1>8, <1>9, <1>10, <1>11, <1>12, <1>13, <1>14, <1>15, <1>16, <1>17, <1>18, <1>19, <1>20, <1>21, <1>22, <1>23, <1>24, <1>25, <1>26, <1>27, <1>28, <1>29, <1>30, <1>31, <1>32, <1>33, <1>34, <1>35
     DEF Step, Schedule, WakeUpAllBlocked, Flip, Timer, Detach, Ipc, SetPrio,
         HandleRequests

\* Nobody drains a list then, or the list is empty.
LEMMA NothingToDrain ==
    ASSUME IInv, PlaceInv, NoOpening, \A d \in Cpu : NoWakePath(d)
    PROVE  DrainsOne
<1> SUFFICES ASSUME NEW c \in Cpu, pc[c] = "drain"
             PROVE  \A t, u \in Members(hook, blocked[reg[c].sc]) : t = u
  BY DEF DrainsOne
<1>1. NoConstraint
  BY DEF NoOpening, NoWakePath, WakePath
<1>2. reg[c].sc \in SC /\ Nil \notin SC
  BY ConstantAssumption DEF IInv, LocalsOK, LocalOK, HasSC
<1>3. PICK w : PlacedNow(w) /\ \A t \in Thread : w[t] = Nil
  BY <1>1 DEF PlaceInv, InPlace
<1>4. Members(hook, blocked[reg[c].sc]) = InBlocked(hook, w, reg[c].sc)
  BY <1>2, <1>3, PlacedFacts DEF PlacedNow
<1> QED
  BY <1>2, <1>3, <1>4 DEF InBlocked

-----------------------------------------------------------------------------
InHand == {"apply", "setPrio"}
Adrift(t) == ready[t] /\ ~ InList(hook, t) /\ ~ pending[t]

LEMMA LostParts ==
    NoThreadLost <=>
       \A t \in User : Adrift(t) =>
          \E c \in Cpu : curr[c] = t \/ (t = reg[c].thr /\ pc[c] \in InHand)
BY DEF NoThreadLost, Adrift, InHand

LEMMA LostPartsNext ==
    NoThreadLost' <=>
       \A t \in User : Adrift(t)' =>
          \E c \in Cpu : curr'[c] = t \/ (t = reg'[c].thr /\ pc'[c] \in InHand)
BY DEF NoThreadLost, Adrift, InHand

\* Who is adrift after a step of c is with c, or was so before and not with c.
LostStepOK(c, t) ==
    Adrift(t)' =>
       \/ curr'[c] = t \/ (t = reg'[c].thr /\ pc'[c] \in InHand)
       \/ Adrift(t) /\ curr[c] # t /\ ~ (t = reg[c].thr /\ pc[c] \in InHand)

LEMMA LostStep ==
    ASSUME PathsOK, StateOK, LocalsOK, NEW c \in Cpu, Step(c), Orderly, NoOpening,
           AtHome(c), NoWakePath(c), DrainOK(c),
           NEW w, PlacedNow(w), NoConstraint => \A t \in Thread : w[t] = Nil,
           LinkOK(c, w), NEW u \in User
    PROVE  LostStepOK(c, u)
<1> USE DEF LostStepOK, Adrift, InHand
<1>0. /\ LocalOK(c) /\ AtHome(c) /\ LinkOK(c, w) /\ NoWakePath(c)
      /\ User \subseteq Thread /\ \A t \in Thread : Home[t] \in Cpu
      /\ curr \in [Cpu -> Thread] /\ rqcur \in [Cpu -> Thread]
      /\ reg \in [Cpu -> Reg] /\ pc \in [Cpu -> Labels]
      /\ ready \in [Thread -> BOOLEAN] /\ pending \in [Thread -> BOOLEAN]
      /\ w \in [Thread -> OrNil(SC)] /\ Nil \notin SC
      /\ \A t \in Thread : w[t] # Nil => InList(hook, t)
      /\ Home[curr[c]] = c /\ Home[rqcur[c]] = c
      /\ u \in Thread
  BY ConstantAssumption, PlacedType DEF LocalsOK, StateOK, PathsOK, AtHome, User
<1>00. ASSUME hook' = hook, ready' = ready, pending' = pending, curr' = curr, pc[c] \notin InHand
       PROVE  LostStepOK(c, u)
  BY <1>00 DEF InList
<1>01. ASSUME NEW t \in Thread, LinkedToo(hook, hook', t), curr' = curr, pc[c] \notin InHand \/ reg[c].thr = t,
              \A x \in Thread : x # t => ready'[x] = ready[x] /\ pending'[x] = pending[x]
       PROVE  LostStepOK(c, u)
  BY <1>0, <1>01 DEF LinkedToo
<1>02. ASSUME NEW t \in Thread, curr'[c] = t, pc[c] \notin InHand, pending' = pending,
              \A x \in Thread : InList(hook', x) <=> InList(hook, x) \/ (x = curr[c] /\ ready[x]),
              \A x \in Thread : x # t => ready'[x] = ready[x]
       PROVE  LostStepOK(c, u)
  BY <1>0, <1>02

<1>1. CASE SchedEnter(c)
  <2>1. /\ UpdateReadyList(c) /\ blocked' = blocked /\ prio' = prio /\ ready' = ready
        /\ pending' = pending /\ curr' = curr /\ pc[c] = "sched"
    BY <1>1 DEF SchedEnter, threads, remote, runs
  <2>2. \A x \in Thread : InList(hook', x) <=> InList(hook, x) \/ (x = curr[c] /\ ready[x])
    BY <1>0, <2>1, ListsUpdate
  <2>3. PICK t \in Thread : t = curr[c]
    BY <1>0
  <2> QED
    BY <1>02, <2>1, <2>2, <2>3
<1>2. CASE SchedPick(c)
  BY <1>00, <1>2 DEF SchedPick, lists, remote, runs
<1>3. CASE SchedCheck(c)
  BY <1>00, <1>3 DEF SchedCheck, lists, remote, runs
<1>4. CASE SchedLock(c)
  BY <1>00, <1>4 DEF SchedLock, lists, remote, runs
<1>5. CASE SchedRecheck(c)
  BY <1>00, <1>5 DEF SchedRecheck, lists, remote, runs
<1>6. CASE SchedBlock(c)
  <2>1. /\ reg[c].thr \in Thread /\ Home[reg[c].thr] = c /\ reg[c].sc \in SC
        /\ w[reg[c].thr] = Nil /\ pc[c] = "block"
        /\ curr' = curr /\ ready' = ready /\ pending' = pending
    BY <1>0, <1>6 DEF SchedBlock, LocalOK, HasThread, HasSC, AtHome, LinkOK, Checking, remote, runs
  <2>2. PICK t \in Thread, s \in SC : t = reg[c].thr /\ s = reg[c].sc
    BY <2>1
  <2>3. LinkedToo(hook, hook', t)
    BY <1>6, <2>1, <2>2, ListsBlock
  <2> QED
    BY <1>01, <2>1, <2>3
<1>7. CASE SchedAccept(c)
  <2>1. /\ blocked' = blocked /\ prio' = prio /\ pc[c] = "check"
        /\ ready' = ready /\ pending' = pending
    BY <1>7 DEF SchedAccept, threads, remote
  <2>0. PICK t \in Thread : t = reg[c].thr /\ Home[t] = c /\ w[t] = Nil
    BY <1>0, <2>1 DEF LocalOK, HasThread, AtHome, LinkOK, Checking
  <2>2. CASE ready[t] /\ t = curr[c]
    <3>1. curr'[c] = t /\ hook' = hook /\ \A x \in Thread : ready'[x] = ready[x]
      BY <1>0, <1>7, <2>0, <2>1, <2>2 DEF SchedAccept, ScheduleSwitchTo, lists
    <3> QED
      BY <1>0, <2>1, <2>2, <3>1 DEF InList
  <2>3. CASE ready[t] /\ t # curr[c]
    <3>1. curr'[c] = t /\ UpdateReadyList(c)
      BY <1>0, <1>7, <2>0, <2>1, <2>3 DEF SchedAccept, ScheduleSwitchTo
    <3>2. \A x \in Thread : InList(hook', x) <=> InList(hook, x) \/ (x = curr[c] /\ ready[x])
      BY <1>0, <2>1, <3>1, ListsUpdate
    <3> QED
      BY <1>02, <2>1, <3>1, <3>2
  <2>4. CASE ~ ready[t]
    <3>1. SetRq(c, DequeueOn(c, t)) /\ curr' = curr
      BY <1>7, <2>0, <2>4 DEF SchedAccept, runs
    <3>2. LinkedNot(hook, hook', t)
      BY <2>0, <2>1, <3>1, ListsDequeue
    <3> QED
      BY <1>0, <2>1, <2>4, <3>1, <3>2 DEF LinkedNot
  <2> QED
    BY <2>2, <2>3, <2>4
<1>8. CASE PendingRqqEnqueue(c)
  BY <1>00, <1>8 DEF PendingRqqEnqueue, lists, remote, runs
<1>9. CASE SendIpi(c)
  BY <1>00, <1>9 DEF SendIpi, lists, remote, runs
<1>10. CASE WakeLock(c)
  BY <1>00, <1>10 DEF WakeLock, lists, remote, runs
<1>11. CASE WakeNotify(c)
  <2>1. /\ blocked' = blocked /\ prio' = prio /\ pc[c] = "notify" /\ curr' = curr
    BY <1>11 DEF WakeNotify, threads, runs
  <2>2. CASE reg[c].it = Nil
    BY <1>00, <1>11, <2>1, <2>2 DEF WakeNotify, lists
  <2>3. CASE reg[c].it # Nil
    <3>1. PICK t \in Thread : t = reg[c].it
      BY <1>0, <2>3 DEF Reg, OrNil
    <3>2. CASE Home[t] = c
      <4>1. /\ SetRq(c, EnqueueOn(c, t)) /\ ready' = [ready EXCEPT ![t] = TRUE] /\ pending' = pending
        BY <1>11, <2>3, <3>1, <3>2 DEF WakeNotify
      <4>2. LinkedToo(hook, hook', t)
        BY <2>1, <3>2, <4>1, ListsEnqueue
      <4> QED
        BY <1>0, <1>01, <2>1, <4>1, <4>2
    <3>3. CASE Home[t] # c
      <4>1. /\ hook' = hook /\ ready' = ready /\ pending' = [pending EXCEPT ![t] = TRUE]
        BY <1>11, <2>3, <3>1, <3>3 DEF WakeNotify, lists, RemoteStateChange
      <4> QED
        BY <1>0, <2>1, <4>1 DEF InList
    <3> QED
      BY <3>2, <3>3
  <2> QED
    BY <2>2, <2>3
<1>12. CASE WakeDrain(c)
  <2>1. /\ pc[c] = "drain" /\ reg[c].sc \in SC
        /\ ready' = ready /\ pending' = pending /\ curr' = curr
    BY <1>0, <1>12 DEF WakeDrain, DrainBegin, DrainErase, DrainEnd, remote, runs, LocalOK, HasSC
  <2>2. NoConstraint
    BY <1>0, <2>1 DEF NoOpening, NoWakePath, WakePath
  <2>3. blocked[reg[c].sc] = Nil
    BY <1>0, <2>1, <2>2, PlacedFacts DEF PlacedNow
  <2>4. hook' = hook
    BY <1>12, <2>1, <2>3 DEF WakeDrain, DrainBegin, DrainErase, DrainEnd, DrainOK, lists
  <2> QED
    BY <1>00, <2>1, <2>4
<1>13. CASE FlipWrite(c)
  BY <1>00, <1>13 DEF FlipWrite, lists, remote, runs
<1>14. CASE FlipTest(c)
  BY <1>00, <1>14 DEF FlipTest, lists, remote, runs
<1>15. CASE QuantExpired(c)
  <2>1. PICK t \in Thread : t = rqcur[c]
    BY <1>0
  <2>2. /\ blocked' = blocked /\ prio' = prio /\ pc[c] \in {"user", "tick"}
        /\ SetRq(c, Requeue(hook, rq[c], t, prio[t]))
        /\ ready' = ready /\ pending' = pending /\ curr' = curr
    BY <1>15, <2>1 DEF QuantExpired, threads, remote, Expire
  <2>3. w[t] = Nil /\ Home[t] = c
    BY <1>0, <2>1, <2>2 DEF LinkOK, Picking, Checking
  <2>4. LinkedToo(hook, hook', t)
    BY <2>2, <2>3, ListsRequeue
  <2> QED
    BY <1>01, <2>2, <2>4
<1>16. CASE TickEnd(c)
  BY <1>00, <1>16 DEF TickEnd, lists, remote, runs
<1>17. CASE DetachLock(c)
  BY <1>00, <1>17 DEF DetachLock, lists, remote, runs
<1>18. CASE DetachWork(c)
  <2>1. /\ prio' = prio /\ pc[c] = "detachWork" /\ reg[c].sc \in SC /\ reg[c].thr \in Thread
        /\ curr' = curr
    BY <1>0, <1>18 DEF DetachWork, threads, runs, LocalOK, HasSC, HasThread
  <2>2. PICK s \in SC, t \in Thread : s = reg[c].sc /\ t = reg[c].thr
    BY <2>1
  <2>3. CASE t \notin Members(hook, blocked[s])
    <3>1. hook' = hook /\ ready' = ready /\ pending' = pending
      BY <1>18, <2>2, <2>3 DEF DetachWork, lists
    <3> QED
      BY <1>00, <2>1, <3>1
  <2>4. CASE t \in Members(hook, blocked[s])
    <3>1. w[t] = s
      BY <2>4, PlacedFacts DEF PlacedNow, InBlocked
    <3>2. CASE Home[t] = c
      <4>1. /\ hook' = ReadyEnqueue(RemoveItem(hook, blocked[s], t).hook, rq[c], t, prio[t]).hook
            /\ rq' = [rq EXCEPT ![c] =
                        ReadyEnqueue(RemoveItem(hook, blocked[s], t).hook, rq[c], t, prio[t]).rq]
            /\ blocked' = [blocked EXCEPT ![s] = RemoveItem(hook, blocked[s], t).head]
            /\ ready' = [ready EXCEPT ![t] = TRUE] /\ pending' = pending
        BY <1>18, <2>2, <2>4, <3>2 DEF DetachWork, SetRq
      <4>2. LinkedToo(hook, hook', t)
        BY <2>1, <3>1, <3>2, <4>1, ListsRelease
      <4> QED
        BY <1>0, <1>01, <2>1, <4>1, <4>2
    <3>3. CASE Home[t] # c
      <4>1. /\ hook' = RemoveItem(hook, blocked[s], t).hook /\ rq' = rq
            /\ blocked' = [blocked EXCEPT ![s] = RemoveItem(hook, blocked[s], t).head]
            /\ ready' = ready /\ pending' = [pending EXCEPT ![t] = TRUE]
        BY <1>18, <2>2, <2>4, <3>3 DEF DetachWork, RemoteStateChange
      <4>2. LinkedNot(hook, hook', t)
        BY <2>1, <3>1, <4>1, ListsTake
      <4> QED
        BY <1>0, <2>1, <4>1, <4>2 DEF LinkedNot
    <3> QED
      BY <3>2, <3>3
  <2> QED
    BY <2>3, <2>4
<1>19. CASE DetachUnlock(c)
  BY <1>00, <1>19 DEF DetachUnlock, lists, remote, runs
<1>20. CASE Sleep(c)
  <2>1. hook' = hook /\ ready' = [ready EXCEPT ![curr[c]] = FALSE] /\ pending' = pending /\ curr' = curr
        /\ pc[c] = "user"
    BY <1>20 DEF Sleep, lists, remote, runs
  <2> QED
    BY <1>0, <2>1 DEF InList
<1>21. CASE SetPrioIn(c)
  <2>1. /\ reg[c].thr \in Thread /\ blocked' = blocked /\ prio' = prio
        /\ SetRq(Home[reg[c].thr], EnqueueOn(Home[reg[c].thr], reg[c].thr))
        /\ ready' = ready /\ pending' = pending /\ curr' = curr
    BY <1>0, <1>21 DEF SetPrioIn, threads, remote, runs, LocalOK, HasThread
  <2>2. PICK t \in Thread : t = reg[c].thr
    BY <2>1
  <2>3. LinkedToo(hook, hook', t)
    BY <1>0, <2>1, <2>2, ListsEnqueue
  <2> QED
    BY <1>01, <2>1, <2>2, <2>3
<1>22. CASE IpiArrives(c)
  BY <1>00, <1>22 DEF IpiArrives, lists, remote, runs
<1>23. CASE RqqTake(c)
  BY <1>00, <1>23 DEF RqqTake, lists, remote, runs
<1>24. CASE RqqApply(c)
  <2>1. /\ reg[c].thr \in Thread /\ Home[reg[c].thr] = c /\ blocked' = blocked /\ prio' = prio
        /\ curr' = curr /\ pc[c] = "apply"
    BY <1>0, <1>24 DEF RqqApply, threads, runs, LocalOK, HasThread, AtHome
  <2>2. PICK t \in Thread : t = reg[c].thr
    BY <2>1
  <2>3. /\ ready' = [ready EXCEPT ![t] = ready[t] \/ pending[t]]
        /\ pending' = [pending EXCEPT ![t] = FALSE]
        /\ IF t # curr[c] /\ (ready[t] \/ pending[t]) THEN SetRq(c, EnqueueOn(c, t)) ELSE UNCHANGED lists
    BY <1>24, <2>2 DEF RqqApply
  <2>4. CASE t # curr[c] /\ (ready[t] \/ pending[t])
    <3>1. LinkedToo(hook, hook', t)
      BY <2>1, <2>2, <2>3, <2>4, ListsEnqueue
    <3> QED
      BY <1>0, <1>01, <2>1, <2>2, <2>3, <3>1
  <2>5. CASE ~ (t # curr[c] /\ (ready[t] \/ pending[t]))
    <3>1. hook' = hook
      BY <2>3, <2>5 DEF lists
    <3> QED
      BY <1>0, <2>1, <2>2, <2>3, <2>5, <3>1 DEF InList
  <2> QED
    BY <2>4, <2>5
<1>25. ASSUME NEW x \in SC, FlipRead(c, x)
      PROVE  LostStepOK(c, u)
  BY <1>00, <1>25 DEF FlipRead, lists, remote, runs
<1>26. ASSUME NEW x \in SC, OobExpired(c, x)
      PROVE  LostStepOK(c, u)
  BY <1>00, <1>26 DEF OobExpired, Fired, Expire, lists, remote, runs
<1>27. ASSUME NEW x \in SC, ReplExpired(c, x)
      PROVE  LostStepOK(c, u)
  BY <1>00, <1>27 DEF ReplExpired, Fired, Expire, lists, remote, runs
<1>28. ASSUME NEW x \in SC, WindowExpired(c, x)
      PROVE  LostStepOK(c, u)
  BY <1>00, <1>28 DEF WindowExpired, Fired, Expire, lists, remote, runs
<1>29. ASSUME NEW t \in Thread, IpcTimeout(c, t)
      PROVE  LostStepOK(c, u)
  <2>1. /\ blocked' = blocked /\ prio' = prio /\ curr' = curr /\ pending' = pending
        /\ ready' = [ready EXCEPT ![t] = TRUE] /\ SetRq(c, EnqueueOn(c, t)) /\ Home[t] = c
        /\ pc[c] \in {"user", "tick"}
    BY <1>29 DEF IpcTimeout, threads, remote, runs, Expire
  <2>2. LinkedToo(hook, hook', t)
    BY <2>1, ListsEnqueue
  <2> QED
    BY <1>0, <1>01, <2>1, <2>2
<1>30. ASSUME NEW t \in Thread, NEW x \in SC, Attach(c, t, x)
      PROVE  LostStepOK(c, u)
  BY <1>00, <1>30 DEF Attach, lists, remote, runs
<1>31. ASSUME NEW t \in User, NEW x \in SC, DetachSlot(c, t, x)
      PROVE  LostStepOK(c, u)
  BY <1>00, <1>31 DEF DetachSlot, lists, remote, runs
<1>32. ASSUME NEW t \in Thread, WakeRemote(c, t)
      PROVE  LostStepOK(c, u)
  <2>1. hook' = hook /\ ready' = ready /\ pending' = [pending EXCEPT ![t] = TRUE] /\ curr' = curr
        /\ pc[c] = "user"
    BY <1>32 DEF WakeRemote, lists, runs, RemoteStateChange, CanWake
  <2> QED
    BY <1>0, <2>1 DEF InList
<1>33. ASSUME NEW t \in Thread, WakeSwitch(c, t)
      PROVE  LostStepOK(c, u)
  <2>1. /\ UpdateReadyList(c) /\ blocked' = blocked /\ prio' = prio /\ pending' = pending
        /\ ready' = [ready EXCEPT ![t] = TRUE] /\ curr'[c] = t /\ pc[c] = "user"
    BY <1>0, <1>33 DEF WakeSwitch, threads, remote, CanWake
  <2>2. \A x \in Thread : InList(hook', x) <=> InList(hook, x) \/ (x = curr[c] /\ ready[x])
    BY <1>0, <2>1, ListsUpdate
  <2> QED
    BY <1>0, <1>02, <2>1, <2>2
<1>34. ASSUME NEW t \in Thread, WakeLazy(c, t)
      PROVE  LostStepOK(c, u)
  <2>1. /\ blocked' = blocked /\ prio' = prio /\ pc[c] = "user" /\ Home[t] = c /\ pending' = pending
        /\ ready' = [ready EXCEPT ![t] = TRUE]
    BY <1>34 DEF WakeLazy, threads, remote, CanWake
  <2>2. CASE Preempts(prio, t, curr[c], rqcur[c])
    <3>1. UpdateReadyList(c) /\ curr'[c] = t
      BY <1>0, <1>34, <2>2 DEF WakeLazy, ScheduleSwitchTo
    <3>2. \A x \in Thread : InList(hook', x) <=> InList(hook, x) \/ (x = curr[c] /\ ready[x])
      BY <1>0, <2>1, <3>1, ListsUpdate
    <3> QED
      BY <1>0, <1>02, <2>1, <3>1, <3>2
  <2>3. CASE ~ Preempts(prio, t, curr[c], rqcur[c])
    <3>1. SetRq(c, EnqueueOn(c, t)) /\ curr' = curr
      BY <1>34, <2>3 DEF WakeLazy, runs
    <3>2. LinkedToo(hook, hook', t)
      BY <2>1, <3>1, ListsEnqueue
    <3> QED
      BY <1>0, <1>01, <2>1, <3>1, <3>2
  <2> QED
    BY <2>2, <2>3
<1>35. ASSUME NEW t \in User, NEW p \in Prio, SetPrioOut(c, t, p)
      PROVE  LostStepOK(c, u)
  <2>1. NoConstraint /\ pc[c] = "user" /\ curr' = curr /\ ready' = ready /\ pending' = pending
    BY <1>35 DEF SetPrioOut, Orderly, remote, runs
  <2>2. t \in Thread /\ w[t] = Nil
    BY <1>0, <2>1
  <2>3. LinkedNot(hook, hook', t)
    BY <1>35, <2>2, ListsReprio
  <2>4. InList(hook, t) => reg'[c].thr = t /\ pc'[c] = "setPrio"
    BY <1>0, <1>35 DEF SetPrioOut, Goto, Reg
  <2>5. \A x \in Thread : ready'[x] = ready[x] /\ pending'[x] = pending[x]
    BY <2>1
  <2> QED
    BY <1>0, <2>1, <2>2, <2>3, <2>4, <2>5 DEF LinkedNot
<1> QED
  BY <1>1, <1>2, <1>3, <1>4, <1>5, <1>6, <1>7, <1>8, <1>9, <1>10, <1>11, <1>12, <1>13, <1>14, <1>15, <1>16, <1>17, <1>18, <1>19, <1>20, <1>21, <1>22, <1>23, <1>24, <1>25, <1>26, <1>27, <1>28, <1>29, <1>30, <1>31, <1>32, <1>33, <1>34, <1>35
     DEF Step, Schedule, WakeUpAllBlocked, Flip, Timer, Detach, Ipc, SetPrio,
         HandleRequests

LEMMA StepLost ==
    ASSUME IInv, PlaceInv, Orderly, NoOpening, \A d \in Cpu : NoWakePath(d),
           NoThreadLost, [Next]_vars
    PROVE  NoThreadLost' /\ \A d \in Cpu : NoWakePath(d)'
<1>1. CASE UNCHANGED vars
  BY <1>1 DEF vars, NoThreadLost, NoWakePath, InList
<1>2. CASE Next
  <2>1. PICK c \in Cpu : Step(c)
    BY <1>2 DEF Next, Step
  <2>2. ListsOK /\ PathsOK /\ StateOK /\ LocalsOK
    BY TypeParts DEF IInv
  <2>3. PICK w : InPlace(w)
    BY DEF PlaceInv
  <2>4. /\ PlacedNow(w) /\ (NoConstraint => \A t \in Thread : w[t] = Nil)
        /\ LinkOK(c, w) /\ \A d \in Cpu : AtHome(d)
        /\ SlotsOK /\ DrainOK(c)
    BY <2>3 DEF InPlace, PlaceInv
  <2>5. HomeStepOK(c)
    BY <2>1, <2>2, <2>4, HomeStep, NextPlaced
  <2>6. \A d \in Cpu : d # c => pc'[d] = pc[d] /\ reg'[d] = reg[d] /\ curr'[d] = curr[d]
    BY <2>1, <2>2, <2>5, OthersKeepPath DEF HomeStepOK
  <2>7. ASSUME NEW t \in User, Adrift(t)'
        PROVE  \E d \in Cpu : curr'[d] = t \/ (t = reg'[d].thr /\ pc'[d] \in InHand)
    <3>1. LostStepOK(c, t)
      BY <2>1, <2>2, <2>4, LostStep
    <3>2. Adrift(t) => \E d \in Cpu : curr[d] = t \/ (t = reg[d].thr /\ pc[d] \in InHand)
      BY LostParts
    <3> QED
      BY <2>6, <2>7, <3>1, <3>2 DEF LostStepOK
  <2>8. NoThreadLost'
    BY <2>7, LostPartsNext
  <2>9. ASSUME NEW d \in Cpu PROVE NoWakePath(d)'
    <3>1. CASE d = c
      BY <2>1, <2>2, <3>1, WakePathStep
    <3>2. CASE d # c
      BY <2>6, <3>2 DEF NoWakePath
    <3> QED
      BY <3>1, <3>2
  <2> QED
    BY <2>8, <2>9
<1> QED
  BY <1>1, <1>2

(* A ready context that is in no list has the CPU, or a CPU is about to     *)
(* queue it, or it has asked for that: blocking, detach(), remote and lazy  *)
(* wake-ups and changes of the priority lose nobody. Constraints do not     *)
(* open here: deblock() loses whom an opening constraint releases on its    *)
(* own CPU (run lost_wakeup).                                               *)
THEOREM NobodyLost == Orderly /\ IdleFree /\ NoOpening => (Spec => []NoThreadLost)
<1> SUFFICES ASSUME Orderly, IdleFree, NoOpening PROVE Spec => []NoThreadLost
  OBVIOUS
<1> DEFINE Found == NoThreadLost /\ \A d \in Cpu : NoWakePath(d)
<1>1. Init => Found
  <2> SUFFICES ASSUME Init PROVE Found
    OBVIOUS
  <2>1. \A t \in User : ~ ready[t] /\ t \in Thread
    BY DEF Init, User
  <2>2. \A d \in Cpu : pc[d] = "user"
    BY DEF Init
  <2> QED
    BY <2>1, <2>2 DEF NoThreadLost, NoWakePath, WakePath, CrossCalls
<1>2. Found /\ IInv /\ PlaceInv /\ [Next]_vars => Found'
  BY StepLost
<1>3. Found => NoThreadLost
  OBVIOUS
<1>4. Found /\ IInv /\ PlaceInv => DrainsOne
  BY NothingToDrain
<1> HIDE DEF Found
<1>5. Init => IInv /\ PlaceInv
  BY InitInv, PlaceInit
<1>6. Found /\ IInv /\ PlaceInv /\ [Next]_vars => (IInv /\ PlaceInv)'
  BY <1>4, StepInv, StepPlace
<1> QED
  BY <1>1, <1>2, <1>3, <1>5, <1>6, PTL DEF Spec

-----------------------------------------------------------------------------
(* The most urgent runs, where time slices are not given away, priorities   *)
(* stay and nobody is released from a constraint.                           *)

Settled ==
    /\ NoOpening
    /\ NoConstraint \/ "detach" \notin Ops
    /\ "wakeSwitch" \notin Ops /\ "setPrio" \notin Ops

\* no list more urgent than n is in use
Top(q, n) == \A p \in Prio : p > n => q.queue[p] = Nil

Urgent(c) ==
    /\ curr[c] = rqcur[c]
    /\ pc[c] \in Picking /\ ready[curr[c]] => InList(hook, curr[c])
    /\ pc[c] \in Checking => Top(rq[c], prio[reg[c].thr])
    /\ pc[c] \notin Picking \cup {"sched"} /\ ~ reg[c].resched => Top(rq[c], prio[curr[c]])

\* Only a timer interrupt and the requests ask for another decision.
Calm(c) ==
    /\ pc[c] \notin {"detachLock", "detachWork", "detachUnlock", "setPrio"}
    /\ pc[c] \in CrossCalls => reg[c].xret # "detachUnlock"
    /\ \/ pc[c] \in {"user", "flipWrite", "flipTest"}
       \/ pc[c] \in CrossCalls /\ reg[c].xret = "user"
       => reg[c].wret = "user"
    /\ pc[c] \in {"user"} \cup WakePath \cup CrossCalls /\ reg[c].wret = "user" => ~ reg[c].resched
    /\ NoConstraint => reg[c].it = Nil

LEMMA CalmStep ==
    ASSUME PathsOK, LocalsOK, SlotsOK, NEW c \in Cpu, Step(c), Settled, Calm(c),
           NEW w, PlacedNow(w), NoConstraint => \A t \in Thread : w[t] = Nil
    PROVE  Calm(c)'
<1> USE DEF PathsOK, Goto, Return, Calm, WakePath, CrossCalls
<1>0. LocalOK(c) /\ reg[c] \in Reg /\ Calm(c) /\ pc[c] \in Labels /\ Nil \notin SC
  BY ConstantAssumption DEF LocalsOK

<1>1. CASE SchedEnter(c)
  BY <1>0, <1>1 DEF SchedEnter, NoReg, Reg
<1>2. CASE SchedPick(c)
  BY <1>0, <1>2 DEF SchedPick, NoReg, Reg
<1>3. CASE SchedCheck(c)
  BY <1>0, <1>3 DEF SchedCheck, NoReg, Reg
<1>4. CASE SchedLock(c)
  BY <1>0, <1>4 DEF SchedLock, NoReg, Reg
<1>5. CASE SchedRecheck(c)
  BY <1>0, <1>5 DEF SchedRecheck, NoReg, Reg
<1>6. CASE SchedBlock(c)
  BY <1>0, <1>6 DEF SchedBlock, NoReg, Reg
<1>7. CASE SchedAccept(c)
  BY <1>0, <1>7 DEF SchedAccept, NoReg, Reg
<1>8. CASE PendingRqqEnqueue(c)
  <2>1. pc[c] = "enqueue" /\ pc'[c] \in {"sendIpi", reg[c].xret} /\ reg'[c] = reg[c]
    BY <1>0, <1>8 DEF PendingRqqEnqueue
  <2>2. reg[c].xret \in {"user", "notify"}
    BY <1>0, <2>1 DEF LocalOK
  <2> QED
    BY <1>0, <2>1, <2>2
<1>9. CASE SendIpi(c)
  <2>1. pc[c] = "sendIpi" /\ pc'[c] = reg[c].xret /\ reg'[c] = reg[c]
    BY <1>0, <1>9 DEF SendIpi
  <2>2. reg[c].xret \in {"user", "notify"}
    BY <1>0, <2>1 DEF LocalOK
  <2> QED
    BY <1>0, <2>1, <2>2
<1>10. CASE WakeLock(c)
  <2>1. /\ pc[c] = "wakeLock" /\ reg[c].sc \in SC
        /\ pc'[c] = "notify" /\ reg' = [reg EXCEPT ![c].it = blocked[reg[c].sc]]
    BY <1>0, <1>10 DEF WakeLock, LocalOK, HasSC
  <2>2. NoConstraint => blocked[reg[c].sc] = Nil
    BY <1>0, <2>1, PlacedFacts DEF PlacedNow
  <2> QED
    BY <1>0, <2>1, <2>2 DEF Reg
<1>11. CASE WakeNotify(c)
  <2>1. pc[c] = "notify" /\ pc'[c] \in {"notify", "drain", "enqueue"}
    BY <1>0, <1>11 DEF WakeNotify, RemoteStateChange
  <2>2. pc'[c] = "enqueue" => reg'[c].xret = "notify"
    BY <1>0, <1>11 DEF WakeNotify, RemoteStateChange, Reg
  <2>3. reg'[c].wret = reg[c].wret /\ reg'[c].resched = reg[c].resched
    BY <1>0, <1>11 DEF WakeNotify, Reg
  <2>4. reg[c].it = Nil => reg'[c].it = Nil
    BY <1>0, <1>11 DEF WakeNotify
  <2> QED
    BY <1>0, <2>1, <2>2, <2>3, <2>4
<1>12. CASE WakeDrain(c)
  <2>1. /\ reg[c].wret \in {"user", "tick"} /\ pc[c] = "drain" /\ reg[c].sc \in SC
    BY <1>0, <1>12 DEF WakeDrain, DrainBegin, DrainErase, DrainEnd, LocalOK, HasSC
  <2>2. CASE DrainEnd(c)
    <3>1. /\ pc'[c] = reg[c].wret
          /\ reg'[c] = [NoReg EXCEPT !.resched = reg[c].resched, !.fired = reg[c].fired]
      BY <1>0, <2>2 DEF DrainEnd
    <3> QED
      BY <1>0, <2>1, <3>1 DEF NoReg
  <2>3. CASE DrainBegin(c) \/ DrainErase(c)
    <3>1. ~ NoConstraint
      <4>1. NoConstraint => blocked[reg[c].sc] = Nil
        BY <1>0, <2>1, PlacedFacts DEF PlacedNow
      <4> QED
        BY <1>0, <2>3, <4>1 DEF DrainBegin, DrainErase
    <3>2. pc'[c] \in {"drain", "fault"}
      BY <1>0, <2>1, <2>3 DEF DrainBegin, DrainErase
    <3>3. reg'[c].wret = reg[c].wret /\ reg'[c].resched = reg[c].resched
      BY <1>0, <2>3 DEF DrainBegin, DrainErase, Reg
    <3> QED
      BY <1>0, <2>1, <3>1, <3>2, <3>3
  <2> QED
    BY <1>12, <2>2, <2>3 DEF WakeDrain
<1>13. CASE FlipWrite(c)
  BY <1>0, <1>13 DEF FlipWrite, NoReg, Reg
<1>14. CASE FlipTest(c)
  BY <1>0, <1>14 DEF FlipTest, NoReg, Reg
<1>15. CASE QuantExpired(c)
  BY <1>0, <1>15 DEF QuantExpired, Fired, Expire, NoReg, Reg
<1>16. CASE TickEnd(c)
  BY <1>0, <1>16 DEF TickEnd, NoReg, Reg
<1>17. CASE DetachLock(c)
  BY <1>0, <1>17 DEF DetachLock
<1>18. CASE DetachWork(c)
  BY <1>0, <1>18 DEF DetachWork
<1>19. CASE DetachUnlock(c)
  BY <1>0, <1>19 DEF DetachUnlock
<1>20. CASE Sleep(c)
  BY <1>0, <1>20 DEF Sleep, NoReg, Reg
<1>21. CASE SetPrioIn(c)
  BY <1>0, <1>21 DEF SetPrioIn
<1>22. CASE IpiArrives(c)
  BY <1>0, <1>22 DEF IpiArrives, NoReg, Reg
<1>23. CASE RqqTake(c)
  BY <1>0, <1>23 DEF RqqTake, NoReg, Reg
<1>24. CASE RqqApply(c)
  BY <1>0, <1>24 DEF RqqApply, NoReg, Reg
<1>25. ASSUME NEW x \in SC, FlipRead(c, x)
      PROVE  Calm(c)'
  BY <1>0, <1>25 DEF FlipRead, NoReg, Reg
<1>26. ASSUME NEW x \in SC, OobExpired(c, x)
      PROVE  Calm(c)'
  BY <1>0, <1>26 DEF OobExpired, Fired, Expire, NoReg, Reg
<1>27. ASSUME NEW x \in SC, ReplExpired(c, x)
      PROVE  Calm(c)'
  BY <1>0, <1>27 DEF ReplExpired, Fired, Expire, NoReg, Reg
<1>28. ASSUME NEW x \in SC, WindowExpired(c, x)
      PROVE  Calm(c)'
  <2> DEFINE f == Fired(c, TRUE)
  <2>1. f \in [Cpu -> Reg] /\ f[c].it = Nil
    BY <1>0, FiredType DEF Fired, NoReg
  <2>2. CASE run[x]
    <3>1. pc'[c] = "tick" /\ reg'[c] = f[c]
      BY <1>0, <1>28, <2>2 DEF WindowExpired
    <3> QED
      BY <2>1, <3>1
  <2>3. CASE ~ run[x]
    <3>1. /\ pc'[c] = "wakeLock"
          /\ reg'[c] = [f[c] EXCEPT !.sc = x, !.wret = "tick"]
      BY <1>0, <1>28, <2>1, <2>3 DEF WindowExpired
    <3> HIDE DEF f
    <3>2. reg'[c].it = Nil /\ reg'[c].wret = "tick"
      BY <2>1, <3>1 DEF Reg
    <3> QED
      BY <3>1, <3>2
  <2> QED
    BY <2>2, <2>3
<1>29. ASSUME NEW t \in Thread, IpcTimeout(c, t)
      PROVE  Calm(c)'
  BY <1>0, <1>29 DEF IpcTimeout, Fired, Expire, NoReg, Reg
<1>30. ASSUME NEW t \in Thread, NEW x \in SC, Attach(c, t, x)
      PROVE  Calm(c)'
  BY <1>0, <1>30 DEF Attach, NoReg, Reg
<1>31. ASSUME NEW t \in User, NEW x \in SC, DetachSlot(c, t, x)
      PROVE  Calm(c)'
  BY <1>31, ConstantAssumption DEF DetachSlot, Settled, SlotsOK, User
<1>32. ASSUME NEW t \in Thread, WakeRemote(c, t)
      PROVE  Calm(c)'
  BY <1>0, <1>32 DEF WakeRemote, RemoteStateChange, CanWake, Reg, LocalOK
<1>33. ASSUME NEW t \in Thread, WakeSwitch(c, t)
      PROVE  Calm(c)'
  BY <1>33 DEF WakeSwitch, CanWake, Settled
<1>34. ASSUME NEW t \in Thread, WakeLazy(c, t)
      PROVE  Calm(c)'
  BY <1>0, <1>34 DEF WakeLazy, CanWake, NoReg, Reg
<1>35. ASSUME NEW t \in User, NEW p \in Prio, SetPrioOut(c, t, p)
      PROVE  Calm(c)'
  BY <1>35 DEF SetPrioOut, Settled
<1> QED
  BY <1>1, <1>2, <1>3, <1>4, <1>5, <1>6, <1>7, <1>8, <1>9, <1>10, <1>11, <1>12, <1>13, <1>14, <1>15, <1>16, <1>17, <1>18, <1>19, <1>20, <1>21, <1>22, <1>23, <1>24, <1>25, <1>26, <1>27, <1>28, <1>29, <1>30, <1>31, <1>32, <1>33, <1>34, <1>35
     DEF Step, Schedule, WakeUpAllBlocked, Flip, Timer, Detach, Ipc, SetPrio,
         HandleRequests

-----------------------------------------------------------------------------
\* No list more urgent than n is in use: nobody in the ready queue is more urgent.
LEMMA TopIs ==
    ASSUME NEW w, PlacedNow(w), NEW c \in Cpu, NEW n
    PROVE  Top(rq[c], n) <=>
              \A x \in Thread : InList(hook, x) /\ w[x] = Nil /\ Home[x] = c => ~ (prio[x] > n)
<1>1. \A p \in Prio : rq[c].queue[p] # Nil <=> InReady(hook, w, prio, c, p) # {}
  BY PlacedFacts DEF PlacedNow
<1>2. prio \in [Thread -> Prio]
  BY PlacedType
<1> QED
  BY <1>1, <1>2 DEF Top, InReady

LEMMA TopIsNext ==
    ASSUME NEW w, PlacedNow(w)', NEW c \in Cpu, NEW n
    PROVE  Top(rq'[c], n) <=>
              \A x \in Thread : InList(hook', x) /\ w[x] = Nil /\ Home[x] = c => ~ (prio'[x] > n)
<1>0. Placed(hook', rq', blocked', w, prio')
  BY DEF PlacedNow
<1>1. \A p \in Prio : rq'[c].queue[p] # Nil <=> InReady(hook', w, prio', c, p) # {}
  BY <1>0, PlacedFacts
<1>2. prio' \in [Thread -> Prio]
  BY <1>0 DEF Placed
<1> QED
  BY <1>1, <1>2 DEF Top, InReady

\* A context that is not more urgent than n may get into the ready queue.
LEMMA TopEnqueue ==
    ASSUME NEW w, PlacedNow(w), PlacedNow(w)', prio' = prio, NEW c \in Cpu, NEW t \in Thread, NEW n,
           Top(rq[c], n), ~ (prio[t] > n),
           \A x \in Thread : InList(hook', x) => InList(hook, x) \/ x = t
    PROVE  Top(rq'[c], n)
BY TopIs, TopIsNext

\* The one the dispatcher picks is of the most urgent.
LEMMA TopPick ==
    ASSUME NEW w, PlacedNow(w), NEW c \in Cpu, NextToRun(rq[c]) # Nil
    PROVE  Top(rq[c], prio[NextToRun(rq[c])])
<1>1. /\ rq[c].highest \in Prio /\ \A p \in Prio : p \in Nat
      /\ \A p \in Prio : rq[c].queue[p] # Nil => p <= rq[c].highest
  BY PlacedType, MaxPrioAssumption DEF Rq, PlacedNow, Placed, Exactly, Prio
<1>2. prio[NextToRun(rq[c])] = rq[c].highest
  BY <1>1, PlacedFacts DEF PlacedNow, NextToRun, InReady
<1> QED
  BY <1>1, <1>2 DEF Top

\* What a step of c does to the lists, the contexts and the decisions of c,
\* and what it does not do to those of the others.
UrgentStepOK(c) ==
    /\ prio' = prio
    /\ \A d \in Cpu : d # c => rq'[d] = rq[d]
    /\ \A x \in Thread : Home[x] # c =>
          /\ ready'[x] = ready[x]
          /\ InList(hook, x) => InList(hook', x)
    /\ Urgent(c)'

LEMMA UrgentStep ==
    ASSUME PathsOK, StateOK, LocalsOK, NEW c \in Cpu, Step(c), Orderly, Settled,
           AtHome(c), NoWakePath(c), Calm(c), Urgent(c), SlotsOK,
           NEW w, PlacedNow(w), NoConstraint => \A t \in Thread : w[t] = Nil,
           LinkOK(c, w)
    PROVE  UrgentStepOK(c)
<1>0. /\ LocalOK(c) /\ AtHome(c) /\ LinkOK(c, w) /\ Urgent(c)
      /\ \A t \in Thread : Home[t] \in Cpu
      /\ curr \in [Cpu -> Thread] /\ rqcur \in [Cpu -> Thread]
      /\ reg \in [Cpu -> Reg] /\ pc \in [Cpu -> Labels] /\ reg[c] \in Reg
      /\ ready \in [Thread -> BOOLEAN]
      /\ w \in [Thread -> OrNil(SC)] /\ Nil \notin SC
      /\ Home[curr[c]] = c /\ Home[rqcur[c]] = c
      /\ rq \in [Cpu -> Rq(Thread)] /\ prio \in [Thread -> Prio] /\ \A p \in Prio : p \in Nat
      /\ curr[c] = rqcur[c]
  BY ConstantAssumption, PlacedType, MaxPrioAssumption DEF LocalsOK, StateOK, PathsOK, AtHome, Urgent, Prio
<1>01. reg[c].wret = "user" /\ pc[c] \in {"user"} \cup WakePath \cup CrossCalls => ~ reg[c].resched
  BY DEF Calm
<1>02. pc[c] = "user" => ~ reg[c].resched
  BY DEF Calm
<1>03. pc[c] = "notify" => reg[c].it = Nil
  BY DEF Settled, NoOpening, NoWakePath, WakePath, Calm
\* the lists and the contexts stay
<1>04. ASSUME hook' = hook, rq' = rq, ready' = ready, prio' = prio, curr' = curr, rqcur' = rqcur,
              \/ pc'[c] = "sched"
              \/ /\ pc'[c] \notin Picking /\ pc[c] \notin Picking \cup {"sched"}
                 /\ reg'[c].resched \/ ~ reg[c].resched
              \/ /\ pc'[c] \in Checking /\ pc[c] \in Checking /\ reg'[c].thr = reg[c].thr
       PROVE  UrgentStepOK(c)
  BY <1>0, <1>04 DEF UrgentStepOK, Urgent, InList, Picking, Checking
\* the lists of c have changed, but not below the context that runs
<1>05. ASSUME NEW t \in Thread, Home[t] = c, PlacedNow(w)', LinkedToo(hook, hook', t),
              rq' = [rq EXCEPT ![c] = rq'[c]], prio' = prio,
              curr' = curr, rqcur' = rqcur,
              pc'[c] \notin Picking \cup {"sched"}, pc[c] \notin Picking \cup {"sched"},
              \A x \in Thread : Home[x] # c => ready'[x] = ready[x],
              reg'[c].resched \/ (~ reg[c].resched /\ ~ (prio[t] > prio[curr[c]]))
       PROVE  UrgentStepOK(c)
  <2>1. ~ reg'[c].resched => Top(rq'[c], prio[curr[c]])
    <3> SUFFICES ASSUME ~ reg'[c].resched PROVE Top(rq'[c], prio[curr[c]])
      OBVIOUS
    <3>1. PICK n : n = prio[curr[c]]
      OBVIOUS
    <3>2. Top(rq[c], n) /\ ~ (prio[t] > n)
      BY <1>05, <3>1 DEF Urgent
    <3>3. Top(rq'[c], n)
      BY <1>05, <3>2, TopEnqueue DEF LinkedToo
    <3> QED
      BY <3>1, <3>3
  <2>2. \A d \in Cpu : d # c => rq'[d] = rq[d]
    BY <1>0, <1>05
  <2> QED
    BY <1>0, <1>05, <2>1, <2>2 DEF UrgentStepOK, Urgent, LinkedToo, Picking, Checking

<1>1. CASE SchedEnter(c)
  <2>1. /\ UpdateReadyList(c) /\ blocked' = blocked /\ prio' = prio /\ ready' = ready
        /\ curr' = curr /\ rqcur' = rqcur /\ pc'[c] = "pick"
    BY <1>0, <1>1 DEF SchedEnter, threads, runs, Return, Goto
  <2>2. \A x \in Thread : InList(hook', x) <=> InList(hook, x) \/ (x = curr[c] /\ ready[x])
    BY <1>0, <2>1, ListsUpdate
  <2>3. \A d \in Cpu : d # c => rq'[d] = rq[d]
    BY <1>0, <2>1 DEF UpdateReadyList, SetRq, lists
  <2> QED
    BY <1>0, <2>1, <2>2, <2>3 DEF UrgentStepOK, Urgent, Picking, Checking
<1>2. CASE SchedPick(c)
  <2>1. /\ pc[c] = "pick" /\ pc'[c] = "check" /\ NextToRun(rq[c]) # Nil
        /\ reg'[c].thr = NextToRun(rq[c]) /\ hook' = hook /\ rq' = rq /\ ready' = ready
        /\ prio' = prio /\ curr' = curr /\ rqcur' = rqcur
    BY <1>0, <1>2 DEF SchedPick, lists, threads, runs, Goto, NoReg
  <2>2. Top(rq[c], prio[NextToRun(rq[c])])
    BY <2>1, TopPick
  <2> QED
    BY <1>0, <2>1, <2>2 DEF UrgentStepOK, Urgent, InList, Picking, Checking
<1>3. CASE SchedCheck(c)
  BY <1>0, <1>02, <1>04, <1>3 DEF SchedCheck, lists, threads, remote, runs, Goto, Return, Picking, Checking, NoReg, Reg
<1>4. CASE SchedLock(c)
  BY <1>0, <1>02, <1>04, <1>4 DEF SchedLock, lists, threads, remote, runs, Goto, Return, Picking, Checking, NoReg, Reg
<1>5. CASE SchedRecheck(c)
  BY <1>0, <1>02, <1>04, <1>5 DEF SchedRecheck, lists, threads, remote, runs, Goto, Return, Picking, Checking, NoReg, Reg
<1>6. CASE SchedBlock(c)
  <2>1. /\ reg[c].thr \in Thread /\ Home[reg[c].thr] = c /\ reg[c].sc \in SC
        /\ w[reg[c].thr] = Nil /\ pc[c] = "block" /\ pc'[c] = "pick" /\ prio' = prio
        /\ curr' = curr /\ rqcur' = rqcur /\ ready' = ready /\ \A d \in Cpu : d # c => rq'[d] = rq[d]
    BY <1>0, <1>6 DEF SchedBlock, LocalOK, HasThread, HasSC, AtHome, LinkOK, Checking, runs, threads, Return, Goto
  <2>2. PICK t \in Thread, s \in SC : t = reg[c].thr /\ s = reg[c].sc
    BY <2>1
  <2>3. LinkedToo(hook, hook', t)
    BY <1>6, <2>1, <2>2, ListsBlock
  <2> QED
    BY <1>0, <2>1, <2>3 DEF UrgentStepOK, Urgent, LinkedToo, Picking, Checking
<1>7. CASE SchedAccept(c)
  <2>1. /\ blocked' = blocked /\ prio' = prio /\ pc[c] = "check" /\ ready' = ready
    BY <1>7 DEF SchedAccept, threads
  <2>0. PICK t \in Thread : t = reg[c].thr /\ Home[t] = c /\ w[t] = Nil
    BY <1>0, <2>1 DEF LocalOK, HasThread, AtHome, LinkOK, Checking
  <2>2. Top(rq[c], prio[t]) /\ (ready[curr[c]] => InList(hook, curr[c]))
    BY <2>0, <2>1 DEF Urgent, Checking, Picking
  <2>3. CASE ready[t]
    <3>1. curr'[c] = t /\ rqcur'[c] = t /\ pc'[c] = "user"
      BY <1>0, <1>7, <2>0, <2>3 DEF SchedAccept, ScheduleSwitchTo, Return, Goto
    <3>2. hook' = hook /\ rq' = rq
      <4>1. CASE t = curr[c] \/ ~ ready[curr[c]]
        BY <1>7, <2>0, <2>3, <4>1 DEF SchedAccept, lists, UpdateReadyList
      <4>2. CASE t # curr[c] /\ ready[curr[c]]
        <5>1. SetRq(c, EnqueueOn(c, curr[c]))
          BY <1>7, <2>0, <2>3, <4>2 DEF SchedAccept, UpdateReadyList
        <5>2. EnqueueOn(c, curr[c]) = [hook |-> hook, rq |-> rq[c]]
          BY <2>2, <4>2 DEF EnqueueOn, ReadyEnqueue, Enqueue
        <5> QED
          BY <1>0, <5>1, <5>2 DEF SetRq
      <4> QED
        BY <4>1, <4>2
    <3> QED
      BY <1>0, <2>1, <2>2, <3>1, <3>2 DEF UrgentStepOK, Urgent, InList, Picking, Checking
  <2>4. CASE ~ ready[t]
    <3>1. SetRq(c, DequeueOn(c, t)) /\ curr' = curr /\ rqcur' = rqcur /\ pc'[c] = "pick"
      BY <1>0, <1>7, <2>0, <2>4 DEF SchedAccept, runs, Return, Goto
    <3>2. LinkedNot(hook, hook', t)
      BY <2>0, <2>1, <3>1, ListsDequeue
    <3>3. \A d \in Cpu : d # c => rq'[d] = rq[d]
      BY <1>0, <3>1 DEF SetRq
    <3> QED
      BY <1>0, <2>0, <2>1, <2>2, <2>4, <3>1, <3>2, <3>3 DEF UrgentStepOK, Urgent, LinkedNot, Picking, Checking
  <2> QED
    BY <2>3, <2>4
<1>8. CASE PendingRqqEnqueue(c)
  <2>1. /\ pc[c] \in CrossCalls /\ pc'[c] \in {"sendIpi", "user", "notify", "detachUnlock"}
    BY <1>0, <1>8 DEF PendingRqqEnqueue, LocalOK, CrossCalls, Goto
  <2>2. /\ hook' = hook /\ rq' = rq /\ ready' = ready /\ prio' = prio /\ curr' = curr
        /\ rqcur' = rqcur /\ reg' = reg
    BY <1>8 DEF PendingRqqEnqueue, lists, threads, runs
  <2> QED
    BY <1>0, <1>04, <2>1, <2>2 DEF CrossCalls, Picking, Checking
<1>9. CASE SendIpi(c)
  <2>1. /\ pc[c] \in CrossCalls /\ pc'[c] \in {"sendIpi", "user", "notify", "detachUnlock"}
    BY <1>0, <1>9 DEF SendIpi, LocalOK, CrossCalls, Goto
  <2>2. /\ hook' = hook /\ rq' = rq /\ ready' = ready /\ prio' = prio /\ curr' = curr
        /\ rqcur' = rqcur /\ reg' = reg
    BY <1>9 DEF SendIpi, lists, threads, runs
  <2> QED
    BY <1>0, <1>04, <2>1, <2>2 DEF CrossCalls, Picking, Checking
<1>10. CASE WakeLock(c)
  BY <1>0, <1>02, <1>04, <1>10 DEF WakeLock, lists, threads, remote, runs, Goto, Return, Picking, Checking, NoReg, Reg
<1>11. CASE WakeNotify(c)
  <2>1. /\ hook' = hook /\ rq' = rq /\ ready' = ready /\ prio' = prio /\ curr' = curr
        /\ rqcur' = rqcur /\ reg' = reg /\ pc[c] = "notify" /\ pc'[c] = "drain"
    BY <1>0, <1>03, <1>11 DEF WakeNotify, lists, threads, runs, Goto
  <2> QED
    BY <1>0, <1>04, <2>1 DEF Picking, Checking
<1>12. CASE WakeDrain(c)
  <2>1. pc[c] = "drain" /\ reg[c].sc \in SC /\ reg[c].wret \in {"user", "tick"}
    BY <1>0, <1>12 DEF WakeDrain, DrainBegin, DrainErase, DrainEnd, LocalOK, HasSC
  <2>2. NoConstraint
    BY <2>1 DEF Settled, NoOpening, NoWakePath, WakePath
  <2>3. blocked[reg[c].sc] = Nil /\ reg[c].it = Nil
    BY <1>0, <2>1, <2>2, PlacedFacts DEF PlacedNow, Calm
  <2>4. /\ UNCHANGED <<rq, run, threads, ready, remote, runs>> /\ hook' = hook
        /\ pc' = [pc EXCEPT ![c] = reg[c].wret]
        /\ reg' = [reg EXCEPT ![c] = [NoReg EXCEPT !.resched = reg[c].resched,
                                                   !.fired   = reg[c].fired]]
    BY <1>12, <2>3 DEF WakeDrain, DrainBegin, DrainErase, DrainEnd, Goto, lists
  <2>5. reg'[c].resched = reg[c].resched
    BY <1>0, <2>4 DEF NoReg
  <2>6. /\ hook' = hook /\ rq' = rq /\ ready' = ready /\ prio' = prio
        /\ curr' = curr /\ rqcur' = rqcur /\ pc'[c] \in {"user", "tick"}
    BY <1>0, <2>1, <2>4 DEF threads, runs
  <2> QED
    BY <1>0, <1>04, <2>1, <2>5, <2>6 DEF Picking, Checking
<1>13. CASE FlipWrite(c)
  BY <1>0, <1>02, <1>04, <1>13 DEF FlipWrite, lists, threads, remote, runs, Goto, Return, Picking, Checking, NoReg, Reg
<1>14. CASE FlipTest(c)
  <2>1. /\ hook' = hook /\ rq' = rq /\ ready' = ready /\ prio' = prio /\ curr' = curr
        /\ rqcur' = rqcur /\ pc[c] = "flipTest" /\ pc'[c] \in {"wakeLock", "user"}
    BY <1>0, <1>14 DEF FlipTest, lists, threads, runs, Goto, Return
  <2>2. ~ reg[c].resched
    BY <2>1 DEF Calm, WakePath
  <2> QED
    BY <1>0, <1>04, <2>1, <2>2 DEF Picking, Checking
<1>15. CASE QuantExpired(c)
  <2>1. PICK t \in Thread : t = rqcur[c]
    BY <1>0
  <2>2. /\ blocked' = blocked /\ prio' = prio /\ pc[c] \in {"user", "tick"}
        /\ SetRq(c, Requeue(hook, rq[c], t, prio[t]))
        /\ ready' = ready /\ curr' = curr /\ rqcur' = rqcur /\ pc'[c] = "tick"
    BY <1>0, <1>15, <2>1 DEF QuantExpired, threads, Expire, Goto
  <2>3. w[t] = Nil /\ Home[t] = c
    BY <1>0, <2>1, <2>2 DEF LinkOK, Picking, Checking
  <2>4. PlacedNow(w)' /\ LinkedToo(hook, hook', t)
    BY <2>2, <2>3, ListsRequeue
  <2>5. reg'[c].resched
    BY <1>0, <1>15 DEF QuantExpired, Fired, NoReg
  <2>6. rq' = [rq EXCEPT ![c] = rq'[c]]
    BY <1>0, <2>2 DEF SetRq
  <2> QED
    BY <1>0, <1>05, <2>2, <2>3, <2>4, <2>5, <2>6 DEF Picking, Checking
<1>16. CASE TickEnd(c)
  BY <1>0, <1>02, <1>04, <1>16 DEF TickEnd, lists, threads, remote, runs, Goto, Return, Picking, Checking, NoReg, Reg
<1>17. CASE DetachLock(c)
  BY <1>17 DEF DetachLock, Calm
<1>18. CASE DetachWork(c)
  BY <1>18 DEF DetachWork, Calm
<1>19. CASE DetachUnlock(c)
  BY <1>19 DEF DetachUnlock, Calm
<1>20. CASE Sleep(c)
  <2>1. /\ hook' = hook /\ rq' = rq /\ ready' = [ready EXCEPT ![curr[c]] = FALSE]
        /\ prio' = prio /\ curr' = curr /\ rqcur' = rqcur /\ pc'[c] = "sched"
    BY <1>0, <1>20 DEF Sleep, lists, threads, runs, Goto
  <2> QED
    BY <1>0, <2>1 DEF UrgentStepOK, Urgent, InList, Picking, Checking
<1>21. CASE SetPrioIn(c)
  BY <1>21 DEF SetPrioIn, Calm
<1>22. CASE IpiArrives(c)
  BY <1>0, <1>02, <1>04, <1>22 DEF IpiArrives, lists, threads, remote, runs, Goto, Return, Picking, Checking, NoReg, Reg
<1>23. CASE RqqTake(c)
  <2>1. /\ hook' = hook /\ rq' = rq /\ ready' = ready /\ prio' = prio /\ curr' = curr
        /\ rqcur' = rqcur /\ pc[c] = "rqq"
    BY <1>23 DEF RqqTake, lists, threads, runs
  <2>2. \/ pc'[c] = "sched"
        \/ pc'[c] = "user" /\ ~ reg[c].resched
        \/ pc'[c] = "apply" /\ reg'[c].resched = reg[c].resched
    <3>1. CASE rqq[c] = <<>>
      BY <1>0, <1>23, <3>1 DEF RqqTake, Goto, Return
    <3>2. CASE rqq[c] # <<>>
      <4>1. pc'[c] = "apply" /\ reg' = [reg EXCEPT ![c].thr = Head(rqq[c])]
        BY <1>0, <1>23, <3>2 DEF RqqTake, Goto
      <4>2. PICK h : h = Head(rqq[c])
        OBVIOUS
      <4>3. reg'[c].resched = reg[c].resched
        BY <1>0, <4>1, <4>2 DEF Reg
      <4> QED
        BY <4>1, <4>3
    <3> QED
      BY <3>1, <3>2
  <2> QED
    BY <1>0, <1>04, <2>1, <2>2 DEF Picking, Checking
<1>24. CASE RqqApply(c)
  <2>1. /\ reg[c].thr \in Thread /\ Home[reg[c].thr] = c /\ blocked' = blocked /\ prio' = prio
        /\ curr' = curr /\ rqcur' = rqcur /\ pc[c] = "apply" /\ pc'[c] = "rqq"
    BY <1>0, <1>24 DEF RqqApply, threads, runs, LocalOK, HasThread, AtHome, Goto
  <2>2. PICK t \in Thread : t = reg[c].thr
    BY <2>1
  <2> DEFINE deb == t # curr[c] /\ (ready[t] \/ pending[t])
  <2>3. /\ ready' = [ready EXCEPT ![t] = ready[t] \/ pending[t]]
        /\ IF deb THEN SetRq(c, EnqueueOn(c, t)) ELSE UNCHANGED lists
    BY <1>24, <2>2 DEF RqqApply
  <2>4. reg'[c].resched = (reg[c].resched \/ (deb /\ Preempts(prio, t, curr[c], rqcur[c])))
    BY <1>0, <1>24, <2>2 DEF RqqApply, Reg
  <2>5. \A x \in Thread : Home[x] # c => ready'[x] = ready[x]
    BY <1>0, <2>1, <2>2, <2>3
  <2>6. CASE deb
    <3>1. PlacedNow(w)' /\ LinkedToo(hook, hook', t)
      BY <2>1, <2>2, <2>3, <2>6, ListsEnqueue
    <3>2. ~ Preempts(prio, t, curr[c], rqcur[c]) => ~ (prio[t] > prio[curr[c]])
      <4>1. prio[t] \in Nat /\ prio[curr[c]] \in Nat
        BY <1>0
      <4> QED
        BY <1>0, <4>1 DEF Preempts
    <3>3. rq' = [rq EXCEPT ![c] = rq'[c]]
      BY <1>0, <2>3, <2>6 DEF SetRq
    <3>4. reg'[c].resched \/ (~ reg[c].resched /\ ~ (prio[t] > prio[curr[c]]))
      BY <2>4, <2>6, <3>2
    <3> HIDE DEF deb
    <3> QED
      BY <1>05, <2>1, <2>2, <2>5, <3>1, <3>3, <3>4 DEF Picking, Checking
  <2>7. CASE ~ deb
    <3>1. hook' = hook /\ rq' = rq
      BY <2>3, <2>7 DEF lists
    <3>2. reg'[c].resched = reg[c].resched
      <4>1. reg[c].resched \in BOOLEAN
        BY <1>0 DEF Reg
      <4> HIDE DEF deb
      <4> QED
        BY <2>4, <2>7, <4>1
    <3> HIDE DEF deb
    <3> QED
      BY <1>0, <2>1, <2>5, <3>1, <3>2 DEF UrgentStepOK, Urgent, InList, Picking, Checking
  <2> QED
    BY <2>6, <2>7
<1>25. ASSUME NEW x \in SC, FlipRead(c, x)
      PROVE  UrgentStepOK(c)
  BY <1>0, <1>02, <1>04, <1>25 DEF FlipRead, lists, threads, remote, runs, Goto, Return, Picking, Checking, NoReg, Reg
<1>26. ASSUME NEW x \in SC, OobExpired(c, x)
      PROVE  UrgentStepOK(c)
  BY <1>0, <1>02, <1>04, <1>26 DEF OobExpired, Fired, Expire, lists, threads, remote, runs, Goto, Return, Picking, Checking, NoReg, Reg
<1>27. ASSUME NEW x \in SC, ReplExpired(c, x)
      PROVE  UrgentStepOK(c)
  <2>1. /\ hook' = hook /\ rq' = rq /\ ready' = ready /\ prio' = prio /\ curr' = curr
        /\ rqcur' = rqcur /\ pc[c] \in {"user", "tick"}
    BY <1>27 DEF ReplExpired, lists, runs, Expire
  <2>2. pc' = [pc EXCEPT ![c] = "tick"] \/ pc' = [pc EXCEPT ![c] = "wakeLock"]
    BY <1>27 DEF ReplExpired, Goto
  <2>6. pc'[c] \in {"tick", "wakeLock"}
    BY <1>0, <2>2
  <2> DEFINE f == Fired(c, TRUE)
  <2>3. f \in [Cpu -> Reg] /\ f[c].resched
    BY <1>0, FiredType DEF Fired, NoReg, PathsOK
  <2>4. reg' = f \/ reg' = [f EXCEPT ![c].sc = x, ![c].wret = "tick"]
    BY <1>27 DEF ReplExpired
  <2> HIDE DEF f
  <2>5. reg'[c].resched
    BY <2>3, <2>4 DEF Reg
  <2> QED
    BY <1>04, <2>1, <2>6, <2>5 DEF Picking, Checking
<1>28. ASSUME NEW x \in SC, WindowExpired(c, x)
      PROVE  UrgentStepOK(c)
  <2>1. /\ hook' = hook /\ rq' = rq /\ ready' = ready /\ prio' = prio /\ curr' = curr
        /\ rqcur' = rqcur /\ pc[c] \in {"user", "tick"}
    BY <1>28 DEF WindowExpired, lists, runs, Expire
  <2>2. pc' = [pc EXCEPT ![c] = "tick"] \/ pc' = [pc EXCEPT ![c] = "wakeLock"]
    BY <1>28 DEF WindowExpired, Goto
  <2>6. pc'[c] \in {"tick", "wakeLock"}
    BY <1>0, <2>2
  <2> DEFINE f == Fired(c, TRUE)
  <2>3. f \in [Cpu -> Reg] /\ f[c].resched
    BY <1>0, FiredType DEF Fired, NoReg, PathsOK
  <2>4. reg' = f \/ reg' = [f EXCEPT ![c].sc = x, ![c].wret = "tick"]
    BY <1>28 DEF WindowExpired
  <2> HIDE DEF f
  <2>5. reg'[c].resched
    BY <2>3, <2>4 DEF Reg
  <2> QED
    BY <1>04, <2>1, <2>6, <2>5 DEF Picking, Checking
<1>29. ASSUME NEW t \in Thread, IpcTimeout(c, t)
      PROVE  UrgentStepOK(c)
  <2>1. /\ blocked' = blocked /\ prio' = prio /\ curr' = curr /\ rqcur' = rqcur
        /\ ready' = [ready EXCEPT ![t] = TRUE] /\ SetRq(c, EnqueueOn(c, t)) /\ Home[t] = c
        /\ pc[c] \in {"user", "tick"} /\ pc'[c] = "tick"
    BY <1>0, <1>29 DEF IpcTimeout, threads, runs, Expire, Goto
  <2>2. PlacedNow(w)' /\ LinkedToo(hook, hook', t)
    BY <2>1, ListsEnqueue
  <2>3. reg'[c].resched = (reg[c].resched \/ Preempts(prio, t, curr[c], rqcur[c]))
    BY <1>0, <1>29 DEF IpcTimeout, Fired, NoReg
  <2>4. ~ Preempts(prio, t, curr[c], rqcur[c]) => ~ (prio[t] > prio[curr[c]])
    <3>1. prio[t] \in Nat /\ prio[curr[c]] \in Nat
      BY <1>0
    <3> QED
      BY <1>0, <3>1 DEF Preempts
  <2>6. rq' = [rq EXCEPT ![c] = rq'[c]]
    BY <1>0, <2>1 DEF SetRq
  <2>7. \A x \in Thread : Home[x] # c => ready'[x] = ready[x]
    BY <1>0, <2>1
  <2> QED
    BY <1>0, <1>05, <2>1, <2>2, <2>3, <2>4, <2>6, <2>7 DEF Picking, Checking
<1>30. ASSUME NEW t \in Thread, NEW x \in SC, Attach(c, t, x)
      PROVE  UrgentStepOK(c)
  BY <1>0, <1>02, <1>04, <1>30 DEF Attach, lists, threads, remote, runs, Goto, Return, Picking, Checking, NoReg, Reg
<1>31. ASSUME NEW t \in User, NEW x \in SC, DetachSlot(c, t, x)
      PROVE  UrgentStepOK(c)
  BY <1>31, ConstantAssumption DEF DetachSlot, Settled, SlotsOK, User
<1>32. ASSUME NEW t \in Thread, WakeRemote(c, t)
      PROVE  UrgentStepOK(c)
  <2>1. /\ hook' = hook /\ rq' = rq /\ ready' = ready /\ prio' = prio /\ curr' = curr
        /\ rqcur' = rqcur /\ pc[c] = "user" /\ pc'[c] = "enqueue"
    BY <1>0, <1>32 DEF WakeRemote, lists, threads, runs, RemoteStateChange, CanWake, Goto
  <2> QED
    BY <1>02, <1>04, <2>1 DEF Picking, Checking
<1>33. ASSUME NEW t \in Thread, WakeSwitch(c, t)
      PROVE  UrgentStepOK(c)
  BY <1>33 DEF WakeSwitch, CanWake, Settled
<1>34. ASSUME NEW t \in Thread, WakeLazy(c, t)
      PROVE  UrgentStepOK(c)
  <2>1. /\ blocked' = blocked /\ prio' = prio /\ pc[c] = "user" /\ Home[t] = c
        /\ ready' = [ready EXCEPT ![t] = TRUE] /\ pc' = pc /\ reg' = reg
    BY <1>34 DEF WakeLazy, threads, CanWake
  <2>2. \A x \in Thread : Home[x] # c => ready'[x] = ready[x]
    BY <1>0, <2>1
  <2>3. Top(rq[c], prio[curr[c]])
    BY <1>02, <2>1 DEF Urgent, Picking, Checking
  <2>4. prio[t] \in Nat /\ prio[curr[c]] \in Nat
    BY <1>0
  <2>5. CASE Preempts(prio, t, curr[c], rqcur[c])
    <3>1. UpdateReadyList(c) /\ curr'[c] = t /\ rqcur'[c] = t
      BY <1>0, <1>34, <2>5 DEF WakeLazy, ScheduleSwitchTo
    <3>2. /\ PlacedNow(w)'
          /\ \A x \in Thread : InList(hook', x) <=> InList(hook, x) \/ (x = curr[c] /\ ready[x])
      BY <1>0, <2>1, <3>1, ListsUpdate
    <3>3. prio[curr[c]] <= prio[t]
      BY <1>0, <2>4, <2>5, ThreadsFinite DEF Preempts
    <3>4. PICK n \in Nat, u \in Thread : n = prio[t] /\ u = curr[c]
      BY <1>0, <2>4
    <3>5. Top(rq[c], n) /\ ~ (prio[u] > n)
      <4>1. \A p \in Prio : p > n => p > prio[curr[c]]
        BY <1>0, <2>4, <3>3, <3>4
      <4> QED
        BY <2>3, <2>4, <3>3, <3>4, <4>1 DEF Top
    <3>6. Top(rq'[c], n)
      BY <2>1, <3>2, <3>4, <3>5, TopEnqueue
    <3>7. \A d \in Cpu : d # c => rq'[d] = rq[d]
      BY <1>0, <3>1 DEF UpdateReadyList, SetRq, lists
    <3> QED
      BY <1>0, <2>1, <2>2, <3>1, <3>2, <3>4, <3>6, <3>7 DEF UrgentStepOK, Urgent, Picking, Checking
  <2>6. CASE ~ Preempts(prio, t, curr[c], rqcur[c])
    <3>1. SetRq(c, EnqueueOn(c, t)) /\ curr' = curr /\ rqcur' = rqcur
      BY <1>34, <2>6 DEF WakeLazy, runs
    <3>2. PlacedNow(w)' /\ LinkedToo(hook, hook', t)
      BY <2>1, <3>1, ListsEnqueue
    <3>3. ~ (prio[t] > prio[curr[c]])
      BY <1>0, <2>4, <2>6 DEF Preempts
    <3>4. rq' = [rq EXCEPT ![c] = rq'[c]]
      BY <1>0, <3>1 DEF SetRq
    <3> QED
      BY <1>02, <1>05, <2>1, <2>2, <3>1, <3>2, <3>3, <3>4 DEF Picking, Checking
  <2> QED
    BY <2>5, <2>6
<1>35. ASSUME NEW t \in User, NEW p \in Prio, SetPrioOut(c, t, p)
      PROVE  UrgentStepOK(c)
  BY <1>35 DEF SetPrioOut, Settled
<1> QED
  BY <1>1, <1>2, <1>3, <1>4, <1>5, <1>6, <1>7, <1>8, <1>9, <1>10, <1>11, <1>12, <1>13, <1>14, <1>15, <1>16, <1>17, <1>18, <1>19, <1>20, <1>21, <1>22, <1>23, <1>24, <1>25, <1>26, <1>27, <1>28, <1>29, <1>30, <1>31, <1>32, <1>33, <1>34, <1>35
     DEF Step, Schedule, WakeUpAllBlocked, Flip, Timer, Detach, Ipc, SetPrio,
         HandleRequests

UrgentInv == \A c \in Cpu : NoWakePath(c) /\ Calm(c) /\ Urgent(c)

LEMMA StepUrgent ==
    ASSUME IInv, PlaceInv, Orderly, Settled, UrgentInv, [Next]_vars
    PROVE  UrgentInv'
<1>1. CASE UNCHANGED vars
  BY <1>1 DEF vars, UrgentInv, NoWakePath, Calm, Urgent, InList
<1>2. CASE Next
  <2>1. PICK c \in Cpu : Step(c)
    BY <1>2 DEF Next, Step
  <2>2. ListsOK /\ PathsOK /\ StateOK /\ LocalsOK
    BY TypeParts DEF IInv
  <2>3. PICK w : InPlace(w)
    BY DEF PlaceInv
  <2>4. /\ PlacedNow(w) /\ (NoConstraint => \A t \in Thread : w[t] = Nil)
        /\ LinkOK(c, w) /\ \A d \in Cpu : AtHome(d)
        /\ SlotsOK /\ NoWakePath(c) /\ Calm(c) /\ Urgent(c)
    BY <2>3 DEF InPlace, PlaceInv, UrgentInv
  <2>5. HomeStepOK(c)
    BY <2>1, <2>2, <2>4, HomeStep, NextPlaced
  <2>6. \A d \in Cpu : d # c => /\ pc'[d] = pc[d] /\ reg'[d] = reg[d]
                                /\ curr'[d] = curr[d] /\ rqcur'[d] = rqcur[d]
    BY <2>1, <2>2, <2>5, OthersKeepPath DEF HomeStepOK
  <2>7. UrgentStepOK(c)
    BY <2>1, <2>2, <2>4, UrgentStep
  <2>8. NoWakePath(c)' /\ Calm(c)'
    BY <2>1, <2>2, <2>4, WakePathStep, CalmStep
  <2>9. ASSUME NEW d \in Cpu, d # c PROVE NoWakePath(d)' /\ Calm(d)' /\ Urgent(d)'
    <3>1. NoWakePath(d) /\ Calm(d) /\ Urgent(d)
      BY DEF UrgentInv
    <3>2. NoWakePath(d)' /\ Calm(d)'
      BY <2>6, <2>9, <3>1 DEF NoWakePath, Calm
    <3>3. curr[d] \in Thread /\ Home[curr[d]] # c
      BY <2>2, <2>4, <2>9 DEF AtHome, StateOK
    <3>4. Urgent(d)'
      BY <2>6, <2>7, <2>9, <3>1, <3>3 DEF Urgent, UrgentStepOK
    <3> QED
      BY <3>2, <3>4
  <2> QED
    BY <2>7, <2>8, <2>9 DEF UrgentInv, UrgentStepOK
<1> QED
  BY <1>1, <1>2

(* A CPU that returns to user mode runs a context of the highest priority   *)
(* in use, as long as time slices are not handed over by IPC: what          *)
(* deblock() and preemption by a timer interrupt or a remote request decide *)
(* is enough.                                                               *)
THEOREM UrgentRuns == Orderly /\ IdleFree /\ Settled => (Spec => []RunsMostUrgent)
<1> SUFFICES ASSUME Orderly, IdleFree, Settled PROVE Spec => []RunsMostUrgent
  OBVIOUS
<1>1. Init => UrgentInv
  <2> SUFFICES ASSUME Init, NEW c \in Cpu PROVE NoWakePath(c) /\ Calm(c) /\ Urgent(c)
    BY DEF UrgentInv
  <2>1. pc[c] = "user" /\ reg[c] = NoReg /\ curr[c] = rqcur[c] /\ rq[c] = EmptyRq
    BY DEF Init
  <2>2. \A p \in Prio : rq[c].queue[p] = Nil
    BY <2>1 DEF EmptyRq
  <2> QED
    BY <2>1, <2>2 DEF NoWakePath, Calm, Urgent, Top, NoReg, WakePath, CrossCalls, Picking, Checking
<1>2. UrgentInv /\ IInv /\ PlaceInv /\ [Next]_vars => UrgentInv'
  BY StepUrgent
<1>3. UrgentInv => RunsMostUrgent
  <2> SUFFICES ASSUME UrgentInv, NEW c \in Cpu, pc[c] = "user", NEW p \in Prio,
                      p > prio[curr[c]], p > prio[rqcur[c]]
               PROVE  rq[c].queue[p] = Nil
    BY DEF RunsMostUrgent
  <2>1. Calm(c) /\ Urgent(c)
    BY DEF UrgentInv
  <2>2. ~ reg[c].resched
    BY <2>1 DEF Calm
  <2> QED
    BY <2>1, <2>2 DEF Urgent, Top, Picking, Checking
<1>4. UrgentInv /\ IInv /\ PlaceInv => DrainsOne
  BY NothingToDrain DEF UrgentInv, Settled
<1>5. Init => IInv /\ PlaceInv
  BY InitInv, PlaceInit
<1>6. UrgentInv /\ IInv /\ PlaceInv /\ [Next]_vars => (IInv /\ PlaceInv)'
  BY <1>4, StepInv, StepPlace
<1> QED
  BY <1>1, <1>2, <1>3, <1>5, <1>6, PTL DEF Spec

-----------------------------------------------------------------------------
(* A budget comes back, if each was a constraint of a thread when it was    *)
(* started, or constrains nobody ever.                                      *)

Started == \A s \in SC : Kind[s] = "budget" =>
              (\E t \in User, i \in Slot : InitSlots[t][i] = s) \/ "attach" \notin Ops

Unused(s) == run[s] /\ "attach" \notin Ops /\ \A t \in Thread, i \in Slot : slots[t][i] # s
ComesBack(s) == timer[s] \/ Unused(s)

FlipsCond(c) == pc[c] = "flipWrite" => Kind[reg[c].sc] = "cond"

\* What a step of c does to the budgets.
PendingStepOK(c) ==
    /\ FlipsCond(c)'
    /\ \A s \in SC : Kind[s] = "budget" /\ ComesBack(s) => ComesBack(s)'

LEMMA PendingStep ==
    ASSUME PathsOK, StateOK, LocalsOK, NEW c \in Cpu, Step(c), FlipsCond(c)
    PROVE  PendingStepOK(c)
<1> USE DEF FlipsCond, Goto, Return, PathsOK
<1>0. /\ LocalOK(c) /\ run \in [SC -> BOOLEAN] /\ timer \in [SC -> BOOLEAN]
      /\ slots \in [Thread -> [Slot -> OrNil(SC)]] /\ Nil \notin SC
      /\ rqcur[c] \in Thread /\ reg[c] \in Reg
  BY ConstantAssumption DEF LocalsOK, StateOK
<1>01. ASSUME run' = run, timer' = timer, slots' = slots, pc'[c] # "flipWrite"
       PROVE  PendingStepOK(c)
  BY <1>01 DEF PendingStepOK, ComesBack, Unused

<1>1. CASE SchedEnter(c)
  BY <1>0, <1>01, <1>1 DEF SchedEnter, threads
<1>2. CASE SchedPick(c)
  BY <1>0, <1>01, <1>2 DEF SchedPick, threads
<1>3. CASE SchedCheck(c)
  BY <1>0, <1>01, <1>3 DEF SchedCheck, threads
<1>4. CASE SchedLock(c)
  BY <1>0, <1>01, <1>4 DEF SchedLock, threads
<1>5. CASE SchedRecheck(c)
  BY <1>0, <1>01, <1>5 DEF SchedRecheck, threads
<1>6. CASE SchedBlock(c)
  BY <1>0, <1>01, <1>6 DEF SchedBlock, threads
<1>7. CASE SchedAccept(c)
  BY <1>0, <1>01, <1>7 DEF SchedAccept, threads
<1>8. CASE PendingRqqEnqueue(c)
  BY <1>0, <1>01, <1>8 DEF PendingRqqEnqueue, threads, LocalOK, CrossCalls
<1>9. CASE SendIpi(c)
  BY <1>0, <1>01, <1>9 DEF SendIpi, threads, LocalOK, CrossCalls
<1>10. CASE WakeLock(c)
  BY <1>0, <1>01, <1>10 DEF WakeLock, threads
<1>11. CASE WakeNotify(c)
  BY <1>0, <1>01, <1>11 DEF WakeNotify, RemoteStateChange, threads
<1>12. CASE WakeDrain(c)
  BY <1>0, <1>01, <1>12 DEF WakeDrain, DrainBegin, DrainErase, DrainEnd, threads, LocalOK
<1>13. CASE FlipWrite(c)
  <2>1. pc[c] = "flipWrite" /\ pc'[c] = "flipTest" /\ slots' = slots /\ timer' = timer
        /\ run' = [run EXCEPT ![reg[c].sc] = reg[c].val] /\ Kind[reg[c].sc] = "cond"
    BY <1>0, <1>13 DEF FlipWrite, threads
  <2> QED
    BY <1>0, <2>1 DEF PendingStepOK, ComesBack, Unused
<1>14. CASE FlipTest(c)
  BY <1>0, <1>01, <1>14 DEF FlipTest, threads
<1>15. CASE QuantExpired(c)
  BY <1>0, <1>01, <1>15 DEF QuantExpired, Fired, Expire, threads
<1>16. CASE TickEnd(c)
  BY <1>0, <1>01, <1>16 DEF TickEnd, threads
<1>17. CASE DetachLock(c)
  BY <1>0, <1>01, <1>17 DEF DetachLock, threads
<1>18. CASE DetachWork(c)
  BY <1>0, <1>01, <1>18 DEF DetachWork, RemoteStateChange, threads
<1>19. CASE DetachUnlock(c)
  BY <1>0, <1>01, <1>19 DEF DetachUnlock, threads
<1>20. CASE Sleep(c)
  BY <1>0, <1>01, <1>20 DEF Sleep, threads
<1>21. CASE SetPrioIn(c)
  BY <1>0, <1>01, <1>21 DEF SetPrioIn, threads
<1>22. CASE IpiArrives(c)
  BY <1>0, <1>01, <1>22 DEF IpiArrives, threads
<1>23. CASE RqqTake(c)
  BY <1>0, <1>01, <1>23 DEF RqqTake, threads
<1>24. CASE RqqApply(c)
  BY <1>0, <1>01, <1>24 DEF RqqApply, threads
<1>25. ASSUME NEW x \in SC, FlipRead(c, x)
      PROVE  PendingStepOK(c)
  <2>1. /\ run' = run /\ slots' = slots /\ timer' = timer /\ Kind[x] = "cond"
    BY <1>25 DEF FlipRead, threads
  <2>2. reg'[c].sc = x
    BY <1>0, <1>25 DEF FlipRead, NoReg, Reg
  <2> QED
    BY <2>1, <2>2 DEF PendingStepOK, ComesBack, Unused
<1>26. ASSUME NEW x \in SC, OobExpired(c, x)
      PROVE  PendingStepOK(c)
  <2>1. /\ slots' = slots /\ timer' = timer /\ run' = [run EXCEPT ![x] = FALSE]
        /\ pc'[c] = "tick" /\ \E i \in Slot : slots[rqcur[c]][i] = x
    BY <1>0, <1>26 DEF OobExpired, threads
  <2> QED
    BY <1>0, <2>1 DEF PendingStepOK, ComesBack, Unused
<1>27. ASSUME NEW x \in SC, ReplExpired(c, x)
      PROVE  PendingStepOK(c)
  <2>1. /\ slots' = slots /\ timer' = [timer EXCEPT ![x] = TRUE]
        /\ run' = [run EXCEPT ![x] = TRUE] /\ pc' = [pc EXCEPT ![c] = "wakeLock"]
    BY <1>27 DEF ReplExpired
  <2> QED
    BY <1>0, <2>1 DEF PendingStepOK, ComesBack, Unused
<1>28. ASSUME NEW x \in SC, WindowExpired(c, x)
      PROVE  PendingStepOK(c)
  <2>1. /\ slots' = slots /\ \A s \in SC : s # x => timer'[s] = timer[s]
        /\ run' = [run EXCEPT ![x] = ~ run[x]] /\ Kind[x] = "window"
        /\ pc' = [pc EXCEPT ![c] = "tick"] \/ pc' = [pc EXCEPT ![c] = "wakeLock"]
    BY <1>0, <1>28 DEF WindowExpired
  <2> QED
    BY <1>0, <2>1 DEF PendingStepOK, ComesBack, Unused
<1>29. ASSUME NEW t \in Thread, IpcTimeout(c, t)
      PROVE  PendingStepOK(c)
  BY <1>0, <1>01, <1>29 DEF IpcTimeout, Fired, Expire, threads
<1>30. ASSUME NEW t \in Thread, NEW x \in SC, Attach(c, t, x)
      PROVE  PendingStepOK(c)
  BY <1>0, <1>30 DEF Attach, PendingStepOK, ComesBack, Unused
<1>31. ASSUME NEW t \in User, NEW x \in SC, DetachSlot(c, t, x)
      PROVE  PendingStepOK(c)
  <2>1. PICK i \in Slot : slots' = [slots EXCEPT ![t][i] = Nil]
    BY <1>31 DEF DetachSlot
  <2>2. run' = run /\ timer' = timer /\ pc'[c] = "detachLock" /\ t \in Thread
    BY <1>31 DEF DetachSlot, User
  <2>3. \A u \in Thread, j \in Slot : slots'[u][j] \in {slots[u][j], Nil}
    BY <1>0, <2>1, <2>2
  <2> QED
    BY <1>0, <2>2, <2>3 DEF PendingStepOK, ComesBack, Unused
<1>32. ASSUME NEW t \in Thread, WakeRemote(c, t)
      PROVE  PendingStepOK(c)
  BY <1>0, <1>01, <1>32 DEF WakeRemote, RemoteStateChange, CanWake, threads
<1>33. ASSUME NEW t \in Thread, WakeSwitch(c, t)
      PROVE  PendingStepOK(c)
  BY <1>0, <1>01, <1>33 DEF WakeSwitch, CanWake, threads
<1>34. ASSUME NEW t \in Thread, WakeLazy(c, t)
      PROVE  PendingStepOK(c)
  BY <1>0, <1>01, <1>34 DEF WakeLazy, CanWake, threads
<1>35. ASSUME NEW t \in User, NEW p \in Prio, SetPrioOut(c, t, p)
      PROVE  PendingStepOK(c)
  BY <1>0, <1>01, <1>35 DEF SetPrioOut, threads
<1> QED
  BY <1>1, <1>2, <1>3, <1>4, <1>5, <1>6, <1>7, <1>8, <1>9, <1>10, <1>11, <1>12, <1>13, <1>14, <1>15, <1>16, <1>17, <1>18, <1>19, <1>20, <1>21, <1>22, <1>23, <1>24, <1>25, <1>26, <1>27, <1>28, <1>29, <1>30, <1>31, <1>32, <1>33, <1>34, <1>35
     DEF Step, Schedule, WakeUpAllBlocked, Flip, Timer, Detach, Ipc, SetPrio,
         HandleRequests

(* A budget that is used up has its timer set. Only migrate_to() sets it    *)
(* for the first time, so each budget is one of a thread that is started,   *)
(* or no constraint is attached to a thread that has been.                  *)
THEOREM BudgetReplenished == Started /\ IdleFree => (Spec => []ReplenishmentPending)
<1> SUFFICES ASSUME Started, IdleFree PROVE Spec => []ReplenishmentPending
  OBVIOUS
<1> DEFINE Comes == /\ \A c \in Cpu : FlipsCond(c)
                    /\ \A s \in SC : Kind[s] = "budget" => ComesBack(s)
<1>1. Init => Comes
  <2> SUFFICES ASSUME Init, NEW s \in SC, Kind[s] = "budget" PROVE ComesBack(s)
    BY DEF FlipsCond, Init
  <2>1. timer[s] <=> \E t \in User, i \in Slot : InitSlots[t][i] = s
    BY DEF Init
  <2>2. run[s] /\ slots = InitSlots /\ Nil # s
    BY ConstantAssumption DEF Init
  <2>3. \A t \in Thread : t \in User \/ \E c \in Cpu : t = Idle[c]
    BY DEF User
  <2> QED
    BY <2>1, <2>2, <2>3 DEF ComesBack, Unused, Started, IdleFree
<1>2. Comes /\ IInv /\ [Next]_vars => Comes'
  <2> SUFFICES ASSUME Comes, IInv, [Next]_vars PROVE Comes'
    OBVIOUS
  <2>1. CASE UNCHANGED vars
    BY <2>1 DEF vars, FlipsCond, ComesBack, Unused
  <2>2. CASE Next
    <3>1. PICK c \in Cpu : Step(c)
      BY <2>2 DEF Next, Step
    <3>2. PathsOK /\ StateOK /\ LocalsOK
      BY TypeParts DEF IInv
    <3>3. PendingStepOK(c)
      BY <3>1, <3>2, PendingStep
    <3>4. \A d \in Cpu : d # c => pc'[d] = pc[d] /\ reg'[d] = reg[d]
      BY <3>1, <3>2, OthersKeepPath
    <3> QED
      BY <3>3, <3>4 DEF PendingStepOK, FlipsCond
  <2> QED
    BY <2>1, <2>2
<1>3. Comes /\ IInv => ReplenishmentPending
  BY DEF ReplenishmentPending, ComesBack, Unused
<1>4. Init => IInv
  BY InitInv
<1>5. IInv /\ [Next]_vars => IInv'
  BY StepInv
<1> HIDE DEF Comes
<1> QED
  BY <1>1, <1>2, <1>3, <1>4, <1>5, PTL DEF Spec

=============================================================================
