------------------------------- MODULE ScSched -------------------------------
(***************************************************************************)
(* Dispatching under scheduling constraints on several CPUs.               *)
(*                                                                         *)
(* A thread (its Sched_context) is constrained by the Sched_constraints in *)
(* its slots.  schedule() takes the first context of the ready queue and   *)
(* walks its slots; a closed constraint takes the context out of the ready *)
(* queue and puts it on its own blocked list.  Opening a constraint wakes  *)
(* its whole blocked list, whatever the home CPUs of the threads are.      *)
(*                                                                         *)
(* The kernel runs with interrupts off, so one CPU does one thing at a     *)
(* time; the CPUs interleave.  A step is what no other CPU can see a part  *)
(* of: a read or write of a shared flag, or the work done under a lock     *)
(* that is taken and released in the same breath.  The one lock that is    *)
(* held over several steps is that of a constraint.                        *)
(*                                                                         *)
(* The ready queues and the blocked lists are the pointer lists of SdList, *)
(* and a Sched_context has one hook for all of them.                       *)
(***************************************************************************)
EXTENDS ScSchedConstants, Sequences, SequencesExt

Slot == 1 .. ScxMaxSc
User == Thread \ {Idle[c] : c \in Cpu}

VARIABLES
    hook,         \* the links of all Sched_contexts
    rq,           \* [Cpu -> ready queue]
    blocked,      \* [SC -> head of Sched_constraint::_list]
    run,          \* [SC -> BOOLEAN]: Sched_constraint::_run
    timer,        \* [SC -> BOOLEAN]: its period or window timeout is set
    lock,         \* [SC -> the CPU that holds its Spin_lock, or Nil]
    slots,        \* [Thread -> [Slot -> SC or Nil]]: Sched_context::_list
    prio,         \* Sched_context::_prio
    ready,        \* [Thread -> BOOLEAN]: Thread_ready in Context::_state
    pending,      \* [Thread -> BOOLEAN]: _remote_state_change adds Thread_ready
    rqq,          \* [Cpu -> sequence of threads]: _pending_rqq
    ipi,          \* [Cpu -> BOOLEAN]: an Ipi::Request is on its way
    curr,         \* [Cpu -> Thread]: current()
    rqcur,        \* [Cpu -> Thread]: whose Sched_context is Ready_queue::_current
    quantum,      \* [Cpu -> BOOLEAN]: the timer of the Quant_sc of rqcur is set
    pc,           \* [Cpu -> where the kernel is]; "user" with interrupts on
    reg           \* [Cpu -> the locals of the kernel path]

vars == <<hook, rq, blocked, run, timer, lock, slots, prio, ready, pending, rqq, ipi,
          curr, rqcur, quantum, pc, reg>>

lists   == <<hook, rq>>
threads == <<slots, prio, timer>>
remote  == <<pending, rqq, ipi>>
runs    == <<curr, rqcur, quantum>>

\* thr: a thread the path works on; it, hd: _c and _h of a list iterator;
\* sc: a constraint; i: a slot; val: the value flip() computed; resched: the
\* reschedule flag; fired: timeouts expired in this interrupt; xret, wret:
\* where xcpu_state_change() and wake_up_all_blocked() return to.
NoReg == [thr |-> Nil, it |-> Nil, hd |-> Nil, sc |-> Nil, i |-> 1, val |-> FALSE,
          resched |-> FALSE, fired |-> 0, xret |-> "user", wret |-> "user"]

Labels == {"user", "sched", "pick", "check", "lock", "recheck", "block",
           "flipWrite", "flipTest", "wakeLock", "notify", "drain",
           "enqueue", "sendIpi", "detachLock", "detachWork", "detachUnlock",
           "tick", "setPrio", "rqq", "apply", "fault"}

\* Every user thread has just been started from another CPU: it has migrated
\* to its home, which set the period timer of a budget attached before.
Init ==
    /\ hook = NoHooks(Thread)
    /\ rq = [c \in Cpu |-> EmptyRq]
    /\ blocked = [s \in SC |-> Nil]
    /\ run = [s \in SC |-> Kind[s] # "window"]
    /\ timer = [s \in SC |->
          \/ Kind[s] = "window"
          \/ Kind[s] = "budget" /\ \E t \in User, i \in Slot : InitSlots[t][i] = s]
    /\ lock = [s \in SC |-> Nil]
    /\ slots = InitSlots
    /\ prio = InitPrio
    /\ ready = [t \in Thread |-> t \notin User]
    /\ pending = [t \in Thread |-> t \in User]
    /\ rqq = [c \in Cpu |-> SetToSeq({t \in User : Home[t] = c})]
    /\ ipi = [c \in Cpu |-> rqq[c] # <<>>]
    /\ curr = Idle
    /\ rqcur = Idle
    /\ quantum = [c \in Cpu |-> TRUE]
    /\ pc = [c \in Cpu |-> "user"]
    /\ reg = [c \in Cpu |-> NoReg]

Goto(c, l) == pc' = [pc EXCEPT ![c] = l]
Return(c, l) == /\ Goto(c, l)
                /\ reg' = [reg EXCEPT ![c] = NoReg]

SetRq(c, r) == /\ hook' = r.hook
               /\ rq' = [rq EXCEPT ![c] = r.rq]

EnqueueOn(c, t) == ReadyEnqueue(hook, rq[c], t, prio[t])
DequeueOn(c, t) == ReadyDequeue(hook, rq[c], t, prio[t])

\* update_ready_list(): the running thread, if ready, is put in front.
UpdateReadyList(c) ==
    IF ready[curr[c]] THEN SetRq(c, EnqueueOn(c, curr[c])) ELSE UNCHANGED lists

\* A timeout of c can expire in the running timer interrupt.
Expire(c, op) ==
    /\ pc[c] \in {"user", "tick"}
    /\ op \in Ops
    /\ reg[c].fired < TickMax

Fired(c, resched) ==
    [reg EXCEPT ![c] = [NoReg EXCEPT !.fired = reg[c].fired + 1,
                                     !.resched = reg[c].resched \/ resched]]

\* A system call of a user thread can make t, which sleeps, ready.
CanWake(c, t, op) ==
    /\ pc[c] = "user" /\ op \in Ops /\ curr[c] \in User
    /\ t \in User /\ ~ ready[t] /\ ~ pending[t]

-----------------------------------------------------------------------------
(* Mutations: what the code would be with a plausible bug.  None is part of *)
(* the specification; each shows that a property depends on the code.       *)

\* check_sc_list() blocks without the second look at _run
SchedRecheckTrusts(c) ==
    /\ pc[c] = "recheck"
    /\ Goto(c, "block")
    /\ UNCHANGED <<lists, blocked, run, lock, threads, ready, remote, runs, reg>>

BlockWith(c, out, next) ==
    LET s  == reg[c].sc
        in == Push(out.hook, blocked[s], reg[c].thr, "Back")
    IN
    /\ pc[c] = "block"
    /\ rq' = [rq EXCEPT ![c] = out.rq]
    /\ hook' = in.hook
    /\ blocked' = [blocked EXCEPT ![s] = in.head]
    /\ lock' = [lock EXCEPT ![s] = Nil]
    /\ next
    /\ UNCHANGED <<run, threads, ready, remote, runs>>

\* block() without ready_dequeue()
SchedBlockStaysQueued(c) ==
    BlockWith(c, [hook |-> hook, rq |-> rq[c]], Return(c, "pick"))

\* pending_rqq_enqueue() rings when the queue was not empty
PendingRqqEnqueueRingsLate(c) ==
    LET t == reg[c].thr
        h == Home[t]
    IN
    /\ pc[c] = "enqueue"
    /\ rqq' = [rqq EXCEPT ![h] = IF Contains(@, t) THEN @ ELSE Append(@, t)]
    /\ Goto(c, IF rqq[h] # <<>> THEN "sendIpi" ELSE reg[c].xret)
    /\ UNCHANGED <<lists, blocked, run, lock, threads, ready, pending, ipi,
                   runs, reg>>

\* pending_rqq_enqueue() does not ring
SendIpiLost(c) ==
    /\ pc[c] = "sendIpi"
    /\ Goto(c, reg[c].xret)
    /\ UNCHANGED <<lists, blocked, run, lock, threads, ready, remote, runs, reg>>

\* flip() opens the constraint and wakes nobody
FlipTestNoWake(c) ==
    /\ pc[c] = "flipTest"
    /\ Return(c, "user")
    /\ UNCHANGED <<lists, blocked, run, lock, threads, ready, remote, runs>>

\* period_expired() replenishes and wakes nobody
ReplExpiredNoWake(c, s) ==
    /\ Expire(c, "repl") /\ Kind[s] = "budget" /\ TimerCpu[s] = c
    /\ timer[s]
    /\ run' = [run EXCEPT ![s] = TRUE]
    /\ reg' = Fired(c, TRUE)
    /\ Goto(c, "tick")
    /\ UNCHANGED <<lists, blocked, lock, threads, ready, remote, runs>>

\* period_expired() does not set its timer again
ReplExpiredOnce(c, s) ==
    /\ Expire(c, "repl") /\ Kind[s] = "budget" /\ TimerCpu[s] = c
    /\ timer[s]
    /\ run' = [run EXCEPT ![s] = TRUE]
    /\ timer' = [timer EXCEPT ![s] = FALSE]
    /\ reg' = [Fired(c, TRUE) EXCEPT ![c].sc = s, ![c].wret = "tick"]
    /\ Goto(c, "wakeLock")
    /\ UNCHANGED <<lists, blocked, lock, slots, prio, ready, remote, runs>>

\* deblock() of a constraint wakes the thread while it is still in the list
DetachWorkWakesFirst(c) ==
    LET s == reg[c].sc
        t == reg[c].thr
        q == EnqueueOn(Home[t], t)
        r == RemoveItem(q.hook, blocked[s], t)
    IN
    /\ pc[c] = "detachWork"
    /\ Goto(c, "detachUnlock")
    /\ IF t \notin Members(hook, blocked[s])
       THEN UNCHANGED <<lists, blocked, ready>>
       ELSE /\ ready' = [ready EXCEPT ![t] = TRUE]
            /\ rq' = [rq EXCEPT ![Home[t]] = q.rq]
            /\ hook' = r.hook
            /\ blocked' = [blocked EXCEPT ![s] = r.head]
    /\ UNCHANGED <<run, lock, threads, remote, runs, reg>>

\* deblock() of a constraint does not look whether the thread is in its list
DetachWorkTrusts(c) ==
    LET s == reg[c].sc
        t == reg[c].thr
        r == RemoveItem(hook, blocked[s], t)
    IN
    /\ pc[c] = "detachWork"
    /\ Goto(c, "detachUnlock")
    /\ IF ~ InList(hook, t)
       THEN UNCHANGED <<hook, blocked>>
       ELSE /\ hook' = r.hook
            /\ blocked' = [blocked EXCEPT ![s] = r.head]
    /\ UNCHANGED <<rq, run, lock, threads, ready, remote, runs, reg>>

\* deblock_and_schedule() does not switch to the lazily deblocked thread
WakeLazyForgets(c, t) ==
    /\ CanWake(c, t, "wakeLazy") /\ Home[t] = c
    /\ ready' = [ready EXCEPT ![t] = TRUE]
    /\ IF Preempts(prio, t, curr[c], rqcur[c])
       THEN UNCHANGED lists
       ELSE SetRq(c, EnqueueOn(c, t))
    /\ UNCHANGED <<blocked, run, lock, threads, remote, runs, pc, reg>>

\* change_prio_to() sets the priority before it dequeues
SetPrioOutLate(c, t, p) ==
    /\ pc[c] = "user" /\ "setPrio" \in Ops /\ curr[c] \in User
    /\ t \in User
    /\ prio' = [prio EXCEPT ![t] = p]
    /\ IF InList(hook, t)
       THEN /\ SetRq(Home[t], ReadyDequeue(hook, rq[Home[t]], t, p))
            /\ reg' = [reg EXCEPT ![c].thr = t]
            /\ Goto(c, "setPrio")
       ELSE UNCHANGED <<lists, reg, pc>>
    /\ UNCHANGED <<blocked, run, lock, slots, timer, ready, remote, runs>>

-----------------------------------------------------------------------------
(* Context::schedule() *)

\* schedule_switch_to_locked() and set_current(): the timer of the quantum is
\* set only when the scheduling context changes.
ScheduleSwitchTo(c, t) ==
    /\ rqcur' = [rqcur EXCEPT ![c] = t]
    /\ curr' = [curr EXCEPT ![c] = t]
    /\ quantum' = [quantum EXCEPT ![c] = @ \/ rqcur[c] # t]

SchedEnter(c) ==
    /\ pc[c] = "sched"
    /\ UpdateReadyList(c)
    /\ Return(c, "pick")
    /\ UNCHANGED <<blocked, run, lock, threads, ready, remote, runs>>

SchedPick(c) ==
    /\ pc[c] = "pick"
    /\ NextToRun(rq[c]) # Nil
    /\ reg' = [reg EXCEPT ![c] = [NoReg EXCEPT !.thr = NextToRun(rq[c])]]
    /\ Goto(c, "check")
    /\ UNCHANGED <<lists, blocked, run, lock, threads, ready, remote, runs>>

\* check_sc_list(): the look at a slot without the lock
SchedCheck(c) ==
    LET r == reg[c] IN
    /\ pc[c] = "check"
    /\ r.i \in Slot
    /\ LET s == slots[r.thr][r.i]
       IN  IF s = Nil
           THEN /\ reg' = [reg EXCEPT ![c].i = @ + 1]
                /\ UNCHANGED pc
           ELSE IF run[s]
           THEN /\ reg' = [reg EXCEPT ![c].i = @ + 1]
                /\ UNCHANGED pc
           ELSE /\ reg' = [reg EXCEPT ![c].sc = s]
                /\ Goto(c, "lock")
    /\ UNCHANGED <<lists, blocked, run, lock, threads, ready, remote, runs>>

SchedLock(c) ==
    /\ pc[c] = "lock"
    /\ lock[reg[c].sc] = Nil
    /\ lock' = [lock EXCEPT ![reg[c].sc] = c]
    /\ Goto(c, "recheck")
    /\ UNCHANGED <<lists, blocked, run, threads, ready, remote, runs, reg>>

\* the second look, with the lock held
SchedRecheck(c) ==
    LET s == reg[c].sc IN
    /\ pc[c] = "recheck"
    /\ IF run[s]
       THEN /\ lock' = [lock EXCEPT ![s] = Nil]
            /\ reg' = [reg EXCEPT ![c].i = @ + 1, ![c].sc = Nil]
            /\ Goto(c, "check")
       ELSE /\ Goto(c, "block")
            /\ UNCHANGED <<lock, reg>>
    /\ UNCHANGED <<lists, blocked, run, threads, ready, remote, runs>>

\* Sched_constraint::block(): off the ready queue, onto the blocked list
SchedBlock(c) ==
    LET s   == reg[c].sc
        t   == reg[c].thr
        out == DequeueOn(c, t)
        in  == Push(out.hook, blocked[s], t, "Back")
    IN
    /\ pc[c] = "block"
    /\ rq' = [rq EXCEPT ![c] = out.rq]
    /\ hook' = in.hook
    /\ blocked' = [blocked EXCEPT ![s] = in.head]
    /\ lock' = [lock EXCEPT ![s] = Nil]
    /\ Return(c, "pick")
    /\ UNCHANGED <<run, threads, ready, remote, runs>>

\* No slot is closed: a context that is not ready leaves the ready queue only
\* now, a ready one gets the CPU (schedule_switch_to_locked()).
SchedAccept(c) ==
    LET t == reg[c].thr IN
    /\ pc[c] = "check"
    /\ reg[c].i \notin Slot
    /\ IF ready[t]
       THEN /\ ScheduleSwitchTo(c, t)
            /\ IF t = curr[c] THEN UNCHANGED lists ELSE UpdateReadyList(c)
            /\ Return(c, "user")
       ELSE /\ SetRq(c, DequeueOn(c, t))
            /\ Return(c, "pick")
            /\ UNCHANGED runs
    /\ UNCHANGED <<blocked, run, lock, threads, ready, remote>>

Schedule(c) ==
    \/ SchedEnter(c) \/ SchedPick(c) \/ SchedCheck(c) \/ SchedLock(c)
    \/ SchedRecheck(c) \/ SchedBlock(c) \/ SchedAccept(c)

-----------------------------------------------------------------------------
(* Context::xcpu_state_change(~0, Thread_ready), the remote half.  The      *)
(* caller has set `pending` and the thread; pending_rqq_enqueue() follows.  *)

RemoteStateChange(c, t) ==
    /\ pending' = [pending EXCEPT ![t] = TRUE]
    /\ Goto(c, "enqueue")

\* Under the lock of the queue: the first entry makes the caller send an IPI.
PendingRqqEnqueue(c) ==
    LET t == reg[c].thr
        h == Home[t]
    IN
    /\ pc[c] = "enqueue"
    /\ rqq' = [rqq EXCEPT ![h] = IF Contains(@, t) THEN @ ELSE Append(@, t)]
    /\ IF rqq[h] = <<>>
       THEN Goto(c, "sendIpi")
       ELSE Goto(c, reg[c].xret)
    /\ UNCHANGED <<lists, blocked, run, lock, threads, ready, pending, ipi,
                   runs, reg>>

SendIpi(c) ==
    /\ pc[c] = "sendIpi"
    /\ ipi' = [ipi EXCEPT ![Home[reg[c].thr]] = TRUE]
    /\ Goto(c, reg[c].xret)
    /\ UNCHANGED <<lists, blocked, run, lock, threads, ready, pending, rqq,
                   runs, reg>>

-----------------------------------------------------------------------------
(* Sched_constraint::wake_up_all_blocked() *)

WakeLock(c) ==
    LET s == reg[c].sc IN
    /\ pc[c] = "wakeLock"
    /\ lock[s] = Nil
    /\ lock' = [lock EXCEPT ![s] = c]
    /\ reg' = [reg EXCEPT ![c].it = blocked[s]]
    /\ Goto(c, "notify")
    /\ UNCHANGED <<lists, blocked, run, threads, ready, remote, runs>>

\* ++ of Sd_list::Iterator
After(s, t) == IF hook.next[t] = blocked[s] THEN Nil ELSE hook.next[t]

\* The first loop makes the threads ready while they are still in the list.
WakeNotify(c) ==
    LET s == reg[c].sc
        t == reg[c].it
    IN
    /\ pc[c] = "notify"
    /\ IF t = Nil
       THEN /\ Goto(c, "drain")
            /\ UNCHANGED <<lists, ready, pending, reg>>
       ELSE IF Home[t] = c
       THEN /\ ready' = [ready EXCEPT ![t] = TRUE]
            /\ SetRq(c, EnqueueOn(c, t))
            /\ reg' = [reg EXCEPT ![c].it = After(s, t)]
            /\ UNCHANGED <<pc, pending>>
       ELSE /\ RemoteStateChange(c, t)
            /\ reg' = [reg EXCEPT ![c].it = After(s, t), ![c].thr = t,
                                  ![c].xret = "notify"]
            /\ UNCHANGED <<lists, ready>>
    /\ UNCHANGED <<blocked, run, lock, threads, rqq, ipi, runs>>

\* The second loop takes them out of the list, from begin() on ...
DrainBegin(c) ==
    LET h == blocked[reg[c].sc] IN
    /\ pc[c] = "drain" /\ reg[c].it = Nil /\ h # Nil
    /\ reg' = [reg EXCEPT ![c].it = h, ![c].hd = h]
    /\ UNCHANGED <<lists, blocked, run, lock, threads, ready, remote, runs, pc>>

\* ... with erase(), which steps on before it removes and looks for the end
\* where begin() was.  That one is gone when there are others: the last one is
\* erased again.  Linked nowhere, it makes the kernel write through the null
\* pointer and go no further; but if its CPU has queued it meanwhile, it is
\* taken out of that ready queue.
DrainErase(c) ==
    LET s == reg[c].sc
        t == reg[c].it
        r == RemoveItem(hook, blocked[s], t)
    IN
    /\ pc[c] = "drain" /\ t # Nil
    /\ hook' = r.hook
    /\ blocked' = [blocked EXCEPT ![s] = r.head]
    /\ IF InList(hook, t)
       THEN /\ reg' = [reg EXCEPT ![c].it = IF hook.next[t] = reg[c].hd
                                           THEN Nil ELSE hook.next[t]]
            /\ UNCHANGED pc
       ELSE /\ Goto(c, "fault")
            /\ UNCHANGED reg
    /\ UNCHANGED <<rq, run, lock, threads, ready, remote, runs>>

DrainEnd(c) ==
    LET s == reg[c].sc IN
    /\ pc[c] = "drain" /\ reg[c].it = Nil /\ blocked[s] = Nil
    /\ lock' = [lock EXCEPT ![s] = Nil]
    /\ Goto(c, reg[c].wret)
    /\ reg' = [reg EXCEPT ![c] = [NoReg EXCEPT !.resched = reg[c].resched,
                                               !.fired   = reg[c].fired]]
    /\ UNCHANGED <<lists, blocked, run, threads, ready, remote, runs>>

WakeDrain(c) == DrainBegin(c) \/ DrainErase(c) \/ DrainEnd(c)

WakeUpAllBlocked(c) == WakeLock(c) \/ WakeNotify(c) \/ WakeDrain(c)

-----------------------------------------------------------------------------
(* Cond_sc::flip(): a system call of the running thread.  Nothing keeps two *)
(* of them apart: _run is read, written and read again without the lock.    *)

FlipRead(c, s) ==
    /\ pc[c] = "user" /\ "flip" \in Ops /\ Kind[s] = "cond"
    /\ curr[c] \in User
    /\ reg' = [reg EXCEPT ![c].sc = s, ![c].val = ~ run[s]]
    /\ Goto(c, "flipWrite")
    /\ UNCHANGED <<lists, blocked, run, lock, threads, ready, remote, runs>>

FlipWrite(c) ==
    /\ pc[c] = "flipWrite"
    /\ run' = [run EXCEPT ![reg[c].sc] = reg[c].val]
    /\ Goto(c, "flipTest")
    /\ UNCHANGED <<lists, blocked, lock, threads, ready, remote, runs, reg>>

FlipTest(c) ==
    /\ pc[c] = "flipTest"
    /\ IF run[reg[c].sc]
       THEN Goto(c, "wakeLock") /\ UNCHANGED reg
       ELSE Return(c, "user")
    /\ UNCHANGED <<lists, blocked, run, lock, threads, ready, remote, runs>>

Flip(c) == (\E s \in SC : FlipRead(c, s)) \/ FlipWrite(c) \/ FlipTest(c)

-----------------------------------------------------------------------------
(* The timer interrupt: Timeout_q::do_timeouts() runs the expired() of up   *)
(* to TickMax timeouts of this CPU, then handle_timer_interrupt() calls     *)
(* schedule() if one of them asked for it.                                  *)

\* Quant_sc::Timeslice_timeout::expired()
QuantExpired(c) ==
    /\ Expire(c, "quant")
    /\ quantum[c]
    /\ quantum' = [quantum EXCEPT ![c] = FALSE]
    /\ SetRq(c, Requeue(hook, rq[c], rqcur[c], prio[rqcur[c]]))
    /\ reg' = Fired(c, TRUE)
    /\ Goto(c, "tick")
    /\ UNCHANGED <<blocked, run, lock, threads, ready, remote, curr,
                   rqcur>>

\* Budget_sc::Oob_timeout::expired(); set while a context it constrains runs
OobExpired(c, s) ==
    /\ Expire(c, "oob") /\ Kind[s] = "budget"
    /\ \E i \in Slot : slots[rqcur[c]][i] = s
    /\ run' = [run EXCEPT ![s] = FALSE]
    /\ reg' = Fired(c, TRUE)
    /\ Goto(c, "tick")
    /\ UNCHANGED <<lists, blocked, lock, threads, ready, remote, runs>>

\* Budget_sc::period_expired(): replenish() and wake, whatever _run was, and
\* set the timer again
ReplExpired(c, s) ==
    /\ Expire(c, "repl") /\ Kind[s] = "budget" /\ TimerCpu[s] = c
    /\ timer[s]
    /\ run' = [run EXCEPT ![s] = TRUE]
    /\ timer' = [timer EXCEPT ![s] = TRUE]
    /\ reg' = [Fired(c, TRUE) EXCEPT ![c].sc = s, ![c].wret = "tick"]
    /\ Goto(c, "wakeLock")
    /\ UNCHANGED <<lists, blocked, lock, slots, prio, ready, remote, runs>>

\* Timer_window_sc::flip_state(): the window opens, the timer is set for its
\* end, and it closes for good; when the interrupt that opens it comes after
\* its end, no timer is set and it stays open.  Only this CPU writes _run of a
\* window.
WindowExpired(c, s) ==
    /\ Expire(c, "window") /\ Kind[s] = "window" /\ TimerCpu[s] = c
    /\ timer[s]
    /\ run' = [run EXCEPT ![s] = ~ @]
    /\ \E late \in BOOLEAN : timer' = [timer EXCEPT ![s] = ~ run[s] /\ ~ late]
    /\ IF run[s]
       THEN /\ reg' = Fired(c, TRUE)
            /\ Goto(c, "tick")
       ELSE /\ reg' = [Fired(c, TRUE) EXCEPT ![c].sc = s, ![c].wret = "tick"]
            /\ Goto(c, "wakeLock")
    /\ UNCHANGED <<lists, blocked, lock, slots, prio, ready, remote, runs>>

\* IPC_timeout::expired(): the sleeper gets ready and is deblocked, not lazily
IpcTimeout(c, t) ==
    /\ Expire(c, "ipcTimeout")
    /\ t \in User /\ Home[t] = c /\ ~ ready[t] /\ ~ pending[t]
    /\ ready' = [ready EXCEPT ![t] = TRUE]
    /\ SetRq(c, EnqueueOn(c, t))
    /\ reg' = Fired(c, Preempts(prio, t, curr[c], rqcur[c]))
    /\ Goto(c, "tick")
    /\ UNCHANGED <<blocked, run, lock, threads, remote, runs>>

TickEnd(c) ==
    /\ pc[c] = "tick"
    /\ Return(c, IF reg[c].resched THEN "sched" ELSE "user")
    /\ UNCHANGED <<lists, blocked, run, lock, threads, ready, remote, runs>>

Timer(c) ==
    \/ QuantExpired(c)
    \/ \E s \in SC : OobExpired(c, s) \/ ReplExpired(c, s) \/ WindowExpired(c, s)
    \/ \E t \in Thread : IpcTimeout(c, t)

-----------------------------------------------------------------------------
(* Sched_context::attach() and detach(), called by the running thread for   *)
(* any thread.  The slots are not locked.                                   *)

\* The timers of a budget are those of one thread, programmed when it is
\* switched to.
Attach(c, t, s) ==
    /\ pc[c] = "user" /\ "attach" \in Ops /\ curr[c] \in User
    /\ t \in User
    /\ \A i \in Slot : slots[t][i] # s
    /\ Kind[s] = "budget" => TimerCpu[s] = Home[t] /\ rqcur[Home[t]] # t
    /\ \/ Kind[s] # "budget" /\ "share" \in Ops
       \/ \A u \in Thread, i \in Slot : slots[u][i] # s
    /\ \E i \in Slot :
          /\ slots[t][i] = Nil
          /\ \A j \in 1 .. i-1 : slots[t][j] # Nil
          /\ slots' = [slots EXCEPT ![t][i] = s]
    /\ UNCHANGED <<lists, blocked, run, lock, prio, timer, ready, remote, runs, pc, reg>>

DetachSlot(c, t, s) ==
    /\ pc[c] = "user" /\ "detach" \in Ops /\ curr[c] \in User
    /\ \E i \in Slot :
          /\ slots[t][i] = s
          /\ slots' = [slots EXCEPT ![t][i] = Nil]
    /\ reg' = [reg EXCEPT ![c].thr = t, ![c].sc = s]
    /\ Goto(c, "detachLock")
    /\ UNCHANGED <<lists, blocked, run, lock, prio, timer, ready, remote, runs>>

DetachLock(c) ==
    /\ pc[c] = "detachLock"
    /\ lock[reg[c].sc] = Nil
    /\ lock' = [lock EXCEPT ![reg[c].sc] = c]
    /\ Goto(c, "detachWork")
    /\ UNCHANGED <<lists, blocked, run, threads, ready, remote, runs, reg>>

\* Sched_constraint::deblock(): off the blocked list first, then woken
DetachWork(c) ==
    LET s == reg[c].sc
        t == reg[c].thr
        r == RemoveItem(hook, blocked[s], t)
        q == ReadyEnqueue(r.hook, rq[c], t, prio[t])
    IN
    /\ pc[c] = "detachWork"
    /\ IF t \notin Members(hook, blocked[s])
       THEN /\ Goto(c, "detachUnlock")
            /\ UNCHANGED <<lists, blocked, ready, pending, reg>>
       ELSE /\ blocked' = [blocked EXCEPT ![s] = r.head]
            /\ IF Home[t] = c
               THEN /\ ready' = [ready EXCEPT ![t] = TRUE]
                    /\ SetRq(c, q)
                    /\ Goto(c, "detachUnlock")
                    /\ UNCHANGED <<pending, reg>>
               ELSE /\ hook' = r.hook
                    /\ RemoteStateChange(c, t)
                    /\ reg' = [reg EXCEPT ![c].xret = "detachUnlock"]
                    /\ UNCHANGED <<rq, ready>>
    /\ UNCHANGED <<run, lock, threads, rqq, ipi, runs>>

DetachUnlock(c) ==
    /\ pc[c] = "detachUnlock"
    /\ lock' = [lock EXCEPT ![reg[c].sc] = Nil]
    /\ Return(c, "user")
    /\ UNCHANGED <<lists, blocked, run, threads, ready, remote, runs>>

Detach(c) ==
    \/ \E t \in User, s \in SC : DetachSlot(c, t, s)
    \/ DetachLock(c) \/ DetachWork(c) \/ DetachUnlock(c)

-----------------------------------------------------------------------------
(* IPC, as far as the dispatcher is concerned. *)

\* goto_sleep()
Sleep(c) ==
    /\ pc[c] = "user" /\ "sleep" \in Ops /\ curr[c] \in User
    /\ ready' = [ready EXCEPT ![curr[c]] = FALSE]
    /\ Goto(c, "sched")
    /\ UNCHANGED <<lists, blocked, run, lock, threads, remote, runs, reg>>

\* activate_ipc_partner() of a thread at home on another CPU
WakeRemote(c, t) ==
    /\ CanWake(c, t, "wakeRemote") /\ Home[t] # c
    /\ RemoteStateChange(c, t)
    /\ reg' = [reg EXCEPT ![c].thr = t]
    /\ UNCHANGED <<lists, blocked, run, lock, threads, ready, rqq, ipi, runs>>

\* activate_ipc_partner() with do_switch: the partner runs on the scheduling
\* context of the sender, which stays ready: it goes to sleep, if it waits for
\* an answer, when it is dispatched again.
WakeSwitch(c, t) ==
    /\ CanWake(c, t, "wakeSwitch") /\ Home[t] = c
    /\ ready' = [ready EXCEPT ![t] = TRUE]
    /\ UpdateReadyList(c)
    /\ curr' = [curr EXCEPT ![c] = t]
    /\ UNCHANGED <<blocked, run, lock, threads, remote, rqcur, quantum, pc,
                   reg>>

\* deblock_and_schedule(): a partner that preempts is not queued but switched
\* to, without a look at its constraints.
WakeLazy(c, t) ==
    /\ CanWake(c, t, "wakeLazy") /\ Home[t] = c
    /\ ready' = [ready EXCEPT ![t] = TRUE]
    /\ IF Preempts(prio, t, curr[c], rqcur[c])
       THEN /\ ScheduleSwitchTo(c, t)
            /\ UpdateReadyList(c)
       ELSE /\ SetRq(c, EnqueueOn(c, t))
            /\ UNCHANGED runs
    /\ UNCHANGED <<blocked, run, lock, threads, remote, pc, reg>>

Ipc(c) == \/ Sleep(c)
          \/ \E t \in Thread : WakeRemote(c, t) \/ WakeSwitch(c, t) \/ WakeLazy(c, t)

\* Context::change_prio_to(): called on whatever CPU the caller is, it works on
\* the ready queue of the home CPU of the thread, which has no lock.  Each of
\* the two list operations is a step.
SetPrioOut(c, t, p) ==
    /\ pc[c] = "user" /\ "setPrio" \in Ops /\ curr[c] \in User
    /\ t \in User
    /\ prio' = [prio EXCEPT ![t] = p]
    /\ IF InList(hook, t)
       THEN /\ SetRq(Home[t], DequeueOn(Home[t], t))
            /\ reg' = [reg EXCEPT ![c].thr = t]
            /\ Goto(c, "setPrio")
       ELSE UNCHANGED <<lists, reg, pc>>
    /\ UNCHANGED <<blocked, run, lock, slots, timer, ready, remote, runs>>

SetPrioIn(c) ==
    /\ pc[c] = "setPrio"
    /\ SetRq(Home[reg[c].thr], EnqueueOn(Home[reg[c].thr], reg[c].thr))
    /\ Return(c, "user")
    /\ UNCHANGED <<blocked, run, lock, threads, ready, remote, runs>>

SetPrio(c) == \/ \E t \in User, p \in Prio : SetPrioOut(c, t, p)
              \/ SetPrioIn(c)

-----------------------------------------------------------------------------
(* Thread::handle_remote_requests_irq() and Pending_rqq::handle_requests() *)

IpiArrives(c) ==
    /\ pc[c] = "user" /\ ipi[c]
    /\ ipi' = [ipi EXCEPT ![c] = FALSE]
    /\ Return(c, "rqq")
    /\ UNCHANGED <<lists, blocked, run, lock, threads, ready, pending, rqq, runs>>

RqqTake(c) ==
    /\ pc[c] = "rqq"
    /\ IF rqq[c] = <<>>
       THEN /\ Return(c, IF reg[c].resched THEN "sched" ELSE "user")
            /\ UNCHANGED rqq
       ELSE /\ reg' = [reg EXCEPT ![c].thr = Head(rqq[c])]
            /\ rqq' = [rqq EXCEPT ![c] = Tail(@)]
            /\ Goto(c, "apply")
    /\ UNCHANGED <<lists, blocked, run, lock, threads, ready, pending, ipi, runs>>

\* handle_remote_state_change(), then deblock() of a thread that is ready
RqqApply(c) ==
    LET t   == reg[c].thr
        rdy == ready[t] \/ pending[t]
        deb == t # curr[c] /\ rdy
    IN
    /\ pc[c] = "apply"
    /\ ready' = [ready EXCEPT ![t] = rdy]
    /\ pending' = [pending EXCEPT ![t] = FALSE]
    /\ IF deb THEN SetRq(c, EnqueueOn(c, t)) ELSE UNCHANGED lists
    /\ reg' = [reg EXCEPT ![c].thr = Nil,
                          ![c].resched = @ \/ (deb /\ Preempts(prio, t, curr[c], rqcur[c]))]
    /\ Goto(c, "rqq")
    /\ UNCHANGED <<blocked, run, lock, threads, rqq, ipi, runs>>

HandleRequests(c) == RqqTake(c) \/ RqqApply(c)

-----------------------------------------------------------------------------
Next == \E c \in Cpu :
           \/ Schedule(c)
           \/ PendingRqqEnqueue(c) \/ SendIpi(c)
           \/ WakeUpAllBlocked(c)
           \/ Flip(c)
           \/ Timer(c) \/ TickEnd(c)
           \/ \E t \in Thread, s \in SC : Attach(c, t, s)
           \/ Detach(c)
           \/ Ipc(c)
           \/ SetPrio(c)
           \/ IpiArrives(c) \/ HandleRequests(c)

Spec == Init /\ [][Next]_vars

\* Kernel paths run on; what threads and timers ask for is free.
KernelStep(c) ==
    \/ Schedule(c)
    \/ PendingRqqEnqueue(c) \/ SendIpi(c)
    \/ WakeUpAllBlocked(c)
    \/ FlipWrite(c) \/ FlipTest(c)
    \/ TickEnd(c)
    \/ DetachLock(c) \/ DetachWork(c) \/ DetachUnlock(c)
    \/ SetPrioIn(c)
    \/ HandleRequests(c)

-----------------------------------------------------------------------------
OrNil(S) == S \cup {Nil}

TypeOK ==
    /\ hook \in [next : [Thread -> OrNil(Thread)], prev : [Thread -> OrNil(Thread)]]
    /\ rq \in [Cpu -> [queue : [Prio -> OrNil(Thread)], highest : Prio]]
    /\ blocked \in [SC -> OrNil(Thread)]
    /\ run \in [SC -> BOOLEAN]
    /\ timer \in [SC -> BOOLEAN]
    /\ lock \in [SC -> OrNil(Cpu)]
    /\ slots \in [Thread -> [Slot -> OrNil(SC)]]
    /\ prio \in [Thread -> Prio]
    /\ ready \in [Thread -> BOOLEAN]
    /\ pending \in [Thread -> BOOLEAN]
    /\ rqq \in [Cpu -> Seq(Thread)]
    /\ ipi \in [Cpu -> BOOLEAN]
    /\ curr \in [Cpu -> Thread]
    /\ rqcur \in [Cpu -> Thread]
    /\ quantum \in [Cpu -> BOOLEAN]
    /\ pc \in [Cpu -> Labels]
    /\ reg \in [Cpu -> [thr : OrNil(Thread), it : OrNil(Thread), hd : OrNil(Thread),
                        sc : OrNil(SC), i : Nat, val : BOOLEAN, resched : BOOLEAN, fired : Nat,
                        xret : Labels, wret : Labels]]

(* No thread is stranded on an open constraint.  check_sc_list() looks at   *)
(* _run, takes the lock and looks again; an opener writes _run without the  *)
(* lock and then drains the list under it.  Whatever the interleaving, if a *)
(* constraint is open and its blocked list is not empty, some CPU is        *)
(* between having opened it and having drained it, or has stopped there.    *)
Opening(c, s) ==
    /\ reg[c].sc = s
    /\ pc[c] \in {"flipTest", "wakeLock", "notify", "drain", "fault",
                  "enqueue", "sendIpi"}
    /\ pc[c] \in {"enqueue", "sendIpi"} => reg[c].xret = "notify"

NoStranded ==
    \A s \in SC : run[s] /\ blocked[s] # Nil => \E c \in Cpu : Opening(c, s)

\* What keeps NoStranded: the locals a kernel path relies on where it uses
\* them, the lock as a mutual exclusion of the critical sections, and the CPU
\* that is about to block counted as if it had done so.
HasThread == {"check", "lock", "recheck", "block", "enqueue", "sendIpi", "apply",
              "detachLock", "detachWork", "detachUnlock", "setPrio"}
HasSC == {"lock", "recheck", "block", "flipWrite", "flipTest", "wakeLock",
          "notify", "drain", "fault", "detachLock", "detachWork", "detachUnlock"}
CrossCalls == {"enqueue", "sendIpi"}

LocalOK(c) ==
    /\ pc[c] \in HasThread => reg[c].thr \in Thread
    /\ pc[c] \in HasSC => reg[c].sc \in SC
    /\ pc[c] \in CrossCalls =>
          \/ reg[c].xret = "user"
          \/ reg[c].xret \in {"notify", "detachUnlock"} /\ reg[c].sc \in SC
    /\ pc[c] \in {"user", "tick"} => reg[c].xret = "user"
    /\ reg[c].wret \in {"user", "tick"}

LocalsOK == \A c \in Cpu : LocalOK(c)

Holds(c, s) ==
    /\ reg[c].sc = s
    /\ \/ pc[c] \in {"recheck", "block", "notify", "drain", "fault",
                     "detachWork", "detachUnlock"}
       \/ pc[c] \in CrossCalls /\ reg[c].xret # "user"

LocksOK == \A c \in Cpu, s \in SC : lock[s] = c <=> Holds(c, s)

BlockedSoon(s) ==
    blocked[s] # Nil \/ \E c \in Cpu : pc[c] = "block" /\ reg[c].sc = s

OpenersAtWork ==
    \A s \in SC : run[s] /\ BlockedSoon(s) => \E c \in Cpu : Opening(c, s)

IInv == TypeOK /\ LocalsOK /\ LocksOK /\ OpenersAtWork

(* One hook, one list: a linked context is in exactly one list, and it is   *)
(* either the ready queue of its home CPU at its own priority, or the       *)
(* blocked list of a constraint.  No list is headed by an unlinked context. *)
OneList ==
    /\ RingsClosed(hook)
    /\ \A t \in Thread : InList(hook, t) =>
          \/ /\ t \in Members(hook, rq[Home[t]].queue[prio[t]])
             /\ \A s \in SC : t \notin Members(hook, blocked[s])
          \/ \E s \in SC :
                /\ t \in Members(hook, blocked[s])
                /\ \A r \in SC \ {s} : t \notin Members(hook, blocked[r])
    /\ \A c \in Cpu, p \in Prio :
          Members(hook, rq[c].queue[p]) \subseteq
             {t \in Thread : InList(hook, t) /\ Home[t] = c /\ prio[t] = p}

(* The dispatcher always finds somebody: when it looks for the next context *)
(* the list prio_highest names is not empty, for it would follow a null     *)
(* pointer otherwise.  Nor does a more urgent list go unnoticed.            *)
DispatcherFindsNext ==
    \A c \in Cpu :
       /\ pc[c] = "pick" => NextToRun(rq[c]) # Nil
       /\ \A p \in Prio : rq[c].queue[p] # Nil => p <= rq[c].highest

(* A ready thread that is linked nowhere has the CPU, or a request to put   *)
(* it into the ready queue is on its way.                                   *)
NoThreadLost ==
    \A t \in User :
       ready[t] /\ ~ InList(hook, t) /\ ~ pending[t] =>
          \/ \E c \in Cpu : curr[c] = t
          \/ \E c \in Cpu : t = reg[c].thr /\ pc[c] \in {"apply", "setPrio"}

(* The doorbell protocol of the remote request queues: only who finds the   *)
(* queue empty rings.  Still no request waits for an interrupt that nobody  *)
(* is going to send, and no state change for a request nobody is to queue.  *)
Notified ==
    /\ \A c \in Cpu : rqq[c] # <<>> =>
          \/ ipi[c]
          \/ pc[c] \in {"rqq", "apply"}
          \/ \E d \in Cpu : pc[d] = "sendIpi" /\ Home[reg[d].thr] = c
    /\ \A t \in Thread : pending[t] =>
          \/ Contains(rqq[Home[t]], t)
          \/ \E d \in Cpu : reg[d].thr = t /\ pc[d] \in {"enqueue", "apply"}

(* The CPU is with the most urgent: when the kernel returns to user mode,   *)
(* every list of the ready queue above the priority of the running thread   *)
(* and of the one on whose time slice it runs is empty.  deblock() decides  *)
(* who has to look again after a wake-up.  It holds as long as every thread *)
(* runs on its own time slice: activate_ipc_partner() hands one on without  *)
(* a look at the ready queue, where the one who lent it may be.             *)
RunsMostUrgent ==
    \A c \in Cpu : pc[c] = "user" =>
       \A p \in Prio : p > prio[curr[c]] /\ p > prio[rqcur[c]] => rq[c].queue[p] = Nil

(* assert(!in_my_blocked_list(scx)) in Sched_constraint::block() *)
BlocksOnce ==
    \A c \in Cpu : pc[c] = "block" =>
       reg[c].thr \notin Members(hook, blocked[reg[c].sc])

(* A budget that is used up, and that constrained a thread when the thread  *)
(* was started, is going to be replenished: its timer is set.               *)
ReplenishmentPending ==
    \A s \in SC : Kind[s] = "budget" /\ ~ run[s] => timer[s]

(* A constraint that stays open gets its blocked list emptied, and its lock, *)
(* for which every dispatcher that looks at the constraint spins, comes free *)
(* (wake_up_all_blocked()).                                                  *)
Drained(s) == lock[s] = Nil /\ ~ (run[s] /\ blocked[s] # Nil)
OpenDrains == \A s \in SC : (run[s] /\ blocked[s] # Nil) ~> Drained(s)

(* A context in a ready queue gets its time slice, for its own thread or for *)
(* a partner, or something more urgent does, or it is taken out: round robin *)
(* starves nobody of the highest priority.                                   *)
Waits(t) == t \in Members(hook, rq[Home[t]].queue[prio[t]])
HasTurn(t) ==
    t \in {curr[Home[t]], rqcur[Home[t]]} \/ ~ Waits(t) \/ rq[Home[t]].highest > prio[t]
=============================================================================
