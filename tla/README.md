# Verification of the l4re-scc scheduler

This directory holds TLA+ specifications, TLC configurations and TLAPS proofs
for the scheduling-constraint kernel in `src/src/fiasco`, with the parts of the
kernel it rests on: IPC, migration, deferred requests, RCU. The kernel is Fiasco.OC
with its scheduler replaced: a thread is no longer given a scheduling context of
one fixed kind but a `Sched_context` with slots for *scheduling constraints*
(`Sched_constraint`), and it runs only while every attached constraint is open.
That mechanism, its interplay with IPC, timers and several CPUs, is the core
logic of the repository and the subject of this project. All paths below are
relative to `src/src/fiasco/src/kern` unless they say otherwise.

## 1. Inventory

### 1.1 Scheduler

| Component | State | Operations | What makes it correct |
|---|---|---|---|
| Intrusive lists (`lib/libk/cxx/dlist`) | `_dli_next`, `_dli_prev` in the items, a head pointer per list | push, remove, erase, rotate_to, iterate | an item is in one list; rings are closed |
| `Ready_queue` (`ready_queue.cpp`), one per CPU | a list per priority, `prio_highest`, `_current` | ready_enqueue, dequeue, requeue, next_to_run, deblock | the pick is the first context of the highest priority in use; a context is in the list of its priority; round robin |
| `Sched_context` (`sched_context.cpp`) | `_prio`, the slots `_list`, the list hook, the quantum | attach, detach, can_run / check_sc_list, migrate_away / migrate_to | a context with a closed constraint leaves the ready queue, and comes back when the constraint opens |
| `Sched_constraint` (`sched_constraint.cpp`): `Cond_sc`, `Budget_sc`, `Timer_window_sc`, `Quant_sc` | `_run`, the blocked list, a spin lock, timers | block, deblock, wake_up_all_blocked, flip, expired, migrate | nobody is left on the list of an open constraint; a thread is blocked once; budgets are replenished |
| Dispatcher (`context.cpp`) | `Context::_state`, `_home_cpu`, remote request queue, DRQ queue | schedule, switch_exec, update_ready_list, xcpu_state_change, change_prio_to | the dispatcher always finds a context; no ready thread is forgotten; remote wake-ups arrive |
| Timers (`timeout.cpp`, `timer_tick.cpp`, `timeslice_timeout.cpp`, `ipc_timeout.cpp`) | a wheel of eight sorted lists per CPU | set, reset, do_timeouts | a timeout that is due expires, once |
| System calls (`scheduler.cpp`) | the global constraint | run_thread, set_prio, attach_sc, detach_sc | they keep the rules of the operations they call |
| Migration (`thread.cpp`, `context.cpp`) | the migration record of a thread, DRQs | migrate, migrate_away, migrate_xcpu | a thread is in the ready queue of one CPU; requests follow it |

How they interact. A CPU runs the kernel with interrupts off. Its dispatcher
takes the first context of its ready queue and asks `can_run()`; a closed
constraint moves the context from the ready queue to its own blocked list, under
its spin lock. Constraints are opened by a system call (`Cond_sc::flip()`), by a
timeout of the CPU the constraint lives on (`Budget_sc`, `Timer_window_sc`), and a
thread is released by detaching it; all of them make threads of *other* CPUs
ready, by a state change deposited with the thread, an entry in the remote
request queue of its home CPU and, if that queue was empty, an inter-processor
interrupt. IPC makes threads ready the same way, switches to the partner directly
and may leave the partner running on the sender's scheduling context. The ready
queue and the blocked lists use the same hook of a `Sched_context`.

What is hard here: `_run` is read and written without the lock; the slots and the
ready queue of another CPU are changed without a lock; the hook is shared by two
kinds of list that do not know of each other; wake-ups are deposited, queued and
signalled in separate steps on two CPUs; the lazy queueing of IPC relies on the
caller to switch; round robin depends on a timer that is set only when the
scheduling context changes. `PROJECT.json` lists each hazard at its line.

### 1.2 What the scheduler works with

| Component | State | Operations | What makes it correct |
|---|---|---|---|
| IPC (`thread-ipc.cpp`, `receiver.cpp`, `sender.cpp`, `ipc_timeout.cpp`) | the IPC flags of `Context::_state`, `_partner`, `_caller`, the sender list | do_ipc: handshake, transfer, send wait, receive; abort_send, cancel, kill | a message is handed over between two calls that want each other, and both are told the truth; nobody is left waiting for a partner that has gone on |
| Migration (`thread.cpp`) | `_home_cpu`, `_migration`, `Thread_finish_migration` | migrate, migrate_xcpu, migrate_away, migrate_to, finish_migration | one CPU handles a context at a time; a `Migration` on a stack is not used after its owner has returned |
| DRQs and request queues (`context.cpp`, `queue.cpp`) | `_drq_q`, `_pending_rqq` | drq, enqueue_drq, handle_drq, handle_requests | a request is executed once, and answered, wherever its target goes |
| RCU (`rcupdate.cpp`) | batch numbers, the CPUs a batch waits for, lists of items | call, process_callbacks, start_batch, cpu_quiet, enter_idle, leave_idle | nothing is reclaimed while a CPU uses it, and everything is in the end |

They interact through contexts. A remote IPC is a DRQ to the receiver's CPU; a
DRQ puts its target into the request queue of its home CPU and rings there; the
answer, like every state change for a thread of another CPU, comes back the same
way; a migration changes which CPU that is. RCU's work is done by the timer
interrupt and the request interrupt, which come when no kernel path of the CPU is
in a section with interrupts off.

What is hard here: `_home_cpu` is read without a lock and again under one; a wait
of a thread ends by a transfer, a timeout, a cancel, a kill or the death of the
partner, from either CPU, and two of them may come together; flags set and deleted by another CPU arrive late and merged;
the batch numbers of RCU are read without its lock and wrap around.

### 1.3 The rest of the kernel

Cross-CPU calls (`cpu_call.cpp`), locks with helping (`switch_lock.cpp`), semaphores
and interrupt objects (`semaphore.cpp`, `irq.cpp`), kernel objects and their
reference counts (`kobject.cpp`, `map_util.cpp`), the mapping database
(`mapdb.cpp`), allocators and quotas (`buddy_alloc.cpp`, `kmem_slab.cpp`,
`ram_quota.cpp`), the kernel debugger, drivers and architecture code, and the L4Re
user land in `src/src/l4` are not modelled; what is planned is in section 7.
`Mbw_sc` and memory bandwidth control drive hardware counters, and the code that
would attach them is commented out (`scheduler.cpp:132-137`).

## 2. Modules

| Module | Models | Notes |
|---|---|---|
| `SdList` | `cxx::D_list_cyclic`, `cxx::Sd_list` | operators on a hook record `k` (links of all items) and a head; removing an item from a list it is not in does what the code does |
| `AbstractRunQueue` | what a ready queue promises | per priority a sequence, and `pick`, the head of the highest priority in use |
| `ReadyQueue` | `Ready_queue` | pure operators: `Enqueue`, `ReadyDequeue`, `Requeue`, `LowerHighest` (the loop on `prio_highest`), `Preempts` (the answer of `deblock()`) |
| `ReadyQueueSys` | one ready queue under the operations of its own CPU | state `hook`, `rq`, `prio`; implements `AbstractRunQueue` |
| `ScSched`, `ScSchedConstants` | dispatcher, constraints, remote requests, timers and IPC entry points on several CPUs | the core, section 3 |
| `BudgetSc` | `Budget_sc`: what is left, the out-of-budget and the replenishment timeout | one CPU, time as a number, section 3.4 |
| `AbstractTimers` | what the timeouts of a CPU promise | armed for a time, expire once and not early |
| `TimeoutQ` | `Timeout_q`, `Timeout`: the wheel of sorted lists and its scan | section 3.5; implements `AbstractTimers` |
| `GracePeriod` | what RCU promises its users | objects are linked, used, unlinked, reclaimed |
| `Rcu` | `Rcu_glbl`, `Rcu_data`, `Rcu` | section 3.6; implements `GracePeriod` |
| `Migration` | migration, DRQs and request queues of contexts that move | section 3.7 |
| `Rendezvous` | what synchronous IPC promises | calls, meetings, returns |
| `Ipc`, `IpcRaces` | `Thread::do_ipc()` and what ends its waits; the same with a history of two races | section 3.8; implements `Rendezvous` until one of them is lost |
| `MCScSched`, `MCMigration`, `MCIpc` | constants and scenes for TLC | |
| `MCOneCpu` | `ReadyQueueSys`, `BudgetSc` and `TimeoutQ`, extended by one module that TLC checks | they share no state; a variable `scene` says whose steps are taken |
| `MCDispatch`, `MCConstraints` | two and five instances of `ScSched` that TLC checks together | a variable `scene` says which one it is, section 4 |
| `ReadyQueue_proofs`, `ReadyQueueSys_proofs`, `ScSched_proofs`, `BudgetSc_proofs`, `TimeoutQ_proofs`, `Rcu_proofs`, `Migration_proofs`, `Ipc_proofs` | lemmas and theorems | section 6 |

`ScSched` takes from `BudgetSc` and `TimeoutQ` only that timeouts expire, in any
order the hardware could produce; `BudgetSc` takes from `TimeoutQ` that a timeout
that is set expires at most `Late` after its time, and from `ScSched` that the
dispatcher switches between threads as it likes. `Migration` and `Ipc` take from
`ScSched` that a queued request is served (`SleeperWakes`), and that the threads of
a CPU get their turn (`SleepersRun`); `Ipc` takes from `Migration` that a DRQ is executed once
and answered. So they are checked apart.

The modules contain, under the word *mutation*, operators
that say what the code would be with a plausible bug. The specification does not
use them. Each property is checked to be violated when one of them replaces the
operator it mutates.

## 3. The core: ScSched

### 3.1 State

| Variable | In the code |
|---|---|
| `hook` | `_dli_next`, `_dli_prev` of every `Sched_context` |
| `rq[c]` | `Ready_queue`: the list heads and `prio_highest` |
| `blocked[s]`, `run[s]`, `lock[s]` | `Sched_constraint::_list`, `_run`, `_lock` |
| `timer[s]` | the period or window timeout of `s` is set |
| `slots[t]`, `prio[t]` | `Sched_context::_list`, `_prio` |
| `ready[t]` | `Thread_ready` in `Context::_state` |
| `pending[t]` | `_remote_state_change` of the thread would add `Thread_ready` |
| `rqq[c]`, `ipi[c]` | the remote request queue of `c` and its interrupt |
| `curr[c]`, `rqcur[c]` | `current()`, and the owner of `Ready_queue::_current`; they differ when a thread runs on the time slice of another |
| `quantum[c]` | the timer of the `Quant_sc` of `rqcur[c]` is set |
| `pc[c]`, `reg[c]` | where the kernel path of `c` is, and its locals |

### 3.2 Steps

A step is what no other CPU can see a part of: one access to a shared flag, or
what is done under a lock that is taken and released at once. So
`check_sc_list()` is `SchedCheck` (look without the lock), `SchedLock`,
`SchedRecheck` (look again) and `SchedBlock`; `flip()` is `FlipRead`, `FlipWrite`
and `FlipTest`, followed by `wake_up_all_blocked()`, which is `WakeLock`, one
`WakeNotify` per entry, and `WakeDrain`: `DrainBegin`, a `DrainErase` per `erase()` and
`DrainEnd` when the list is empty. The remote half of
`xcpu_state_change()` is the deposit (in the step that calls it),
`PendingRqqEnqueue` under the lock of the queue, and `SendIpi`. On the receiving
side `IpiArrives`, `RqqTake` and `RqqApply` are the interrupt and the loop of
`handle_requests()`. `schedule()` is `SchedEnter`, `SchedPick` and `SchedAccept`
around the constraint walk. An operation on a list is one step: two CPUs that
relink the same ring at the same time are not modelled.

The lock that is held over several steps is the one of a constraint. `Holds(c, s)`
says in which labels a CPU holds it; the remote wake-ups of the two functions that
wake under the lock are made with it held, as in the code.

`DrainErase` is the loop as it is written, with the iterator of `Sd_list` (`dlist:164-185`): `reg.hd` is
the head it was given at `begin()`, with which it compares, and it steps on before the removal.
In a list of one it meets that head and ends. In a longer one the head is the first to go, so
the iterator stays on the last entry, which is erased twice. By then it is linked nowhere, unless its CPU
has queued it meanwhile. In the first case `remove()` writes through the null pointer: the CPU
stops at `fault`, with the lock of the constraint taken, and does nothing more (what a kernel page
fault does then is not modelled). In the second `RemoveItem` takes it out of the ready queue of its
CPU, with the links the code would write. Finding 3.

Time is abstracted to the expiry of timeouts. `QuantExpired`, `OobExpired`,
`ReplExpired`, `WindowExpired` and `IpcTimeout` are the `expired()` functions;
`timer` and `quantum` say whether they can expire; up to `TickMax` of them run in
one timer interrupt before `TickEnd` calls `schedule()` if one asked for it.
A window opens and closes once (`Timer_window_sc` is one-shot), or stays open, if the interrupt
that opens it comes after its end: `calc_and_schedule_next_timeout()` then sets no timer (`sched_constraint.cpp:878`). An out-of-budget
timeout can expire while a context constrained by the budget runs.

IPC is what the dispatcher sees of it: `Sleep` (`goto_sleep()`), `WakeRemote`,
`WakeSwitch` and `WakeLazy` (the three ways `activate_ipc_partner()` and
`deblock_and_schedule()` make a partner ready). `SetPrioOut` and `SetPrioIn` are
the two list operations of `change_prio_to()`, done by the caller's CPU on the
queue of the home CPU.

`Init`: the user threads were just started from another CPU, so each is about to
be made ready by a remote request; each CPU runs its idle thread. The idle thread
of the boot CPU has priority 1, those of the other CPUs 0
(`app_cpu_thread.cpp:93`), as in the constants of the instances.

### 3.3 Restrictions

* Threads stay on their home CPU (`Migration` moves them); nothing is created or
  destroyed.
* A budget is attached only to a context that does not run and constrains one
  thread: `attach()` to the running thread reads a wake-up time that was never
  written (`sched_constraint.cpp:736`).
* A constraint other than a budget may be attached to several threads if `Ops` has `"share"`, or
  if it is so initially.
* `Ops` selects what the threads and timers of an instance do.

### 3.4 BudgetSc

`run`, `left`, `nextRepl` are `_run`, `_left`, `_next_repl` of each budget; `oobSet`
and `oobAt` are `is_set()` and `_wakeup` of its `_oob_timeout` (the time is still read
after the timeout expired), `replSet` says that `_repl_timeout` is set, for
`nextRepl`. `owner` owns the time slice of the CPU and `curr` runs, as in `ScSched`.
`SetCurrent` is `Ready_queue::set_current()` with the `deactivate()` of the old
context's budgets and the `activate()` of the new one's. `Dispatch` switches to a
thread whose budgets are open, `IpcSwitch` to any, because IPC does not ask
`can_run()`. `Interrupt`, `OobExpired`, `ReplExpired` and `InterruptEnd` are the
timer interrupt with the `expired()` functions of the timeouts that are due, in any
order, and `Start` is the `migrate_to()` at the end of the migration that starts a
thread: on this path it comes before the first `activate()`.

Time passes in `Tick`, and not past `Late` after the time of a timeout that is set:
`Late` is how late the interrupt may be. The program makes every budget equal to
its period (`set_budget()` and `set_period()` have no caller), and then the budget
never limits anything; the constants allow any two values, and the instance has
one budget of each kind. `consumed` and `slices` are history: what the thread has
run, and how often it was switched to, since the last `replenish()`.

A budget constrains one thread, is attached before the thread is started, and does
not migrate afterwards. The hazards list what goes wrong otherwise.

### 3.5 TimeoutQ

`q` is the wheel, a sequence per list; `wakeup`, `current`, `oldClock` are `_wakeup`,
`_current`, `_old_clock`. `TimerInterrupt` is `do_timeouts()` up to the loop: which
lists it scans. `ScanExpire` removes the first timeout of the scanned list and calls
its `expired()`, during which (`to` is set) `Set` and `Reset` are possible for any
timeout; `ScanNext` goes to the next list and programs the timer after the last. The
clock advances at any time, so an interrupt may come after the wheel has turned. The
iterator of the code points at the link of the list head throughout, because what it
passed was erased; so the model looks at the head again.

Callers of `Timeout::set()` compute a time that is not past. `SetAgain` is the end of a
migration, whose timeout was set on another CPU and may be due. Such a timeout may
land in a list the scan has just left; `OneTurnLate` says how long it stays there.

### 3.6 Rcu

`current`, `completed`, `nextPending`, `cpus`, `activeCpus` are the fields of
`Rcu_glbl`, and `lock` its lock; `qBatch`, `pending`, `qPassed`, `batch` and the
sets `n`, `c`, `d` are those of each `Rcu_data`. Writes happen under the lock, but
`_current`, `_completed` and `_next_pending` are also read without it, so each such
read, and each write such a read can see, is a step: `Move`, `AssignBatch`,
`ReadNextPending`, `RequestBatch` are `process_callbacks()`, `StartBatch` and
`AdvanceBatch` the two writes of `start_batch()`, `CheckQuiescentState`, `CpuQuiet`
and `AnnounceQuiet` the quiescent states. `GoIdle`, `EnterIdle` and `LeaveIdle` are
what the idle loop does around its sleep. Batch numbers are modulo `2 * Half`, with
the sign of the difference as order, as in the code.

What RCU is for is in the model, too: `status` of each object, and what the kernel
code of each CPU is `holding` while it keeps interrupts off (`Use`, `Release`), so
that "reclaimed under a user" can be said. `UserCpu` and `CreateIn` bound that
part: whose uses are followed, and in which batches objects are created anew.

### 3.7 Migration

`home` is `_home_cpu`, `mig` is `_migration`, and `info[w]` the `Migration` that
lies on the stack of the caller `w` of `migrate()` until `w` leaves `spin`. `ready`, `drqReady`,
`drqWait` and `finish` are flags of `_state`; `change` are the contexts with a
remote state change; `drqq` and `rqq` are the DRQ and the request queues. `timers` says
on which CPU the constraints of a context have their timeouts. CPUs run kernel
paths (`pc`, `reg`), and `cur` says of which context.

A step is what one CPU does with interrupts off between two accesses to what other
CPUs change. So every read of `_home_cpu` without a lock (`ReadHome`, `EnqueueDrq`,
`RereadHome`, `WakeReadHome`) is apart from the section under the queue lock that
looks again (`MigrateXcpu`, `SignalDrq`, `WakeSignal`). A context at home on the
invalid CPU is handled by whoever wants something from it, under that CPU's queue
lock (`offLock`): this is how a thread is started. `Kill` and `Dead` are the end of
`do_kill()`, which forces the context home to the invalid CPU.

`Careful` keeps callers from starting a context that is being started or is still
handling the last DRQs of its former life, and threads from exiting while a call of
`migrate()` for them is under way (`BeingMoved`); without it the code does not keep its
promises (run `migration_exit`). A wake-up from another CPU may still be on its way to a thread
that exits.

### 3.8 Ipc

`st[t]` is the set of the flags of `Context::_state` that concern IPC, and `chg[t]`
is `_remote_state_change`: flags to delete and to add, merged as
`xcpu_state_change()` does. `partner`, `caller` and `senders` are `_partner`,
`_caller` and `_sender_list`; `alarm` says that the `IPC_timeout` is set. `pc` and
`reg` are where a thread is in `do_ipc()` and its locals (`next`, `activate_partner`,
`result`, `ok`, the tag of its registers). `sent`, `got` and `told` are history: what
has been handed over in this call, and what the caller of the last one was told.

A thread with interrupts off holds its CPU (`InSection`): nothing of that CPU comes
in before it waits, maps items (`transfer_msg_items()` opens the CPU lock for each),
or switches to its partner. Everything that comes from outside comes between
sections: `TakeReply`, `TakeChange` and `Expired` on its own CPU, and the DRQ
handlers `RemoteIpcSend` and `RemoteAbortSend` on the CPU of the receiver.

A call is `DoIpc`, then for a send phase `HandshakeReceiver` (or
`RemoteHandshakeReceiver`, `RemoteIpcSend`, `RemoteAnswer` for a receiver on
another CPU), `Copy` for a transfer by the sender, or the wait in the list of the
receiver, which `SendWaited` ends, with `RemoteAbortSend` and `Aborted` if the
receiver is remote. `Pick`, `Activate`, `Switched` and `Receive` are the middle of
`do_ipc()`, `Pull` and `Pulled` the receiver taking the message of a waiting sender,
`WakeUp` and `End` the rest. `Cancel`, `PrepareKill`, `DoKill`, `AbortSender` and `Dead`
are `ex_regs()` and the kill path.

A *scene* gives each thread its calls, with their timeouts and whether they carry
map items, and says who may be cancelled or killed; when is up to TLC.

The code does not exclude two races. A receiver goes on with the sender it has picked after a switch to
its partner (`Activate`, `thread-ipc.cpp:619-625`) and while items are mapped with interrupts on
(`Pull`, `thread-ipc.cpp:1091`), although that sender may have given up meanwhile:
`PickedNeverGone` says that it has not, from the pick to the transfer, and `PickedStillWaits` at the
transfer. And the abort of a remote sender may cross that by its dying receiver; `AbortsApart` says
that it does not. All three are false of the code, and no run claims them. `IpcRaces` adds a history
variable, `raced`, that becomes TRUE with the first step after which one is false, and changes
nothing else: what is promised until then is checked with every window open. Left out are IRQs and gates as
senders, vCPU upcalls (a vCPU is a receiver without being in `do_ipc()`), FPU state,
page faults and exceptions, the priority order of the sender list, migration in the
middle of a call, and the outcome "in progress" of an abort, which a thread cannot get
(section 5). The reads of `in_sender_list()` and `wait_queue()` of a sender on another
CPU are taken to be atomic with the section they are in.

## 4. Runs

Two CPUs `c0`, `c1`; threads `a`, `b` live on `c0` and `far` on `c1`. Two CPUs are
what every protocol here is between; three threads give a list two local entries
and a remote one; two constraints are needed for a thread that could be blocked
on one while the other opens. Priorities go to 1 or 2: the idle priority, and one
or two above it.

| Run | Instance | Shows |
|---|---|---|
| `one_cpu` | three scenes. *Queue*: one queue, 3 contexts, priorities 0..2. *Budgets*: 2 threads, a budget of 1 in 3 and one of 2 in 2, interrupts up to 1 late, clock up to 9, up to 4 switches to a thread per period. *Timeouts*: 2 timeouts, a wheel of 2 lists of 2 ticks, clock up to 6 | `HighestIsExact`; the pointer lists implement the abstract run queue (`ImplementsRunQueue`), with `pick = NextToRun`. `BudgetIsGranted`, `BudgetIsKept`, `ReplenishmentAhead`, `SetOnlyUnset`. `Filed`, `NoneForgotten`, `OneTurnLate`, `InterruptInTime`; the wheel implements the abstract timers (`ImplementsTimers`) |
| `dispatch` | two scenes. *Detach*: two closed windows that both constrain `a` and `far`, detached from both CPUs. *Sleep*: `a`, `b` and `far` sleep and wake one another, unconstrained | in both `TypeOK`, `OneList`, `Notified`, `NoThreadLost`, `DispatcherFindsNext`; in *Sleep* live `SleepersRun`, `SleeperWakes` |
| `constraints` | five scenes. *Timers*: a budget constrains `a`, and a window is attached to `a` or `far`, up to two expiries per interrupt. *Flip*: a condition constrains `a`, and `b` and `far` flip it. *Share*: one condition constrains `a` and `far`, which both flip it. *Prio*: priorities change from either CPU while threads sleep and wake. *Own*: threads sleep and wake, each on its own time slice | in all `NoStranded`, `BlocksOnce`, `ReplenishmentPending`; in all but *Share* live `OpenerGetsDone`, and `OneHookOneList`, which is `OneList` with the threads of the scene; in *Own* `MostUrgentRuns`, which is `RunsMostUrgent` there |
| `rcu` | 2 CPUs, 2 objects, 8 batch numbers starting just before they wrap | `TypeOK`, `WaitedForKnows`; RCU implements grace periods (`ImplementsGracePeriod`); live `EventuallyReclaimed` |
| `migration` | 2 CPUs; `new` is started, migrates itself, waits and exits; `b` sends it a DRQ and is moved meanwhile; three calls of `migrate()` and `drq()` in all | `AtHome`, `StackIsAlive`, `ExecutedOnce`, `TimersHere`; live `MigrationEnds`, `RequestAnswered`, `ReadyRuns` |
| `ipc` | `a`, `b` on one CPU, `far` on another; four scenes: a server with a local and a remote client; a ring of callers with timeouts; a server that is killed; a remote sender that is cancelled | `NoMissedRendezvous`; until a race is lost `CapLiveUntilRace`, and `do_ipc()` implements a rendezvous (`ImplementsUntilRace`); live `CancelHeard`, `HandshakeEnds` |
| `lost_wakeup`, `prio_of_blocked` | 1 CPU, 2 threads, one condition | counterexamples, section 5 |
| `drain_of_two` | 1 CPU, 2 threads that share a window, which opens | a counterexample to `OpenDrains`, section 5 |
| `migration_exit` | as `migration`, with exits at any time | a counterexample, section 5 |
| `ipc_abort` | `a` sends with a timeout to `b`, who receives with interrupts on | a counterexample to `ImplementsRendezvous`, section 5 |
| `cancel_lost` | `far` calls `a` and is cancelled | a counterexample to `CancelEnds`, section 5 |

`one_cpu` holds three components that share no state; they are in one run because each alone is small.
While the steps of one are taken the others stay as they are at boot, and a property of one says nothing in the
scene of another.

Time is bounded too: in *Budgets* the clock reaches the third period of the longer
budget, each period begins in a state the one before could leave, and the theorems
hold without the bound. In *Timeouts* the wheel turns once and a half
(`QueueCount * Distance` is 4), so an interrupt can miss all of it, and a list holds
timeouts of two turns; two timeouts suffice to be the expiring one and the one its
handler sets or resets. In `rcu` the batches are not bounded: their numbers wrap
around within the run.

`MaxCalls` bounds the calls of `migrate()` and `drq()` in `migration`: three let a thread
be started, migrate itself before that has ended, and be the target or the sender of
a DRQ meanwhile; wake-ups, waits and interrupts are not bounded. In `ipc` each thread
makes one to three calls, so a call ends while the partner is in its next one; the
calls of a scene are chosen so that each thread is a local and a remote sender and
receiver, waits for one partner and for any, and has each kind of timeout.

Why they are enough: no protocol of `ScSched` depends on a count. The doorbell of
the remote queue distinguishes an empty from a non-empty queue; the constraint
lock has one holder; the list operations distinguish an empty ring, a ring of one
and a longer one, all of which occur. A third CPU can only be one more of those that
race for a context in `Migration` or that a batch waits for in `Rcu`; in `Ipc` a
handshake is between two, and the third thread is the one that comes in between.
`NoStranded`, `TypeOK` and `Notified`, and the safety properties of `one_cpu`, `rcu`, `migration`
and `ipc` are proved for every size, and those of the dispatcher under the hypotheses of section 6.

A scene is an instance of `ScSched` with its own threads, constraints and
operations; TLC starts in any of them and stays in it, so one run explores them
one after the other.

The instances separate features on purpose: where two of them together violate a
property, the property is checked where it holds, and the rest is in section 5.
`NoThreadLost` does not hold where an opener wakes threads
of its own CPU (`lost_wakeup`) or wakes a thread that IPC or a timeout woke
meanwhile, so it is checked for detaching and for IPC. `RunsMostUrgent` and `SleepersRun`
do not hold when priorities change, because `change_prio_to()` does not
reschedule; nothing in the code promises otherwise. `RunsMostUrgent` does not hold either when
time slices are handed over: `activate_ipc_partner()` (`thread-ipc.cpp:460-475`) switches to the
partner without a look at the ready queue. With two threads on a CPU nothing shows; with three,
`b` switches to the more urgent `a` on its own time slice, `a` on to `d`, and `d` runs on the
slice of `b` while `a` is ready and queued. `detach()` enqueues whom it releases without asking for a
decision, and an opener on another CPU may unlink the current context while the dispatcher walks:
it is queued again, and a less urgent one runs, until the interrupt that is on its way. So
`RunsMostUrgent` is checked, and proved, where none of this happens (*Own*, `UrgentRuns`).
`OpenerGetsDone` is what is left of `OpenDrains`, and `OneHookOneList` of `OneList`, where no blocked list
ever has two entries (finding 3): a run in which two are drained ends at the fault, or with a foreign
ready queue changed. *Share* is such a scene; what holds there all the same,
`NoStranded`, `BlocksOnce` and `ReplenishmentPending`, is checked in it. `BlocksOnce` is about the races of the
dispatcher with openers and detaching; no scene lets IPC switch to a constrained thread, the
case of finding 4. `SleeperWakes` does not hold in *Flip*: the constraint lock is a test-and-set lock, and a CPU may
spin for ever on one that another CPU takes again and again. Nor does it in *Prio*, where the other
CPU may change priorities so often that the dispatcher always has to look again. `SleepersRun`
counts a thread as running when its time slice runs: a partner that was switched to on the
sender's scheduling context may keep the CPU on it. Constraints, lazy wake-ups and changes of
priority are kept apart for `OneList`, `BlocksOnce` and `DispatcherFindsNext` because of findings 2
and 4; the theorems (section 6) say for which operations they hold in general. In `ipc` every
interrupt and every cancel comes where the code lets it. `CancelHeard` is what is left of
`CancelEnds` (finding 8); `CapLiveUntilRace` and `ImplementsUntilRace` speak of the time
up to the first lost race (findings 5 and 9), which the scenes lose: TLC finds `ReplyCapIsLive` and
`ImplementsRendezvous` violated in them.

Deadlock is not checked where the system may stop, as the configurations say: all user
threads may be blocked on a condition with nobody left to open it, an idle CPU may
have no timeout set, a CPU may have no work for RCU, and every call of a scene may
have been made.

### Fairness

`SceneSpec` of `dispatch` assumes, per CPU, what follows; that of `constraints` only the first.

* weak fairness of `KernelStep`: a kernel path runs on. It runs with interrupts
  off and is not preempted; a CPU that spins on a lock is excused while the lock
  is taken. What user threads ask for, and the timeouts they set, is not fair.
* strong fairness of `IpiArrives`: a requested interrupt stays pending and is
  taken when the CPU returns to user mode, which it may do for a moment only.
* strong fairness of `QuantExpired`: whoever runs uses up its quantum. Strong,
  because `Quant_sc::deactivate()` keeps the rest of a quantum when its owner is
  switched away from, so a quantum that is interrupted again and again still ends.

`Rcu` assumes that kernel paths run on, that kernel code lets go of the CPU lock,
and that the timer or request interrupt which does RCU's work comes to a CPU that is
awake. A CPU need not fall asleep or wake up, and nobody need delete anything.

`Migration` assumes the same of kernel paths and of the request interrupt, and that
round robin starves no ready context (strong fairness of the dispatch of each context,
which is what `SleepersRun` says of one priority).

`Ipc` assumes weak fairness of the steps of each thread, of its DRQ and of the changes
left with it: the threads of a CPU get their turn and its interrupts are taken. A
timeout may come never, and nobody need make a call.

## 5. Findings

Those with a run name have a violation run, with the quoted source in `PROJECT.json`.
The others were met while modelling and were counterexamples on the way; what has
to be changed to see them again is said with each.

The lists of `Sched_context` (they share a hook, and `is_queued()` cannot say in which list it is):

1. `lost_wakeup`: the first loop of `wake_up_all_blocked()` makes each thread
   ready while it is still linked in the blocked list. For a thread of the
   opener's CPU, `ready_enqueue()` finds it linked and does nothing; the second loop
   only unlinks it. The thread is ready, in no list, and runs only if something
   else wakes it. Threads of other CPUs escape, because their request is served
   only after the drain, unless their CPU takes the interrupt earlier.
2. `prio_of_blocked`: `change_prio_to()` of a blocked thread removes it from the
   ready list of its priority. If it is alone on the blocked list, that ready list
   loses its head and all its contexts, the idle thread included, and the
   dispatcher follows a null pointer. `do_kill()` (`thread.cpp:585`) and
   `migrate_away()` (`thread.cpp:1337`) dequeue the same way.
3. `drain_of_two`: the second loop of `wake_up_all_blocked()` (`sched_constraint.cpp:337-342`) goes on with
   the iterator that `Sd_list::erase()` returns (`dlist:235-242`), whose end is the head the list had at
   `begin()`. With two or more threads on the list it never meets that head again and erases the last thread
   a second time: through a null pointer, with the lock of the constraint taken, or, if
   the home CPU of that thread has already queued it, out of the ready queue of that CPU. So a constraint that
   blocks two threads is not opened safely. `OneList`, `DispatcherFindsNext` and `NoThreadLost` do not survive the
   second case.
4. A sleeping thread with a closed constraint is put on the blocked
   list, a lazy wake-up (`deblock_and_schedule()`) switches to it and to its time slice without
   asking `can_run()`, its quantum ends,
   `requeue()` points the ready list at its successor in the *blocked* ring, and the
   dispatcher blocks it again, against the assertion in `block()`
   (`sched_constraint.cpp:274`): with `sleep` and `wakeLazy` added to the operations of
   `lost_wakeup`, `BlocksOnce` is violated. On the time slice of the sender (`wakeSwitch`) it is harmless:
   `BlockedOnce` holds with it.

IPC:

5. `ipc_abort`: a waiting sender stays in the list of its receiver until its message
   has been transferred, and map items are transferred with interrupts on. A timeout
   or a cancel in between finds it in the list and tells it that nothing was sent; its message is
   delivered all the same, and the flags of the answer (ready, receiving) are put on
   a thread that is somewhere else by now. The same window opens when
   `get_next_sender()` has picked a sender and `activate_ipc_partner()` switches to a
   more urgent partner first. The branch `Abt_ipc_in_progress` was made for it, but it
   is asked for only after `in_sender_list()`.
   The same race breaks `ReplyCapIsLive`: the receiver gets a reply capability for a caller that has
   given up. TLC finds this in the scenes of `ipc`.
6. The timeout of the send phase may set `Thread_timeout` after the receiver has taken
   the message and before the sender runs. `do_send_wait()` goes on with the flag set, and
   the receive phase ends at once with `R_timeout` although its timeout is never.
7. A thread that enters its sender list after the loop of `do_kill()`
   (`thread.cpp:538`) and before `Thread_dead` is set (`thread.cpp:577`) is aborted by
   nobody and waits for ever if its timeout is never.
8. `cancel_lost`: `abort_send()` deletes `Thread_full_ipc_mask`, with `Thread_cancel`, before it knows
   the answer of the receiver's CPU (`thread-ipc.cpp:1131`). If the message had just
   been taken, the sender goes on to its receive phase and sleeps: the cancel is
   lost, and a kill waits for somebody to answer. `thread-ipc.cpp:501-502` says "This
   function blocks until [...] the IPC is canceled, or the thread is killed".
9. The abort of a remote sender races the kill of its receiver: the sender has been
   taken out of the list by `do_kill()`, the answer is "done", and the failed send is
   reported as done, because `abort_send()` has deleted `Thread_transfer_failed`, or
   it comes too late.

Migration:

10. `migration_exit`: a thread that exits after `migrate()` has left a `Migration`
    with it goes to the invalid CPU with the `Migration` undone, and the caller spins for ever.
11. The new home CPU may wake and dispatch a context before it handles the request of
    `migrate_to()`. `schedule()` then activates the constraints, which sets the
    out-of-budget timeout, and only after the switch the migration is finished,
    which asserts that this timeout is not set (`sched_constraint.cpp:773`). In
    `Migration`: a step that makes `x` current while `x` is in `finish`.
12. A second caller that starts a context while another one is starting it finds the
    home changed ("already migrated", `thread.cpp:1452`) and leaves its own `Migration`
    undone, for which it spins. `Moves` with two callers of `migrate()` of `new` and `Careful`
    set to FALSE violates `MigrationEnds`.

Budgets:

13. `period_expired()` rearms the out-of-budget timeout if the
    budget constrains `current()`. If that thread runs on the slice of its IPC caller,
    the timeout is set for a slice that does not run; when the thread gets its own
    slice, `activate()` sets it again, against the precondition and the assertion of
    `Timeout::set()` (`timeout.cpp:196`, `207`). The other half of the same line: the
    budget of the caller, whose slice runs, is not rearmed by its own replenishment
    (`sched_constraint.cpp:720`). In `BudgetSc`: a step that changes `curr` and not `owner`.
14. A budget that migrates in the middle of a period is never replenished again:
    `migrate_away()` resets the timeout, and `calc_and_schedule_next_repl()` returns
    early because `_next_repl` is ahead (`sched_constraint.cpp:672`).
15. Two threads that share a budget, one of which is started or migrates while the
    other runs, restart and reset each other's timeouts (`sched_constraint.cpp:762`);
    a budget attached to the running thread is deactivated without having been activated
    (`sched_constraint.cpp:736`).

Others: the dispatcher may block a thread on a constraint while another CPU detaches
it, after which nobody takes it off that list (the slots have no lock);
`Rcu_data::enter_idle()` asserts that nothing is pending after a call of `cpu_quiet()` that may
have started the next batch (`rcupdate.cpp:320`); a request executed for a
thread that has just died makes it ready on the invalid CPU (`context.cpp:2154`); `run_thread`
ignores that the second attach of the global constraint fails (`scheduler.cpp:141`).

## 6. Proofs

For every number of CPUs, threads, constraints, slots and priorities
(assumptions: `ConstantAssumption`, `MaxPrioAssumption`; the set of threads is
finite because the initial remote queues enumerate it).

`ReadyQueue_proofs`: a bounded nonempty set of naturals has a greatest element
(from the well-foundedness of `<`), hence `LowerHighestStops`: the loop on
`prio_highest` ends at a list in use or at 0 and passes over none. The typing
lemmas say that every list operation returns well-typed links and heads,
*whatever list the item is in*: type correctness does not need the lists to be
sound, which they are not always (section 5). The rest of the module is about lists that are: the
lemmas on rings that the next two modules share, for any items.

`ReadyQueueSys_proofs`, for any finite set of contexts, none of them the null pointer
(`ScxAssumption`), and any number of priorities: `ReadyQueueTypeCorrect`, `HighestExact` and the
refinement `ReadyQueueImplements`. The invariant `RqInv` says that there are
*some* sequences, one per priority, that the links hold (`Listed`): the successor and the
predecessor of each item are those of its place in the sequence, the head pointer is
the first item, and a linked context is in the sequence of its own priority only. So no
induction over a list is needed: the new sequences are given with each operation.
`PushRing`, `RemoveRing` and `TurnRing` (in `ReadyQueue_proofs`) say what the pointer operations do to the sequence of
the list, and `PushFrame`, `RemoveFrame` and `RingKept` that the other lists are left alone.
`RingAsSeq` then says that walking the links, as the iterator does, yields that very sequence;
the walk is a recursive function of the number of steps, and it agrees with the sequence
because there is no least number at which it does not. `HighestIsExact` is not inductive:
`Exact` adds that `prio_highest` is 0 when all lists are empty; otherwise an enqueue of a
lower priority would leave it at an empty list.

`ScSched_proofs`:

* `TypeCorrect`: `Spec => []TypeOK`.
* `LockDiscipline`: `Spec => []LocksOK`: the lock of a constraint is held by
  exactly the CPU that is in one of its critical sections.
* `NobodyStranded`: `Spec => []NoStranded`.

The inductive invariant is `IInv == TypeOK /\ LocalsOK /\ LocksOK /\ OpenersAtWork`.
`NoStranded` alone is not inductive: a CPU that has passed its second look at
`_run` and is about to block makes the list non-empty one step later, when the
opener may already have left. `OpenersAtWork` therefore counts a CPU at `block` as
if it had blocked. Then the argument is short. A CPU gets to `block` only by seeing the
constraint closed, with the lock. Who opens the constraint is an opener from that
step on, until it releases the lock with the list empty; at that moment
`LocksOK` says that no other CPU is at `block`. `LocalsOK` says that each path has
set the locals it relies on. `OpenStepOK` names the four things a step can do to
the openers of a constraint, and `OpenStep` shows it action by action; the same
is done for the locks (`LockStepOK`) and for the locals.

* `EverybodyNotified`: `Spec => []Notified`. `Notified` is inductive relative to
  `TypeOK` and `LocalsOK`. The interesting step is the one that takes the first
  entry: the thread is then in the hands of the CPU (`apply`), and what remains in the
  queue is watched by the loop that is still running.

The second half of `ScSched_proofs` is about the rings. What the lists promise depends on which
operations meet, so each theorem names the operations under which it holds, as a predicate on `Ops`
and on what constrains the threads at first, or, for `DrainsOne`, of the states:

| Hypothesis | Says | Without it |
|---|---|---|
| `Orderly` | nothing is ever constrained, or there are no lazy wake-ups and no changes of priority | findings 2 and 4 |
| `IdleFree` | the idle threads are not constrained | an idle thread is blocked, and the dispatcher finds nobody |
| `NoOpening` | nothing is ever constrained, or no constraint opens | finding 1 |
| `Settled` | `NoOpening`; nothing constrained is detached, time slices are not handed over, priorities stay | section 4 |
| `DrainsOne`, of every state | a blocked list that is about to be emptied, or is being emptied, has one entry at most | finding 3 |
| `Unshared` | no constraint is attached to two threads, and none is attached later | finding 3; after a detach somebody may be left on the list |
| `Started` | each budget constrains a thread when it is started, or none is attached later | section 3.3: its timer is never set |

* `OneListAlways`, `BlockedOnce`, `SomebodyToDispatch` (`Orderly`, `IdleFree`): `OneList`,
  `BlocksOnce` and `DispatcherFindsNext`, in the behaviours in which `DrainsOne` holds throughout. The
  hypothesis is about the code: with two entries the second erase breaks what they say.
* `UnsharedDrains` (`Orderly`, `IdleFree`, `Unshared`): `Spec => []DrainsOne`, so where each thread has
  constraints of its own the hypothesis of these three is met by every behaviour.
* `NobodyLost` (and `NoOpening`): `NoThreadLost`.
* `UrgentRuns` (and `Settled`): `RunsMostUrgent`.
* `BudgetReplenished` (`Started`, `IdleFree`): `ReplenishmentPending`.

The scenes of `dispatch` and `constraints` satisfy the hypotheses of what is checked in them, but
for `BlocksOnce` in *Share*, where two threads are drained together (`NoStranded` needs no hypothesis); the theorems cover what the scenes keep apart, such as conditions that flip while
threads sleep, are woken by other CPUs and hand over their time slices.

Their invariant, `PlaceInv`, says where each context is linked. Nothing in the state tells in which list
the hook of a context is, so there is *some* function `w` from contexts to constraints, or `Nil`, such
that (`Placed`) the blocked list of `s` is a ring of those linked with `w[t] = s`, and the ready list of
`c` and `p` a ring of those linked with `w[t] = Nil`, home `c` and priority `p`; `prio_highest` is
exact. `RingOf` says that the links from a head are a ring of a given set; `RingPush`,
`RingRemove` and their like follow from `PushRing` and `RemoveRing`, and only sets are used from
there on. `LinkOK` says whom the dispatcher has in hand: what it looks at, and who owns the
time slice of the CPU, is not blocked. `AtHome` says that a CPU dispatches and is asked
for contexts of its own only, so nobody else unlinks what it has picked; `IdleOK`, that the idle
thread is queued, runs or is about to be queued; `SlotsOK`, that the hypothesis on the slots lasts. The
new `w` is given with each step: only `SchedBlock` blocks one, and the two removals, of
`WakeDrain` and `DetachWork`, release one (`ListStep`); what the step does to the paths and the homes is
shown apart (`PathStep`, `HomeStep`). `DrainOK` says that a drain under way has the head of its list in
hand, as the entry and as the end of the iterator; with `DrainsOne` it is then the only entry
(`DrainLast`), the erase releases it and the iterator ends. `OwnInv`, for `UnsharedDrains`, says that slots,
paths and blocked lists have a thread only with constraints that were its own at first.

`NoThreadLost` is inductive relative to `PlaceInv` when no path of an opener is under way
(`NoWakePath`). For `RunsMostUrgent`, `Urgent` says that the dispatcher has in hand a context of the highest
priority in use (`Top`) and has queued the current one, and that a CPU which does not dispatch is
with the most urgent or has noted that it must decide again; `Calm`, that it only goes back to user mode
with nothing noted. `TopEnqueue` is where the answer of `deblock()` matters.

TLC agrees: with one CPU, three threads, one constraint and all operations but the excluded ones,
the properties hold; with each hypothesis dropped, it finds the counterexample of the table.

`BudgetSc_proofs`, for any threads, budgets, periods and lateness
(`BudgetAssumption`, and `UptimeAssumption`: the clock stays below 2^32 periods):
`BudgetGranted`, `BudgetKept`, `AlwaysReplenished`, `NeverSetTwice`, and `BudgetTypes`.
The inductive invariant says of the running slice that what was run and what the
timeout still allows, a number that is negative while the interrupt is late, make
the budget, up to one lateness less than `slices` would allow; the missing one is
added when the slice ends. `OobOK` says that the only timeout that is set is that of the running
slice, and that a slice without one has just been closed and is on its way to the
dispatcher. The number of missed periods needs the lemmas on division and
`UptimeAssumption`, which makes the truncation to 32 bits harmless.

`TimeoutQ_proofs`, for any number of timeouts and any wheel (`WheelAssumption`), time
unbounded: `AlwaysFiled`, `NoTimeoutForgotten`, `LateByOneTurn`, `TimerInTime` and
`WheelImplementsTimers`. The lemmas say what `InsertAt` and `RemoveAt` do element by
element, and what division and remainder do, so that `EnqueueFiles` and
`RemoveFiles` can show that the lists stay sorted. `NoneForgotten` speaks of the time
between the scans; the inductive invariant adds what holds during one:
`Covered` says that a timeout from before `now` is in a list the scan has still to
visit (`ToScan`). `AroundCovers` is the arithmetic of the wheel: the lists from `start`
to `end`, around the wheel, are those of all the time that has passed. `Missed` is the same for
the timeouts that were late when they were set: no list passed since then is theirs, and
by `WholeTurn` a turn passes all.

`Rcu_proofs`, for any number of CPUs and objects and any width of the batch numbers
(`RcuAssumption`): `RcuTypeCorrect`, `RcuImplementsGracePeriod`, `RcuWaitedForKnows`.
The inductive invariant follows one object: `ListInv` says that what is deleted is in one
list of one CPU, and nothing else is in any; `GraceInv`, that an object some CPU `q` uses is
in no list `d`, and if it is in a list `c`, the batch it waits for is the next one or waits
for `q`. That this is kept when a batch is completed, started or assigned needs
`BatchInv` (`completed` is `current` or the one before, so numbers that wrap around are
never compared further apart), `ActiveInv` (who is awake takes part in the next batch) and
`LockInv`. The refinement then follows step by step, with `DoBatch` as `Reclaim`.
`RcuWaitedForKnows` is inductive relative to it.

`Migration_proofs`, for any number of CPUs and contexts and any calls
(`MigrationAssumption`): `MigrationTypeCorrect`, `MigrationStackIsAlive`, `MigrationAtHome`,
`MigrationExecutedOnce` and `MigrationTimersHere`. Most lemmas say, action by action, where a step takes the path of its CPU
(`PathTo`) and what is then in its locals; the paths of the others stay.
`StackIsAlive` alone is not inductive: a `Migration` could be in two places, and flagged as done
at one while it is used at the other. `MigInv` says that no two contexts, no two CPUs,
and no context and CPU hold the same one; then the one that is taken or
replaced was alive until that step. `AtHome` follows from `HomeInv`, which says of each
CPU whose context is where: `CurAt` of the current one, `PathAt` of the one the kernel path
is about, and `DyingAt` of a context that exits. Only `MigrateAway` and `Kill` change a home,
on the CPU the context leaves, or for a context on the invalid CPU with that CPU's lock
(`OthersStay`); so what another CPU relies on stays (`OthersKeep`). That nobody gives a
context that exits a new home while it handles its last DRQs needs `Careful`:
`MigrationAtHome`, and `MigrationTimersHere`, which rests on the same invariant, assume it.
`ExecutedOnce` speaks only of the moment of execution; `DrqInv` adds where the `Drq` of each
context is otherwise: in the hands of one CPU or at one place of one queue, never in two,
and `served` tells whether there it is still the request or already the reply. An action
moves, adds or removes one `Drq` (`Dequeue` takes out one, and the others keep their order),
and leaves those of the others alone (`DrqKept`). `TimerInv` says that the timeouts of a
context are at its home or still to be set there (`finish`), and that no current context
is in `finish`.

`Ipc_proofs`, for any threads on any CPUs, any calls and events (`IpcAssumption`):
`IpcTypeCorrect`, `RendezvousNotMissed`, `ReplyCapabilityLive`, and the refinement,
`RendezvousImplemented`. They are about the code as it stands, with interrupts wherever they can come.
`RendezvousNotMissed` speaks of the behaviours in which `PickedStillWaits` holds throughout, that is, in
which the race of finding 5 is not lost. `ReplyCapabilityLive` and `RendezvousImplemented` are
`RaceSpec => []CapLiveUntilRace` and `RaceSpec => ImplementsUntilRace`, what the run `ipc` checks: no
hypothesis is left, and the properties speak of all behaviours, up to the step that loses a race. Their
invariant is `RaceInv`: as long as `raced` is FALSE, `IpcInv` and `MeetInv` below hold.

The inductive invariant is built in layers. `TypeInv` has the types and which locals are set
where. `PathOK` says that the partner of a thread is the one its call names, or in an open wait the
sender it has picked. `SenderInv` is about those who send: `ListedOK` says that a thread is only
in the list of its receiver and only at the places where it waits there, `PendingOK` that what
another CPU has changed in its flags is applied before it goes on, and `FailedOK` that the flag of
a failed transfer does not outlive its call. `NoneWaits` is about those who receive: who has looked
for a sender, found none and could take a message has nobody in its list. It holds
*before* it sleeps, from `get_next_sender()` on; `NoMissedRendezvous` alone is not inductive, for it
says nothing of one who is about to sleep. A sender that joins the list has seen, in the same
section, that `sender_ok()` says no, so the receiver waits for somebody else or is not
waiting (`Joined`). A receiver could only be turned back into one that waits by a change of another
CPU, and such changes are for senders (`Kept`). `CapOK` says of a reply capability what
`ReplyCapIsLive` does and that the call of the caller is one with a receive phase from the same
partner; then `reset_caller()` at its end finds the capability, and it is the only one. The
transfer gives it to the receiver of a sender that is still in its call: the sender itself
(`Copy`), one whose DRQ is executed (`RemoteIpcSend`), or one in the list of the receiver (`Pull`);
the last is where `PickedStillWaits` is needed. 

Each action is treated three times: where it takes its thread (`...Moves`), what it does to the
flags and lists of the others (`...Settles`), and what follows for the receivers (`...Summary`). Lists
are seen as sets (`On`); `ListsJoined` and `ListsLeft` say what `Append` and `Unlisted` do to them.

`RendezvousImplemented` is the refinement: the steps before the first lost race are steps of
`Rendezvous`. `raced` becomes TRUE when `PickedNeverGone` or
`AbortsApart` ceases to hold. The first says that a sender stays in the list of
the receiver that has picked it, from the pick to the transfer, so it is a little more than
`PickedStillWaits`: the race of finding 5 is not lost at any of these places. The second
says that a sender which waits for the answer to its abort has not been refused by its dying receiver meanwhile,
which is finding 9; the race of finding 8 loses a cancel, not a message. Each is needed: TLC
refutes the refinement with the other one alone. `NoneIsNoCall` is about the mapping, where `call[t]` is `None` or the
phases of the current call: the one is not the other.

Its invariant, `MeetInv`, is `QueueInv` (the sender lists and `NoneWaits`, as above) with what the two
threads of a meeting know of each other. The flags of a thread can be out of date, for changes of
another CPU are applied late; so `Ph` and `Refused` speak of the flags once they are made
(`Eff`). `ThreadOK` relates flags, place and history of one thread, phase by phase: `OutOK` outside a call,
`UnsentOK` and `SentOK` before and after its message is handed over in the send phase, `ReceiveOK` and
`AfterOK` in the receive phase, `TransferOK` while another one transfers to it. `OwesOK` is about two: a
sender that has found its receiver ready (`Copy`), or whose answer is on its way, owes it a
transfer, is the only one, and the receiver is where it can take the message and cannot leave. Then `sent`
and `got` are what the return value of `do_ipc()` tells (`EndRefines`). Each action has a lemma that it keeps
the invariant (`...Meets`) and what it is in `Rendezvous` (`...Refines`): `Copy`, `Pull` and the DRQ
handler `RemoteIpcSend` are `Meet` if they hand over, `DoIpc` is `Call`, `End` is `Return`,
everything else stutters. TLC had checked `MeetInv` and the refinement in eight scenes before, with the two conditions as constraints.

Only model-checked: the liveness properties (fairness and ENABLED are out of the prover's reach).
`OneHookOneList` and `MostUrgentRuns` of `MCConstraints` are `OneList` and `RunsMostUrgent` in its
scenes, to which `OneListAlways` and `UrgentRuns` apply.

## 7. Not modelled, and planned

In this order; each is a module with its runs.

1. `ScLifetime`: reference counts, dying constraints and detach, the delete under
   the lock guard; `run_thread` with the global constraint.
2. `Semaphore` and interrupt objects as senders of `Ipc`, with vCPU upcalls;
   migration in the middle of a call.
3. `CpuCall`, `SwitchLock`.
4. The mapping database and the allocators: large, and sequential but for their
   locks.

Proofs planned: `NoThreadLost` for openers that find all whom they release on other CPUs; the weakest
condition on the calls of `Ipc` that keeps aborts apart.

Never in reach: the drivers, the kernel debugger and the architecture code, whose
behaviour is that of the hardware, and the user land in `src/src/l4`, which is the
large part of the repository by size and for the most part libraries from elsewhere.
