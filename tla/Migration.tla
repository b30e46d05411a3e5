------------------------------ MODULE Migration ------------------------------
(***************************************************************************)
(* Contexts that move between CPUs while others wake them and send them    *)
(* deferred requests (DRQs).                                               *)
(*                                                                         *)
(* What happens to a context happens on its home CPU, with interrupts off. *)
(* Other CPUs leave a state change, a Migration or a DRQ with the context, *)
(* put it into the request queue of its home CPU and ring there.  Each of  *)
(* them reads _home_cpu before it has a lock and again under the lock of   *)
(* the request queue; if the context has moved in between, it relies on    *)
(* the new home CPU to look at everything once.  A context at home on a    *)
(* CPU that is offline is handled by whoever wants something from it,      *)
(* under the lock of that CPU's queue: this is how a thread is started.    *)
(*                                                                         *)
(* A step is what one CPU does with interrupts off between two accesses to *)
(* what other CPUs change; a section under a lock is one step, but for the *)
(* start of an offline context.  Ringing is part of queueing (ScSched has  *)
(* the doorbell), priorities are left out, and None is the idle thread.    *)
(***************************************************************************)
EXTENDS FiniteSets, SequencesExt

CONSTANTS
    Cpu,          \* the CPUs that are online
    Off,          \* Cpu::invalid(), which is not
    Ctx,          \* contexts; also the Migration and the Drq of each
    None,
    InitHome,     \* [Ctx -> Cpu or Off]
    InitReady,    \* the contexts with Thread_ready
    Ops,          \* <<operation, who, to whom>>: what the contexts do
    Careful,      \* nobody starts a context that is being started or still has
                  \* its last DRQs, and nobody exits while it is being moved
    MaxCalls      \* bound: calls of migrate() and drq()

ASSUME MigrationAssumption ==
    /\ Off \notin Cpu
    /\ None \notin Ctx /\ None \notin Cpu /\ None # Off
    /\ InitHome \in [Ctx -> Cpu \cup {Off}]
    /\ InitReady \subseteq {x \in Ctx : InitHome[x] \in Cpu}
    /\ Ops \subseteq {"migrate", "drq", "wake", "wait", "kill"} \X Ctx \X Ctx
    /\ \A o \in Ops : o[1] = "drq" => o[2] # o[3]
    /\ Careful \in BOOLEAN
    /\ MaxCalls \in Nat

VARIABLES
    home,         \* [Ctx -> Cpu or Off]: _home_cpu
    ready,        \* who has Thread_ready
    drqReady,     \* who has Thread_drq_ready
    drqWait,      \* who has Thread_drq_wait
    finish,       \* who has Thread_finish_migration
    change,       \* whose _remote_state_change adds Thread_ready
    queued,       \* [Ctx -> the CPU in whose ready queue it is, or None]
    timers,       \* [Ctx -> the CPU where its constraints have timeouts, or None]
    mig,          \* [Ctx -> whose Migration it is to do, or None]: _migration
    info,         \* [Ctx -> its Migration, on the stack of migrate()]
    spin,         \* who has not left migrate() yet
    drqq,         \* [Ctx -> sequence of contexts]: _drq_q, by the owner of the Drq
    served,       \* history [Ctx -> how often its last request was executed]
    rqq,          \* [Cpu -> sequence of contexts]: _pending_rqq
    cur,          \* [Cpu -> current(), None for the idle thread]
    calls,        \* how often migrate() and drq() have been called
    offLock,      \* the CPU that holds the queue lock of Off, or None
    pc,           \* [Cpu -> where the kernel is]; "run" with interrupts on
    reg           \* [Cpu -> the locals of the kernel path]

flags == <<ready, drqReady, drqWait, finish, change>>
moves == <<mig, info, spin>>
requests == <<drqq, served, calls>>
vars == <<home, flags, queued, timers, moves, requests, rqq, cur, offLock, pc, reg>>

Locals == [x |-> None, cpu |-> None, inf |-> None, mq |-> FALSE, item |-> None,
           to |-> None, mret |-> "run", dret |-> "run", eret |-> "run"]

Init ==
    /\ home = InitHome
    /\ ready = InitReady
    /\ drqReady = {} /\ drqWait = {} /\ finish = {} /\ change = {}
    /\ queued = [x \in Ctx |-> IF x \in InitReady THEN InitHome[x] ELSE None]
    /\ timers = [x \in Ctx |-> IF InitHome[x] \in Cpu THEN InitHome[x] ELSE None]
    /\ mig = [x \in Ctx |-> None]
    /\ info = [x \in Ctx |-> [cpu |-> Off, done |-> TRUE]]
    /\ spin = {}
    /\ calls = 0
    /\ drqq = [x \in Ctx |-> <<>>]
    /\ served = [x \in Ctx |-> 1]
    /\ rqq = [c \in Cpu |-> <<>>]
    /\ cur = [c \in Cpu |-> None]
    /\ offLock = None
    /\ pc = [c \in Cpu |-> "run"]
    /\ reg = [c \in Cpu |-> Locals]

\* Queue::dequeue() of an item that is in the queue
Dequeue(s, x) ==
    IF Contains(s, x) THEN RemoveAt(s, CHOOSE i \in DOMAIN s : s[i] = x) ELSE s

\* state() & Thread_ready_mask
CanRun(x) == x \in ready \/ x \in drqReady

Goto(c, l) == pc' = [pc EXCEPT ![c] = l]

\* back to where interrupts are on; what is left in the locals is dead
Return(c, l) ==
    /\ Goto(c, l)
    /\ reg' = IF l = "run" THEN [reg EXCEPT ![c] = Locals] ELSE reg

\* handle_remote_state_change()
TakeChange(x) ==
    /\ ready' = IF x \in change THEN ready \cup {x} ELSE ready
    /\ change' = change \ {x}

IsPending(x) == \E c \in Cpu : Contains(rqq[c], x)

\* q.enqueue(&_pending_rq) unless it is queued
QueueRequest(c, x) ==
    rqq' = IF IsPending(x) THEN rqq ELSE [rqq EXCEPT ![c] = Append(@, x)]

\* Ready_queue::ready_enqueue()
ReadyEnqueue(c, x) ==
    queued' = IF queued[x] = None THEN [queued EXCEPT ![x] = c] ELSE queued

\* finish_migration(): the timeouts start anew on the new home CPU
FinishMigration(c, x) ==
    /\ finish' = finish \ {x}
    /\ timers' = IF x \in finish THEN [timers EXCEPT ![x] = c] ELSE timers

\* mutation: the migration is finished only if a request is left
HandleDrqNoFinish(c, x, l) ==
    /\ IF drqq[x] = <<>>
       THEN Return(c, l) /\ UNCHANGED <<finish, timers>>
       ELSE /\ FinishMigration(c, x)
            /\ Goto(c, "drq")
            /\ reg' = [reg EXCEPT ![c].x = x, ![c].dret = l]

\* handle_drq(): the migration is finished first; return to l
HandleDrq(c, x, l) ==
    /\ FinishMigration(c, x)
    /\ IF drqq[x] = <<>>
       THEN Return(c, l)
       ELSE /\ Goto(c, "drq")
            /\ reg' = [reg EXCEPT ![c].x = x, ![c].dret = l]

-----------------------------------------------------------------------------
(* Migration.                                                               *)

\* Who runs on c may ask the kernel for op.
Asks(c, op, x) ==
    /\ pc[c] = "run"
    /\ cur[c] \in ready \ (drqWait \cup spin)
    /\ <<op, cur[c], x>> \in Ops

\* a call of migrate() for x is under way, or x is handling its last DRQs
BeingMoved(x) ==
    \/ mig[x] # None
    \/ \E d \in Cpu : reg[d].x = x /\ (pc[d] \in {"home", "xcpu", "take", "away"}
                                      \/ reg[d].dret = "dead")

\* mutation: the Migration that is replaced is never flagged as done
MigrateForgetsOld(c, x, target) ==
    LET w == cur[c]
    IN
    /\ Asks(c, "migrate", x)
    /\ Careful /\ home[x] = Off => ~ BeingMoved(x)
    /\ calls < MaxCalls
    /\ calls' = calls + 1
    /\ mig' = [mig EXCEPT ![x] = w]
    /\ info' = [v \in Ctx |-> IF v = w THEN [cpu |-> target, done |-> FALSE]
                             ELSE info[v]]
    /\ spin' = spin \cup {w}
    /\ reg' = [reg EXCEPT ![c].x = x]
    /\ Goto(c, "home")
    /\ UNCHANGED <<home, flags, queued, timers, drqq, served, rqq, cur, offLock>>

\* Thread::migrate(): the Migration replaces one that nobody has begun
Migrate(c, x, target) ==
    LET w == cur[c]
        old == mig[x]
    IN
    /\ Asks(c, "migrate", x)
    /\ Careful /\ home[x] = Off => ~ BeingMoved(x)
    /\ calls < MaxCalls
    /\ calls' = calls + 1
    /\ mig' = [mig EXCEPT ![x] = w]
    /\ info' = [v \in Ctx |-> IF v = w THEN [cpu |-> target, done |-> FALSE]
                             ELSE IF v = old THEN [info[v] EXCEPT !.done = TRUE]
                             ELSE info[v]]
    /\ spin' = spin \cup {w}
    /\ reg' = [reg EXCEPT ![c].x = x]
    /\ Goto(c, "home")
    /\ UNCHANGED <<home, flags, queued, timers, drqq, served, rqq, cur, offLock>>

\* reads home_cpu() to choose do_migration() or migrate_xcpu()
ReadHome(c) ==
    /\ pc[c] = "home"
    /\ reg' = [reg EXCEPT ![c].cpu = home[reg[c].x]]
    /\ Goto(c, IF home[reg[c].x] = c THEN "take" ELSE "xcpu")
    /\ UNCHANGED <<home, flags, queued, timers, moves, requests, rqq, cur, offLock>>

\* mutation: _home_cpu is not read again under the lock
MigrateXcpuUnchecked(c) ==
    LET x == reg[c].x
        cpu == reg[c].cpu
    IN
    /\ pc[c] = "xcpu"
    /\ cpu = Off => offLock = None
    /\ IF cpu = Off
       THEN Goto(c, "take") /\ offLock' = c /\ UNCHANGED <<rqq, reg>>
       ELSE QueueRequest(cpu, x) /\ Return(c, "run") /\ UNCHANGED offLock
    /\ UNCHANGED <<home, flags, queued, timers, moves, requests, cur>>

\* migrate_xcpu(): once it has the queue lock it starts a context that is
\* offline itself and leaves any other to the home CPU
MigrateXcpu(c) ==
    LET x == reg[c].x
        cpu == reg[c].cpu
    IN
    /\ pc[c] = "xcpu"
    /\ cpu = Off => offLock = None
    /\ IF home[x] # cpu
       THEN Return(c, "run") /\ UNCHANGED <<rqq, offLock>>
       ELSE IF cpu = Off
       THEN Goto(c, "take") /\ offLock' = c /\ UNCHANGED <<rqq, reg>>
       ELSE QueueRequest(cpu, x) /\ Return(c, "run") /\ UNCHANGED offLock
    /\ UNCHANGED <<home, flags, queued, timers, moves, requests, cur>>

\* mutation: the Migration is not taken out of _migration
StartMigrationKeeps(c) ==
    LET x == reg[c].x
        m == mig[x]
        here == m # None /\ info[m].cpu = home[x]
        self == cur[c] = x
    IN
    /\ pc[c] = "take"
    /\ UNCHANGED mig
    /\ IF m = None \/ here
       THEN /\ info' = IF here THEN [info EXCEPT ![m].done = TRUE] ELSE info
            /\ offLock' = IF offLock = c THEN None ELSE offLock
            /\ Return(c, reg[c].mret)
            /\ UNCHANGED <<queued, cur>>
       ELSE /\ reg' = [reg EXCEPT ![c].inf = m]
            /\ cur' = IF self THEN [cur EXCEPT ![c] = None] ELSE cur
            /\ IF self /\ CanRun(x) THEN ReadyEnqueue(c, x) ELSE UNCHANGED queued
            /\ Goto(c, "away")
            /\ UNCHANGED <<info, offLock>>
    /\ UNCHANGED <<home, flags, timers, spin, requests, rqq>>

\* start_migration(): whoever takes the Migration does it.  A context that
\* is to migrate itself gives the CPU to the idle thread.
StartMigration(c) ==
    LET x == reg[c].x
        m == mig[x]
        here == m # None /\ info[m].cpu = home[x]
        self == cur[c] = x
    IN
    /\ pc[c] = "take"
    /\ IF m = None
       THEN UNCHANGED mig
       ELSE mig' = [mig EXCEPT ![x] = None]
    /\ IF m = None \/ here
       THEN /\ info' = IF here THEN [info EXCEPT ![m].done = TRUE] ELSE info
            /\ offLock' = IF offLock = c THEN None ELSE offLock
            /\ Return(c, reg[c].mret)
            /\ UNCHANGED <<queued, cur>>
       ELSE /\ reg' = [reg EXCEPT ![c].inf = m]
            /\ cur' = IF self THEN [cur EXCEPT ![c] = None] ELSE cur
            /\ IF self /\ CanRun(x) THEN ReadyEnqueue(c, x) ELSE UNCHANGED queued
            /\ Goto(c, "away")
            /\ UNCHANGED <<info, offLock>>
    /\ UNCHANGED <<home, flags, timers, spin, requests, rqq>>

\* mutation: the deposited state change is not applied
MigrateAwayLeavesChange(c) ==
    LET x == reg[c].x
        m == reg[c].inf
    IN
    /\ pc[c] = "away"
    /\ timers' = [timers EXCEPT ![x] = None]
    /\ queued' = [queued EXCEPT ![x] = None]
    /\ rqq' = [rqq EXCEPT ![c] = Dequeue(@, x)]
    /\ finish' = finish \cup {x}
    /\ home' = [home EXCEPT ![x] = info[m].cpu]
    /\ info' = [info EXCEPT ![m].done = TRUE]
    /\ offLock' = IF offLock = c THEN None ELSE offLock
    /\ reg' = [reg EXCEPT ![c].to = info[m].cpu, ![c].inf = None]
    /\ Goto(c, "to")
    /\ UNCHANGED <<ready, change, drqReady, drqWait, mig, spin, requests, cur>>

\* migrate_away(), under the lock of the old queue
MigrateAway(c) ==
    LET x == reg[c].x
        m == reg[c].inf
    IN
    /\ pc[c] = "away"
    /\ timers' = [timers EXCEPT ![x] = None]
    /\ queued' = [queued EXCEPT ![x] = None]
    /\ rqq' = [rqq EXCEPT ![c] = Dequeue(@, x)]
    /\ TakeChange(x)
    /\ finish' = finish \cup {x}
    /\ home' = [home EXCEPT ![x] = info[m].cpu]
    /\ info' = [info EXCEPT ![m].done = TRUE]
    /\ offLock' = IF offLock = c THEN None ELSE offLock
    /\ reg' = [reg EXCEPT ![c].to = info[m].cpu, ![c].inf = None]
    /\ Goto(c, "to")
    /\ UNCHANGED <<drqReady, drqWait, mig, spin, requests, cur>>

\* mutation: the new home CPU is told of a ready context only
MigrateToReadyOnly(c) ==
    LET x == reg[c].x
        to == reg[c].to
    IN
    /\ pc[c] = "to"
    /\ IF home[x] # to \/ IsPending(x) \/ ~ CanRun(x)
       THEN Return(c, reg[c].mret) /\ UNCHANGED <<finish, timers, rqq>>
       ELSE IF to = c
       THEN HandleDrq(c, x, "deblock") /\ UNCHANGED rqq
       ELSE /\ QueueRequest(to, x)
            /\ Return(c, reg[c].mret)
            /\ UNCHANGED <<finish, timers>>
    /\ UNCHANGED <<home, ready, drqReady, drqWait, change, queued, moves, requests, cur,
                   offLock>>

\* migrate_to(), under the lock of the new queue unless it is this CPU's
MigrateTo(c) ==
    LET x == reg[c].x
        to == reg[c].to
    IN
    /\ pc[c] = "to"
    /\ IF home[x] # to \/ IsPending(x)
       THEN Return(c, reg[c].mret) /\ UNCHANGED <<finish, timers, rqq>>
       ELSE IF to = c
       THEN HandleDrq(c, x, "deblock") /\ UNCHANGED rqq
       ELSE /\ QueueRequest(to, x)
            /\ Return(c, reg[c].mret)
            /\ UNCHANGED <<finish, timers>>
    /\ UNCHANGED <<home, ready, drqReady, drqWait, change, queued, moves, requests, cur,
                   offLock>>

\* Ready_queue::deblock() in migrate_to(), of a context that may not be ready
Deblock(c) ==
    /\ pc[c] = "deblock"
    /\ ReadyEnqueue(c, reg[c].x)
    /\ Return(c, reg[c].mret)
    /\ UNCHANGED <<home, flags, timers, moves, requests, rqq, cur, offLock>>

\* the end of migrate(): the caller has spun on in_progress
LeaveMigrate(c) ==
    /\ pc[c] = "run"
    /\ cur[c] \in spin
    /\ info[cur[c]].done
    /\ spin' = spin \ {cur[c]}
    /\ UNCHANGED <<home, flags, queued, timers, mig, info, requests, rqq, cur, offLock,
                   pc, reg>>

-----------------------------------------------------------------------------
(* Deferred requests and remote state changes.                              *)

\* _execute_drq() of the Drq of w with y, on this CPU: a reply if it is y's own
\* Drq, and a request that is answered at once otherwise
ExecuteDrq(c, y, w, at) ==
    /\ ready' = ready \cup {w} \cup (change \cap {y})
    /\ change' = change \ {y}
    /\ drqWait' = drqWait \ {w}
    /\ served' = IF w = y THEN served ELSE [served EXCEPT ![w] = @ + 1]
    /\ IF y \in ready' \cup drqReady' THEN ReadyEnqueue(at, y) ELSE UNCHANGED queued
    /\ Return(c, reg[c].eret)

\* mutation: executed although somebody else has taken it
DeqExecDrqUnchecked(c, y, w, at) ==
    /\ drqq' = [drqq EXCEPT ![y] = Dequeue(@, w)]
    /\ drqReady' = IF drqq'[y] = <<>> THEN drqReady \ {y} ELSE drqReady
    /\ UNCHANGED <<finish, calls>>
    /\ ExecuteDrq(c, y, w, at)

\* _deq_exec_drq(): the same, unless somebody else has handled it
DeqExecDrq(c, y, w, at) ==
    IF ~ Contains(drqq[y], w)
    THEN Return(c, reg[c].eret) /\ UNCHANGED <<flags, requests, queued>>
    ELSE /\ drqq' = [drqq EXCEPT ![y] = Dequeue(@, w)]
         /\ drqReady' = IF drqq'[y] = <<>> THEN drqReady \ {y} ELSE drqReady
         /\ UNCHANGED <<finish, calls>>
         /\ ExecuteDrq(c, y, w, at)

\* drq(): the current context sends its Drq and waits for the reply
Drq(c, x) ==
    LET w == cur[c] IN
    /\ Asks(c, "drq", x)
    /\ calls < MaxCalls
    /\ calls' = calls + 1
    /\ drqWait' = drqWait \cup {w}
    /\ served' = [served EXCEPT ![w] = 0]
    /\ reg' = [reg EXCEPT ![c].to = x, ![c].item = w]
    /\ Goto(c, "enq")
    /\ UNCHANGED <<home, ready, drqReady, finish, change, queued, timers, moves, drqq,
                   rqq, cur, offLock>>

\* enqueue_drq(): executed here if this is the home CPU, else queued
EnqueueDrq(c) ==
    LET y == reg[c].to
        w == reg[c].item
    IN
    /\ pc[c] = "enq"
    /\ IF home[y] = c
       THEN /\ UNCHANGED <<drqq, drqReady, finish, calls>>
            /\ ExecuteDrq(c, y, w, c)
       ELSE /\ drqq' = [drqq EXCEPT ![y] = Append(@, w)]
            /\ Goto(c, "reread")
            /\ UNCHANGED <<flags, served, calls, queued, reg>>
    /\ UNCHANGED <<home, timers, moves, rqq, cur, offLock>>

\* "we may have been migrated": re-reads _home_cpu
RereadHome(c) ==
    LET y == reg[c].to IN
    /\ pc[c] = "reread"
    /\ IF home[y] = c
       THEN DeqExecDrq(c, y, reg[c].item, c)
       ELSE /\ reg' = [reg EXCEPT ![c].cpu = home[y]]
            /\ Goto(c, "signal")
            /\ UNCHANGED <<flags, requests, queued>>
    /\ UNCHANGED <<home, timers, moves, rqq, cur, offLock>>

\* under the queue lock of the CPU that has been read
SignalDrq(c) ==
    LET y == reg[c].to
        cpu == reg[c].cpu
    IN
    /\ pc[c] = "signal"
    /\ cpu = Off => offLock = None
    /\ IF home[y] # cpu
       THEN Return(c, reg[c].eret) /\ UNCHANGED <<flags, requests, queued, rqq>>
       ELSE IF cpu = Off
       THEN DeqExecDrq(c, y, reg[c].item, Off) /\ UNCHANGED rqq
       ELSE /\ QueueRequest(cpu, y)
            /\ Return(c, reg[c].eret)
            /\ UNCHANGED <<flags, requests, queued>>
    /\ UNCHANGED <<home, timers, moves, cur, offLock>>

\* handle_drq(), one turn: a request is executed for its owner, who gets the
\* Drq back; when none is left Thread_drq_ready goes
ExecuteRequest(c) ==
    LET x == reg[c].x
        w == Head(drqq[x])
    IN
    /\ pc[c] = "drq"
    /\ IF drqq[x] = <<>>
       THEN /\ drqReady' = drqReady \ {x}
            /\ Return(c, reg[c].dret)
            /\ UNCHANGED <<ready, drqWait, change, drqq, served>>
       ELSE /\ drqq' = [drqq EXCEPT ![x] = Tail(@)]
            /\ ready' = ready \cup (change \cap {x}) \cup ({x} \cap {w})
            /\ change' = change \ {x}
            /\ UNCHANGED drqReady
            /\ IF w = x
               THEN drqWait' = drqWait \ {x} /\ UNCHANGED <<served, pc, reg>>
               ELSE /\ served' = [served EXCEPT ![w] = @ + 1]
                    /\ reg' = [reg EXCEPT ![c].to = w, ![c].item = w, ![c].eret = "drq"]
                    /\ Goto(c, "enq")
                    /\ UNCHANGED drqWait
    /\ UNCHANGED <<home, finish, queued, timers, moves, calls, rqq, cur, offLock>>

\* xcpu_state_change(): a wake-up, left with the context if it is elsewhere
Wake(c, x) ==
    /\ Asks(c, "wake", x)
    /\ x \notin ready \cup change
    /\ IF home[x] = c
       THEN /\ ready' = ready \cup {x}
            /\ ReadyEnqueue(c, x)
            /\ UNCHANGED <<change, pc, reg>>
       ELSE /\ change' = change \cup {x}
            /\ reg' = [reg EXCEPT ![c].x = x]
            /\ Goto(c, "wakeHome")
            /\ UNCHANGED <<ready, queued>>
    /\ UNCHANGED <<home, drqReady, drqWait, finish, timers, moves, requests, rqq, cur,
                   offLock>>

\* pending_rqq_enqueue() reads _home_cpu once more
WakeReadHome(c) ==
    /\ pc[c] = "wakeHome"
    /\ reg' = [reg EXCEPT ![c].cpu = home[reg[c].x]]
    /\ Goto(c, "wakeSignal")
    /\ UNCHANGED <<home, flags, queued, timers, moves, requests, rqq, cur, offLock>>

WakeSignal(c) ==
    LET x == reg[c].x
        cpu == reg[c].cpu
    IN
    /\ pc[c] = "wakeSignal"
    /\ cpu = Off => offLock = None
    /\ IF home[x] # cpu THEN UNCHANGED <<ready, change, rqq>>
       ELSE IF cpu = Off THEN TakeChange(x) /\ UNCHANGED rqq
       ELSE QueueRequest(cpu, x) /\ UNCHANGED <<ready, change>>
    /\ Return(c, "run")
    /\ UNCHANGED <<home, drqReady, drqWait, finish, queued, timers, moves, requests, cur,
                   offLock>>

-----------------------------------------------------------------------------
(* The request interrupt, and the dispatcher.                               *)

\* who has to wait calls schedule() with interrupts off
InterruptsOn(c) ==
    pc[c] = "run" /\ (cur[c] = None \/ cur[c] \in ready \ drqWait)

IpiArrives(c) ==
    /\ InterruptsOn(c)
    /\ rqq[c] # <<>>
    /\ Goto(c, "rqq")
    /\ UNCHANGED <<home, flags, queued, timers, moves, requests, rqq, cur, offLock, reg>>

\* handle_requests(): the next one; the current context migrates after the last
NextRequest(c) ==
    /\ pc[c] = "rqq"
    /\ IF rqq[c] # <<>>
       THEN /\ reg' = [reg EXCEPT ![c] = [Locals EXCEPT !.x = Head(rqq[c]), !.mq = reg[c].mq]]
            /\ rqq' = [rqq EXCEPT ![c] = Tail(@)]
            /\ Goto(c, "apply")
       ELSE /\ IF reg[c].mq
               THEN /\ reg' = [reg EXCEPT ![c] = [Locals EXCEPT !.x = cur[c],
                                                               !.mret = "irqEnd"]]
                    /\ Goto(c, "take")
               ELSE Goto(c, "irqEnd") /\ UNCHANGED reg
            /\ UNCHANGED rqq
    /\ UNCHANGED <<home, flags, queued, timers, moves, requests, cur, offLock>>

\* the state change, then the migration, of another or to be deferred
ApplyRequest(c) ==
    LET x == reg[c].x IN
    /\ pc[c] = "apply"
    /\ TakeChange(x)
    /\ IF mig[x] = None
       THEN FinishMigration(c, x) /\ Goto(c, "applied") /\ UNCHANGED reg
       ELSE /\ IF x = cur[c]
               THEN /\ reg' = [reg EXCEPT ![c].mq = TRUE]
                    /\ Goto(c, "applied")
               ELSE /\ reg' = [reg EXCEPT ![c].mret = "applied"]
                    /\ Goto(c, "take")
            /\ UNCHANGED <<finish, timers>>
    /\ UNCHANGED <<home, drqReady, drqWait, queued, moves, requests, rqq, cur, offLock>>

\* what is left to do for a context that is still here: its DRQs, and deblock()
Applied(c) ==
    LET x == reg[c].x IN
    /\ pc[c] = "applied"
    /\ IF home[x] = c /\ x = cur[c]
       THEN HandleDrq(c, x, "rqq") /\ UNCHANGED <<drqReady, queued>>
       ELSE /\ IF home[x] = c
               THEN /\ drqReady' = IF drqq[x] # <<>> THEN drqReady \cup {x} ELSE drqReady
                    /\ IF x \in ready \cup drqReady'
                       THEN ReadyEnqueue(c, x)
                       ELSE UNCHANGED queued
               ELSE UNCHANGED <<drqReady, queued>>
            /\ Goto(c, "rqq")
            /\ UNCHANGED <<finish, timers, reg>>
    /\ UNCHANGED <<home, ready, drqWait, change, moves, requests, rqq, cur, offLock>>

\* handle_remote_requests_irq() ends with handle_drq() of the current context
IrqEnd(c) ==
    /\ pc[c] = "irqEnd"
    /\ IF cur[c] # None
       THEN HandleDrq(c, cur[c], "run")
       ELSE Return(c, "run") /\ UNCHANGED <<finish, timers>>
    /\ UNCHANGED <<home, ready, drqReady, drqWait, change, queued, moves, requests, rqq,
                   cur, offLock>>

\* schedule() of a context that has to wait for a reply, has blocked or is
\* preempted: any ready one is next, and handles its DRQs first
Schedule(c, y) ==
    LET w     == cur[c]
        still == IF w \in drqWait THEN {} ELSE {w} \cap (ready \cup drqReady)
        able  == (ready \cup drqReady) \ ({w} \ still)
        inRq  == {x \in Ctx : queued[x] = c} \cup still
    IN
    /\ pc[c] = "run"
    /\ y \in (IF inRq \cap able = {} THEN {None} ELSE inRq \cap able)
    /\ ready' = IF w \in drqWait THEN ready \ {w} ELSE ready
    /\ drqReady' = IF w \in drqWait THEN drqReady \ {w} ELSE drqReady
    /\ queued' = [x \in Ctx |-> IF x \notin inRq THEN queued[x]
                               ELSE IF x \in able THEN c ELSE None]
    /\ cur' = [cur EXCEPT ![c] = y]
    /\ IF y # None
       THEN HandleDrq(c, y, "run")
       ELSE UNCHANGED <<finish, timers, pc, reg>>
    /\ UNCHANGED <<home, drqWait, change, moves, requests, rqq, offLock>>

\* an IPC receive: the context waits to be woken
Wait(c) ==
    /\ Asks(c, "wait", cur[c])
    /\ ready' = ready \ {cur[c]}
    /\ UNCHANGED <<home, drqReady, drqWait, finish, change, queued, timers, moves, requests,
                   rqq, cur, offLock, pc, reg>>

\* the end of do_kill(): off to the invalid CPU, then a last handle_drq()
Kill(c) ==
    LET w == cur[c] IN
    /\ Asks(c, "kill", w)
    /\ Careful => ~ BeingMoved(w)
    /\ ready' = (ready \ {w}) \cup (change \cap {w})
    /\ change' = change \ {w}
    /\ drqReady' = drqReady \ {w}
    /\ queued' = [queued EXCEPT ![w] = None]
    /\ home' = [home EXCEPT ![w] = Off]
    /\ rqq' = [rqq EXCEPT ![c] = Dequeue(@, w)]
    /\ HandleDrq(c, w, "dead")
    /\ UNCHANGED <<drqWait, moves, requests, cur, offLock>>

\* kernel_context_drq(handle_kill_helper)
Dead(c) ==
    /\ pc[c] = "dead"
    /\ cur' = [cur EXCEPT ![c] = None]
    /\ Return(c, "run")
    /\ UNCHANGED <<home, flags, queued, timers, moves, requests, rqq, offLock>>

-----------------------------------------------------------------------------
KernelStep(c) ==
    \/ ReadHome(c) \/ MigrateXcpu(c) \/ StartMigration(c)
    \/ MigrateAway(c) \/ MigrateTo(c) \/ Deblock(c)
    \/ EnqueueDrq(c) \/ RereadHome(c) \/ SignalDrq(c) \/ ExecuteRequest(c)
    \/ WakeReadHome(c) \/ WakeSignal(c)
    \/ NextRequest(c) \/ ApplyRequest(c) \/ Applied(c) \/ IrqEnd(c)
    \/ Dead(c)

Next == \E c \in Cpu :
    \/ \E x \in Ctx, target \in Cpu : Migrate(c, x, target)
    \/ \E x \in Ctx : Drq(c, x) \/ Wake(c, x)
    \/ Wait(c) \/ Kill(c) \/ LeaveMigrate(c)
    \/ KernelStep(c)
    \/ IpiArrives(c)
    \/ \E y \in Ctx \cup {None} : Schedule(c, y)

Spec == Init /\ [][Next]_vars

\* who has blocked or waits for a reply is in schedule()
GiveUp(c) ==
    /\ cur[c] # None /\ ~ InterruptsOn(c)
    /\ \E y \in Ctx \cup {None} : Schedule(c, y)

\* Kernel paths run on, an interrupt request stays until it is taken, and round
\* robin starves nobody.
FairSpec ==
    /\ Spec
    /\ \A c \in Cpu : WF_vars(KernelStep(c) \/ GiveUp(c)) /\ SF_vars(IpiArrives(c))
    /\ \A y \in Ctx : SF_vars(\E c \in Cpu : Schedule(c, y))

-----------------------------------------------------------------------------
Labels == {"run", "home", "xcpu", "take", "away", "to", "deblock", "enq", "reread",
           "signal", "drq", "wakeHome", "wakeSignal", "rqq", "apply", "applied",
           "irqEnd", "dead"}
OrNone(S) == S \cup {None}
Reg == [x : OrNone(Ctx), cpu : OrNone(Cpu \cup {Off}), inf : OrNone(Ctx), mq : BOOLEAN,
        item : OrNone(Ctx), to : OrNone(Ctx \cup Cpu),
        mret : {"run", "irqEnd", "applied"}, dret : {"run", "deblock", "rqq", "dead"},
        eret : {"run", "drq"}]

TypeOK ==
    /\ home \in [Ctx -> Cpu \cup {Off}]
    /\ ready \subseteq Ctx /\ drqReady \subseteq Ctx /\ drqWait \subseteq Ctx
    /\ finish \subseteq Ctx /\ change \subseteq Ctx
    /\ queued \in [Ctx -> OrNone(Cpu \cup {Off})]
    /\ timers \in [Ctx -> OrNone(Cpu)]
    /\ mig \in [Ctx -> OrNone(Ctx)]
    /\ info \in [Ctx -> [cpu : Cpu \cup {Off}, done : BOOLEAN]]
    /\ spin \subseteq Ctx
    /\ calls \in Nat
    /\ drqq \in [Ctx -> Seq(Ctx)]
    /\ served \in [Ctx -> Nat]
    /\ rqq \in [Cpu -> Seq(Ctx)]
    /\ cur \in [Cpu -> OrNone(Ctx)]
    /\ offLock \in OrNone(Cpu)
    /\ pc \in [Cpu -> Labels]
    /\ reg \in [Cpu -> Reg]

(* A context is where its home is: no CPU runs it, has it in its ready      *)
(* queue or in its request queue, or works on its DRQs and its migration    *)
(* with interrupts off, unless it is at home there or at home nowhere.      *)
AtHome ==
    /\ \A c \in Cpu : cur[c] # None /\ pc[c] # "dead" =>
          home[cur[c]] = c \/ (home[cur[c]] = Off /\ reg[c].dret = "dead")
    /\ \A x \in Ctx : queued[x] \in {None, home[x]}
    /\ \A c \in Cpu : \A i, j \in DOMAIN rqq[c] :
          /\ home[rqq[c][i]] = c
          /\ rqq[c][i] = rqq[c][j] => i = j
    /\ \A c \in Cpu : pc[c] \in {"drq", "deblock"} =>
          home[reg[c].x] = c \/ (home[reg[c].x] = Off /\ reg[c].dret = "dead")
    /\ \A c \in Cpu : pc[c] = "away" =>
          home[reg[c].x] = c \/ (home[reg[c].x] = Off /\ offLock = c)

(* A Migration is on the stack of the caller of migrate(), who returns when *)
(* it is done: nobody is to look at one whose owner may have returned.      *)
StackIsAlive ==
    /\ \A x \in Ctx : mig[x] # None => mig[x] \in spin /\ ~ info[mig[x]].done
    /\ \A c \in Cpu : pc[c] = "away" =>
          reg[c].inf \in spin /\ ~ info[reg[c].inf].done

(* A request is executed once, whether it is executed by its sender, by the *)
(* old or by the new home CPU of the target: who has stopped waiting has    *)
(* had its request executed, and never twice.                               *)
ExecutedOnce ==
    \A w \in Ctx : served[w] <= 1 /\ (w \notin drqWait => served[w] = 1)

(* A thread in user mode has the timeouts of its constraints on the CPU it  *)
(* runs on.                                                                 *)
TimersHere ==
    \A c \in Cpu : InterruptsOn(c) /\ cur[c] # None => timers[cur[c]] = c

\* who may be in it
Callers(op) == {o[2] : o \in {p \in Ops : p[1] = op}}

(* Whoever calls migrate() gets out of it. *)
MigrationEnds ==
    \A w \in Callers("migrate") : (w \in spin) ~> (w \notin spin \/ info[w].done)

(* A request is answered although its target, or who waits for it, moves. *)
RequestAnswered == \A w \in Callers("drq") : (w \in drqWait) ~> (w \notin drqWait)

(* A context that is ready at home on a CPU, or that a wake-up is on its    *)
(* way to, gets to run: nobody is lost, wherever the context goes.          *)
ReadyRuns ==
    \A x \in Ctx :
       (x \in ready \cup change /\ home[x] # Off)
          ~> (x \notin ready \cup change \/ home[x] = Off \/ \E c \in Cpu : cur[c] = x)
=============================================================================
