--------------------------- MODULE Migration_proofs ---------------------------
(***************************************************************************)
(* The variables keep their types and no Migration of a caller who has     *)
(* returned is used, for any number of CPUs and contexts and whatever they *)
(* ask the kernel for; no request of a waiting context is executed twice.  *)
(* Contexts are handled, and have their timeouts, where they are at home,  *)
(* if their callers are Careful.                                           *)
(***************************************************************************)
EXTENDS Migration, SequenceTheorems, TLAPS

\* What each kernel path has put into its locals.
UsesX == {"home", "xcpu", "take", "away", "to", "deblock", "drq", "wakeHome", "wakeSignal",
          "apply", "applied"}
Sending == {"enq", "reread", "signal"}

\* where the path is, its locals, and the current context of its CPU
Fits(l, r, x) ==
    /\ l = "run" => r = Locals
    /\ l \in UsesX => r.x \in Ctx
    /\ l \in {"xcpu", "signal", "wakeSignal"} => r.cpu \in Cpu \cup {Off}
    /\ l = "away" => r.inf \in Ctx
    /\ l = "to" => r.to \in Cpu
    /\ l \in Sending => /\ r.to \in Ctx /\ r.item \in Ctx
                        /\ r.eret = "drq" => r.x \in Ctx
    /\ r.mq => x \in Ctx /\ l \notin {"home", "xcpu"} /\ (l = "take" => x # r.x)

LocalOK(c) == Fits(pc[c], reg[c], cur[c])

LocalsOK == \A c \in Cpu : LocalOK(c)

\* No two CPUs or contexts hold the same Migration.
MigInv ==
    /\ \A x \in Ctx : ~ info[x].done => info[x].cpu \in Cpu
    /\ \A x, y \in Ctx : mig[x] = mig[y] /\ mig[x] # None => x = y
    /\ \A c \in Cpu, x \in Ctx : pc[c] = "away" => reg[c].inf # mig[x]
    /\ \A c, d \in Cpu : pc[c] = "away" /\ pc[d] = "away" /\ reg[c].inf = reg[d].inf => c = d

StackInv == TypeOK /\ LocalsOK /\ MigInv /\ StackIsAlive

\* x is here, or c runs its last DRQs.
Here(c, x) == home[x] = c \/ (home[x] = Off /\ reg[c].dret = "dead")

Moving == {"home", "xcpu", "take", "away"}

\* Who exits is left alone until the last of its DRQs is handled.
DyingAt(c) == reg[c].dret = "dead" =>
    /\ pc[c] \in Sending \cup {"drq", "dead"}
    /\ pc[c] \in Sending => reg[c].eret = "drq"
    /\ cur[c] = reg[c].x /\ cur[c] \in Ctx
    /\ home[cur[c]] = Off /\ mig[cur[c]] = None
    /\ \A d \in Cpu : pc[d] \in Moving => reg[d].x # cur[c]

CurAt(c) ==
    /\ cur[c] # None /\ pc[c] # "dead" => Here(c, cur[c])
    /\ pc[c] = "away" => cur[c] # reg[c].x

PathAt(c) ==
    /\ pc[c] = "apply" => home[reg[c].x] = c
    /\ pc[c] \in {"drq", "deblock"} \/ (pc[c] \in Sending /\ reg[c].eret = "drq") =>
          Here(c, reg[c].x)
    /\ pc[c] \in {"take", "away"} =>
          home[reg[c].x] = c \/ (home[reg[c].x] = Off /\ offLock = c)

CpuInv == \A c \in Cpu : DyingAt(c) /\ CurAt(c) /\ PathAt(c)

QueuedInv == \A x \in Ctx : queued[x] \in {None, home[x]}

RqqInv == \A c \in Cpu : \A i, j \in DOMAIN rqq[c] :
    /\ home[rqq[c][i]] = c
    /\ rqq[c][i] = rqq[c][j] => i = j

HomeInv == CpuInv /\ QueuedInv /\ RqqInv

-----------------------------------------------------------------------------
\* Dequeue() takes one item out and keeps the order of the others.

LEMMA SkipOne ==
  ASSUME NEW S, NEW s \in Seq(S), NEW k \in 1..Len(s)
  PROVE  /\ RemoveAt(s, k) \in Seq(S)
         /\ Len(RemoveAt(s, k)) = Len(s) - 1
         /\ \A i \in 1..(Len(s) - 1) :
               RemoveAt(s, k)[i] = s[IF i < k THEN i ELSE i + 1]
<1> DEFINE f == SubSeq(s, 1, k - 1)
           g == SubSeq(s, k + 1, Len(s))
<1>1. /\ f \in Seq(S) /\ Len(f) = k - 1
      /\ \A i \in 1..(k - 1) : f[i] = s[i]
  BY SubSeqProperties
<1>2. /\ g \in Seq(S) /\ Len(g) = Len(s) - k
      /\ \A i \in 1..(Len(s) - k) : g[i] = s[k + i]
  BY SubSeqProperties
<1>3. /\ f \o g \in Seq(S) /\ Len(f \o g) = Len(f) + Len(g)
      /\ \A i \in 1..(Len(f) + Len(g)) :
            (f \o g)[i] = IF i <= Len(f) THEN f[i] ELSE g[i - Len(f)]
  BY <1>1, <1>2, ConcatProperties
<1>4. RemoveAt(s, k) = f \o g
  BY DEF RemoveAt
<1> HIDE DEF f, g
<1>5. Len(s) \in Nat /\ Len(f) + Len(g) = Len(s) - 1
  BY <1>1, <1>2
<1>6. ASSUME NEW i \in 1..(Len(s) - 1)
      PROVE  (f \o g)[i] = s[IF i < k THEN i ELSE i + 1]
  <2>1. CASE i < k
    BY <1>1, <1>3, <1>5, <2>1
  <2>2. CASE ~ (i < k)
    <3>1. (f \o g)[i] = g[i - Len(f)] /\ i - Len(f) \in 1..(Len(s) - k)
      BY <1>1, <1>3, <1>5, <2>2
    <3>2. QED
      BY <1>1, <1>2, <2>2, <3>1
  <2>3. QED
    BY <2>1, <2>2
<1>7. QED
  BY <1>3, <1>4, <1>5, <1>6

LEMMA DequeueType ==
  ASSUME NEW S, NEW s \in Seq(S), NEW x
  PROVE  Dequeue(s, x) \in Seq(S)
  BY SkipOne DEF Dequeue, Contains

LEMMA DequeueKeeps ==
  ASSUME NEW S, NEW s \in Seq(S), NEW x,
         \A i, j \in DOMAIN s : s[i] = s[j] => i = j
  PROVE  /\ \A i \in DOMAIN Dequeue(s, x) :
               /\ Dequeue(s, x)[i] # x
               /\ \E j \in DOMAIN s : Dequeue(s, x)[i] = s[j]
         /\ \A i, j \in DOMAIN Dequeue(s, x) : Dequeue(s, x)[i] = Dequeue(s, x)[j] => i = j
<1>1. CASE ~ Contains(s, x)
  BY <1>1 DEF Dequeue, Contains
<1>2. CASE Contains(s, x)
  <2> DEFINE k == CHOOSE i \in DOMAIN s : s[i] = x
  <2>1. k \in 1..Len(s) /\ s[k] = x
    BY <1>2 DEF Contains
  <2>2. Dequeue(s, x) = RemoveAt(s, k)
    BY <1>2 DEF Dequeue
  <2> HIDE DEF k
  <2>3. /\ DOMAIN Dequeue(s, x) = 1..(Len(s) - 1)
        /\ \A i \in 1..(Len(s) - 1) :
              Dequeue(s, x)[i] = s[IF i < k THEN i ELSE i + 1]
    BY <2>1, <2>2, SkipOne
  <2>4. QED
    BY <2>1, <2>3
<1>3. QED
  BY <1>1, <1>2

-----------------------------------------------------------------------------
\* What a CPU can do, one action at a time.

Steps(c) ==
    \/ \E x \in Ctx, target \in Cpu : Migrate(c, x, target)
    \/ \E x \in Ctx : Drq(c, x) \/ Wake(c, x)
    \/ Wait(c) \/ Kill(c) \/ LeaveMigrate(c)
    \/ KernelStep(c)
    \/ IpiArrives(c)
    \/ \E y \in Ctx \cup {None} : Schedule(c, y)

LEMMA NextSteps == Next => \E c \in Cpu : Steps(c)
  BY DEF Next, Steps

\* TypeOK in two parts.
PathsOK == pc \in [Cpu -> Labels] /\ reg \in [Cpu -> Reg] /\ cur \in [Cpu -> OrNone(Ctx)]

StateOK ==
    /\ home \in [Ctx -> Cpu \cup {Off}]
    /\ ready \subseteq Ctx /\ drqReady \subseteq Ctx /\ drqWait \subseteq Ctx
    /\ finish \subseteq Ctx /\ change \subseteq Ctx
    /\ queued \in [Ctx -> OrNone(Cpu \cup {Off})]
    /\ timers \in [Ctx -> OrNone(Cpu)]
    /\ mig \in [Ctx -> OrNone(Ctx)]
    /\ info \in [Ctx -> [cpu : Cpu \cup {Off}, done : BOOLEAN]]
    /\ spin \subseteq Ctx
    /\ calls \in Nat
    /\ drqq \in [Ctx -> Seq(Ctx)]
    /\ served \in [Ctx -> Nat]
    /\ rqq \in [Cpu -> Seq(Ctx)]
    /\ offLock \in OrNone(Cpu)

LEMMA TypeParts == /\ TypeOK <=> PathsOK /\ StateOK
                   /\ TypeOK' <=> PathsOK' /\ StateOK'
  BY DEF TypeOK, PathsOK, StateOK

\* The paths of the other CPUs are left alone, and that of c gets to l with the locals r.
PathTo(c, l, r) ==
    /\ pc'[c] = l /\ reg'[c] = r
    /\ \A d \in Cpu \ {c} : pc'[d] = pc[d] /\ reg'[d] = reg[d]
    /\ pc' \in [Cpu -> Labels] /\ reg' \in [Cpu -> Reg]

LEMMA LocalsType == Locals \in Reg
  BY DEF Locals, Reg, OrNone

LEMMA GotoPath ==
  ASSUME PathsOK, NEW c \in Cpu, NEW l \in Labels, Goto(c, l), UNCHANGED reg
  PROVE  PathTo(c, l, reg[c])
  BY DEF PathsOK, Goto, PathTo

LEMMA SetPath ==
  ASSUME PathsOK, NEW c \in Cpu, NEW l \in Labels, Goto(c, l),
         NEW r \in Reg, reg' = [reg EXCEPT ![c] = r]
  PROVE  PathTo(c, l, r)
  BY DEF PathsOK, Goto, PathTo

LEMMA ReturnPath ==
  ASSUME PathsOK, NEW c \in Cpu, NEW l \in Labels, Return(c, l)
  PROVE  PathTo(c, l, IF l = "run" THEN Locals ELSE reg[c])
  BY LocalsType DEF PathsOK, Return, Goto, PathTo

LEMMA RegUpdate ==
  ASSUME NEW r \in Reg
  PROVE  /\ \A v \in OrNone(Ctx) : /\ [r EXCEPT !.x = v] \in Reg
                                   /\ [r EXCEPT !.inf = v] \in Reg
                                   /\ [r EXCEPT !.item = v] \in Reg
                                   /\ [r EXCEPT !.to = v] \in Reg
         /\ \A v \in Cpu : [r EXCEPT !.to = v] \in Reg
         /\ \A v \in Cpu \cup {Off} : [r EXCEPT !.cpu = v] \in Reg
         /\ \A v \in BOOLEAN : [r EXCEPT !.mq = v] \in Reg
         /\ \A v \in {"run", "irqEnd", "applied"} : [r EXCEPT !.mret = v] \in Reg
         /\ \A v \in {"run", "deblock", "rqq", "dead"} : [r EXCEPT !.dret = v] \in Reg
         /\ \A v \in {"run", "drq"} : [r EXCEPT !.eret = v] \in Reg
  BY DEF Reg, OrNone

\* handle_drq() returns at once, or has requests to handle
LEMMA HandleDrqPath ==
  ASSUME PathsOK, NEW c \in Cpu, NEW x \in Ctx, NEW l \in {"run", "deblock", "rqq", "dead"},
         HandleDrq(c, x, l)
  PROVE  \/ PathTo(c, l, IF l = "run" THEN Locals ELSE reg[c])
         \/ PathTo(c, "drq", [reg[c] EXCEPT !.x = x, !.dret = l])
<1>1. l \in Labels /\ "drq" \in Labels
  BY DEF Labels
<1>2. CASE drqq[x] = <<>>
  BY <1>1, <1>2, ReturnPath DEF HandleDrq
<1>3. CASE drqq[x] # <<>>
  <2>1. reg[c] \in Reg
    BY DEF PathsOK
  <2>2. [reg[c] EXCEPT !.x = x, !.dret = l] \in Reg
    BY <2>1 DEF Reg, OrNone
  <2>3. Goto(c, "drq") /\ reg' = [reg EXCEPT ![c] = [reg[c] EXCEPT !.x = x, !.dret = l]]
    BY <1>3 DEF HandleDrq, PathsOK
  <2>4. QED
    BY <1>1, <2>2, <2>3, SetPath
<1>4. QED
  BY <1>2, <1>3

-----------------------------------------------------------------------------
\* Where each action takes the path of its CPU.
Back(c, l) == PathTo(c, l, IF l = "run" THEN Locals ELSE reg[c])

LEMMA MigratePath ==
  ASSUME PathsOK, StateOK, LocalsOK, NEW c \in Cpu, NEW x \in Ctx, NEW target \in Cpu, Migrate(c, x, target)
  PROVE  pc[c] = "run" /\ PathTo(c, "home", [reg[c] EXCEPT !.x = x])
<1>1. reg[c] \in Reg /\ "home" \in Labels
  BY DEF PathsOK, Labels
<1>2. [reg[c] EXCEPT !.x = x] \in Reg
  BY <1>1, RegUpdate DEF OrNone
<1>3. Goto(c, "home") /\ reg' = [reg EXCEPT ![c] = [reg[c] EXCEPT !.x = x]]
  BY DEF Migrate, PathsOK
<1>4. QED
  BY <1>1, <1>2, <1>3, SetPath DEF Migrate, Asks

LEMMA DrqPath ==
  ASSUME PathsOK, StateOK, LocalsOK, NEW c \in Cpu, NEW x \in Ctx, Drq(c, x)
  PROVE  pc[c] = "run" /\ PathTo(c, "enq", [reg[c] EXCEPT !.to = x, !.item = cur[c]])
<1>1. reg[c] \in Reg /\ "enq" \in Labels
  BY DEF PathsOK, Labels
<1>2. [reg[c] EXCEPT !.to = x, !.item = cur[c]] \in Reg
  BY <1>1 DEF PathsOK, Reg, OrNone
<1>3. Goto(c, "enq") /\ reg' = [reg EXCEPT ![c] = [reg[c] EXCEPT !.to = x, !.item = cur[c]]]
  BY DEF Drq, PathsOK
<1>4. QED
  BY <1>1, <1>2, <1>3, SetPath DEF Drq, Asks

LEMMA ReadHomePath ==
  ASSUME PathsOK, StateOK, LocalsOK, NEW c \in Cpu, ReadHome(c)
  PROVE  /\ pc[c] = "home"
         /\ PathTo(c, IF home[reg[c].x] = c THEN "take" ELSE "xcpu",
                   [reg[c] EXCEPT !.cpu = home[reg[c].x]])
<1> DEFINE l == IF home[reg[c].x] = c THEN "take" ELSE "xcpu"
           r == [reg[c] EXCEPT !.cpu = home[reg[c].x]]
<1>1. reg[c] \in Reg /\ l \in Labels
  BY DEF PathsOK, Labels
<1>2. r \in Reg
  BY <1>1, RegUpdate DEF ReadHome, LocalsOK, LocalOK, Fits, UsesX, StateOK
<1>3. Goto(c, l) /\ reg' = [reg EXCEPT ![c] = r]
  BY DEF ReadHome, PathsOK
<1> HIDE DEF l, r
<1>4. PathTo(c, l, r)
  BY <1>1, <1>2, <1>3, SetPath
<1>5. QED
  BY <1>4 DEF ReadHome, l, r

LEMMA MigrateXcpuPath ==
  ASSUME PathsOK, StateOK, LocalsOK, NEW c \in Cpu, MigrateXcpu(c)
  PROVE  /\ pc[c] = "xcpu"
         /\ \/ Back(c, "run") /\ UNCHANGED offLock
            \/ /\ PathTo(c, "take", reg[c])
               /\ home[reg[c].x] = Off /\ offLock = None /\ offLock' = c
<1>1. "run" \in Labels /\ "take" \in Labels
  BY DEF Labels
<1>2. QED
  BY <1>1, GotoPath, ReturnPath DEF MigrateXcpu, Back

LEMMA StartMigrationPath ==
  ASSUME PathsOK, StateOK, LocalsOK, NEW c \in Cpu, StartMigration(c)
  PROVE  /\ pc[c] = "take"
         /\ \/ Back(c, reg[c].mret) /\ UNCHANGED cur
            \/ /\ PathTo(c, "away", [reg[c] EXCEPT !.inf = mig[reg[c].x]])
               /\ mig[reg[c].x] # None
<1>1. reg[c] \in Reg /\ reg[c].mret \in Labels /\ "away" \in Labels /\ reg[c].x \in Ctx
  BY DEF PathsOK, Reg, Labels, StartMigration, LocalsOK, LocalOK, Fits, UsesX
<1>2. [reg[c] EXCEPT !.inf = mig[reg[c].x]] \in Reg
  BY <1>1, RegUpdate DEF StateOK
<1>3. CASE Return(c, reg[c].mret) /\ UNCHANGED cur
  BY <1>1, <1>3, ReturnPath DEF StartMigration, Back
<1>4. CASE /\ reg' = [reg EXCEPT ![c].inf = mig[reg[c].x]] /\ Goto(c, "away")
           /\ mig[reg[c].x] # None
  <2>1. reg' = [reg EXCEPT ![c] = [reg[c] EXCEPT !.inf = mig[reg[c].x]]]
    BY <1>4 DEF PathsOK
  <2>2. QED
    BY <1>1, <1>2, <1>4, <2>1, SetPath DEF StartMigration
<1>5. QED
  BY <1>3, <1>4 DEF StartMigration

LEMMA MigrateAwayPath ==
  ASSUME PathsOK, StateOK, LocalsOK, NEW c \in Cpu, info[reg[c].inf].cpu \in Cpu, MigrateAway(c)
  PROVE  pc[c] = "away" /\ PathTo(c, "to", [reg[c] EXCEPT !.to = info[reg[c].inf].cpu, !.inf = None])
<1>1. reg[c] \in Reg /\ "to" \in Labels
  BY DEF PathsOK, Labels
<1>2. [reg[c] EXCEPT !.to = info[reg[c].inf].cpu, !.inf = None] \in Reg
  BY <1>1, info[reg[c].inf].cpu \in Cpu DEF Reg, OrNone
<1>3. Goto(c, "to") /\ reg' = [reg EXCEPT ![c] = [reg[c] EXCEPT !.to = info[reg[c].inf].cpu, !.inf = None]]
  BY DEF MigrateAway, PathsOK
<1>4. QED
  BY <1>1, <1>2, <1>3, SetPath DEF MigrateAway

LEMMA MigrateToPath ==
  ASSUME PathsOK, StateOK, LocalsOK, NEW c \in Cpu, MigrateTo(c)
  PROVE  /\ pc[c] = "to"
         /\ \/ Back(c, reg[c].mret)
            \/ /\ home[reg[c].x] = c
               /\ \/ Back(c, "deblock")
                  \/ PathTo(c, "drq", [reg[c] EXCEPT !.x = reg[c].x, !.dret = "deblock"])
<1>1. reg[c].mret \in Labels /\ reg[c].x \in Ctx
  BY DEF PathsOK, Reg, Labels, MigrateTo, LocalsOK, LocalOK, Fits, UsesX
<1>2. CASE Return(c, reg[c].mret)
  BY <1>1, <1>2, ReturnPath DEF MigrateTo, Back
<1>3. CASE home[reg[c].x] = c /\ HandleDrq(c, reg[c].x, "deblock")
  BY <1>1, <1>3, HandleDrqPath DEF MigrateTo, Back
<1>4. QED
  BY <1>2, <1>3 DEF MigrateTo

LEMMA DeblockPath ==
  ASSUME PathsOK, StateOK, LocalsOK, NEW c \in Cpu, Deblock(c)
  PROVE  pc[c] = "deblock" /\ Back(c, reg[c].mret)
<1>1. reg[c].mret \in Labels
  BY DEF PathsOK, Reg, Labels
<1>2. QED
  BY <1>1, ReturnPath DEF Deblock, Back

LEMMA EnqueueDrqPath ==
  ASSUME PathsOK, StateOK, LocalsOK, NEW c \in Cpu, EnqueueDrq(c)
  PROVE  /\ pc[c] = "enq"
         /\ Back(c, reg[c].eret) \/ PathTo(c, "reread", reg[c])
<1>1. reg[c].eret \in Labels /\ "reread" \in Labels
  BY DEF PathsOK, Reg, Labels
<1>2. CASE Return(c, reg[c].eret)
  BY <1>1, <1>2, ReturnPath DEF EnqueueDrq, Back
<1>3. CASE Goto(c, "reread") /\ UNCHANGED reg
  BY <1>1, <1>3, GotoPath DEF EnqueueDrq
<1>4. QED
  BY <1>2, <1>3 DEF EnqueueDrq, ExecuteDrq

LEMMA RereadHomePath ==
  ASSUME PathsOK, StateOK, LocalsOK, NEW c \in Cpu, RereadHome(c)
  PROVE  /\ pc[c] = "reread"
         /\ \/ Back(c, reg[c].eret)
            \/ PathTo(c, "signal", [reg[c] EXCEPT !.cpu = home[reg[c].to]])
<1>1. reg[c] \in Reg /\ reg[c].eret \in Labels /\ "signal" \in Labels /\ reg[c].to \in Ctx
  BY DEF PathsOK, Reg, Labels, RereadHome, LocalsOK, LocalOK, Fits, Sending
<1>2. [reg[c] EXCEPT !.cpu = home[reg[c].to]] \in Reg
  BY <1>1, RegUpdate DEF StateOK
<1>3. CASE Return(c, reg[c].eret)
  BY <1>1, <1>3, ReturnPath DEF RereadHome, Back
<1>4. CASE Goto(c, "signal") /\ reg' = [reg EXCEPT ![c].cpu = home[reg[c].to]]
  <2>1. reg' = [reg EXCEPT ![c] = [reg[c] EXCEPT !.cpu = home[reg[c].to]]]
    BY <1>4 DEF PathsOK
  <2>2. QED
    BY <1>1, <1>2, <1>4, <2>1, SetPath DEF RereadHome
<1>5. QED
  BY <1>3, <1>4 DEF RereadHome, DeqExecDrq, ExecuteDrq

LEMMA SignalDrqPath ==
  ASSUME PathsOK, StateOK, LocalsOK, NEW c \in Cpu, SignalDrq(c)
  PROVE  pc[c] = "signal" /\ Back(c, reg[c].eret)
<1>1. reg[c].eret \in Labels
  BY DEF PathsOK, Reg, Labels
<1>2. Return(c, reg[c].eret)
  BY DEF SignalDrq, DeqExecDrq, ExecuteDrq
<1>3. QED
  BY <1>1, <1>2, ReturnPath DEF SignalDrq, Back

LEMMA ExecuteRequestPath ==
  ASSUME PathsOK, StateOK, LocalsOK, NEW c \in Cpu, ExecuteRequest(c)
  PROVE  /\ pc[c] = "drq"
         /\ \/ Back(c, reg[c].dret)
            \/ PathTo(c, "drq", reg[c])
            \/ \E w \in Ctx :
                  PathTo(c, "enq", [reg[c] EXCEPT !.to = w, !.item = w, !.eret = "drq"])
<1> DEFINE w == Head(drqq[reg[c].x])
<1>1. reg[c] \in Reg /\ reg[c].dret \in Labels /\ "enq" \in Labels /\ reg[c].x \in Ctx
  BY DEF PathsOK, Reg, Labels, ExecuteRequest, LocalsOK, LocalOK, Fits, UsesX
<1>2. CASE drqq[reg[c].x] = <<>>
  BY <1>1, <1>2, ReturnPath DEF ExecuteRequest, Back
<1>3. CASE drqq[reg[c].x] # <<>> /\ w = reg[c].x
  <2>1. UNCHANGED <<pc, reg>>
    BY <1>3 DEF ExecuteRequest
  <2>2. QED
    BY <2>1 DEF ExecuteRequest, PathTo, PathsOK
<1>4. CASE drqq[reg[c].x] # <<>> /\ w # reg[c].x
  <2>1. w \in Ctx
    <3>1. drqq[reg[c].x] \in Seq(Ctx)
      BY <1>1 DEF StateOK
    <3>2. QED
      BY <1>4, <3>1
  <2>2. Goto(c, "enq") /\ reg' = [reg EXCEPT ![c].to = w, ![c].item = w, ![c].eret = "drq"]
    BY <1>4 DEF ExecuteRequest
  <2> HIDE DEF w
  <2>3. [reg[c] EXCEPT !.to = w, !.item = w, !.eret = "drq"] \in Reg
    BY <1>1, <2>1 DEF Reg, OrNone
  <2>4. reg' = [reg EXCEPT ![c] = [reg[c] EXCEPT !.to = w, !.item = w, !.eret = "drq"]]
    BY <2>2 DEF PathsOK
  <2>5. QED
    BY <1>1, <2>1, <2>2, <2>3, <2>4, SetPath DEF ExecuteRequest
<1>5. QED
  BY <1>2, <1>3, <1>4

LEMMA WakePath ==
  ASSUME PathsOK, StateOK, LocalsOK, NEW c \in Cpu, NEW x \in Ctx, Wake(c, x)
  PROVE  /\ pc[c] = "run"
         /\ PathTo(c, "run", reg[c]) \/ PathTo(c, "wakeHome", [reg[c] EXCEPT !.x = x])
<1>1. reg[c] \in Reg /\ "wakeHome" \in Labels
  BY DEF PathsOK, Labels
<1>2. CASE home[x] = c
  BY <1>2 DEF Wake, Asks, PathsOK, PathTo
<1>3. CASE home[x] # c
  <2>1. Goto(c, "wakeHome") /\ reg' = [reg EXCEPT ![c] = [reg[c] EXCEPT !.x = x]]
    BY <1>3 DEF Wake, PathsOK
  <2>2. [reg[c] EXCEPT !.x = x] \in Reg
    BY <1>1, RegUpdate DEF OrNone
  <2>3. QED
    BY <1>1, <2>1, <2>2, SetPath DEF Wake, Asks
<1>4. QED
  BY <1>2, <1>3

LEMMA WakeReadHomePath ==
  ASSUME PathsOK, StateOK, LocalsOK, NEW c \in Cpu, WakeReadHome(c)
  PROVE  pc[c] = "wakeHome" /\ PathTo(c, "wakeSignal", [reg[c] EXCEPT !.cpu = home[reg[c].x]])
<1>1. reg[c] \in Reg /\ "wakeSignal" \in Labels
  BY DEF PathsOK, Labels
<1>2. [reg[c] EXCEPT !.cpu = home[reg[c].x]] \in Reg
  BY <1>1, RegUpdate DEF WakeReadHome, LocalsOK, LocalOK, Fits, UsesX, StateOK
<1>3. Goto(c, "wakeSignal") /\ reg' = [reg EXCEPT ![c] = [reg[c] EXCEPT !.cpu = home[reg[c].x]]]
  BY DEF WakeReadHome, PathsOK
<1>4. QED
  BY <1>1, <1>2, <1>3, SetPath DEF WakeReadHome

LEMMA WakeSignalPath ==
  ASSUME PathsOK, StateOK, LocalsOK, NEW c \in Cpu, WakeSignal(c)
  PROVE  pc[c] = "wakeSignal" /\ Back(c, "run")
<1>1. "run" \in Labels
  BY DEF Labels
<1>2. QED
  BY <1>1, ReturnPath DEF WakeSignal, Back

LEMMA IpiPath ==
  ASSUME PathsOK, StateOK, LocalsOK, NEW c \in Cpu, IpiArrives(c)
  PROVE  pc[c] = "run" /\ PathTo(c, "rqq", reg[c])
<1>1. "rqq" \in Labels
  BY DEF Labels
<1>2. QED
  BY <1>1, GotoPath DEF IpiArrives, InterruptsOn

LEMMA NextRequestPath ==
  ASSUME PathsOK, StateOK, LocalsOK, NEW c \in Cpu, NextRequest(c)
  PROVE  /\ pc[c] = "rqq"
         /\ \/ \E x \in Ctx :
                  /\ rqq[c] # <<>> /\ x = Head(rqq[c])
                  /\ PathTo(c, "apply", [Locals EXCEPT !.x = x, !.mq = reg[c].mq])
            \/ /\ reg[c].mq
               /\ PathTo(c, "take", [Locals EXCEPT !.x = cur[c], !.mret = "irqEnd"])
            \/ PathTo(c, "irqEnd", reg[c])
<1>1. reg[c] \in Reg /\ {"apply", "take", "irqEnd"} \subseteq Labels
  BY DEF PathsOK, Labels
<1>2. CASE rqq[c] # <<>>
  <2> DEFINE x == Head(rqq[c])
             r == [Locals EXCEPT !.x = x, !.mq = reg[c].mq]
  <2>1. rqq[c] \in Seq(Ctx)
    BY DEF StateOK
  <2>2. x \in Ctx
    BY <1>2, <2>1
  <2>3. Goto(c, "apply") /\ reg' = [reg EXCEPT ![c] = r]
    BY <1>2 DEF NextRequest
  <2> HIDE DEF x
  <2>4. r \in Reg
    BY <1>1, <2>2, LocalsType DEF Reg, OrNone
  <2>5. PathTo(c, "apply", r)
    BY <1>1, <2>3, <2>4, SetPath
  <2>6. QED
    BY <1>2, <2>2, <2>5 DEF NextRequest, x
<1>3. CASE rqq[c] = <<>> /\ reg[c].mq
  <2> DEFINE r == [Locals EXCEPT !.x = cur[c], !.mret = "irqEnd"]
  <2>1. Goto(c, "take") /\ reg' = [reg EXCEPT ![c] = r]
    BY <1>3 DEF NextRequest
  <2>2. r \in Reg
    BY LocalsType DEF Reg, OrNone, PathsOK
  <2>3. QED
    BY <1>1, <1>3, <2>1, <2>2, SetPath DEF NextRequest
<1>4. CASE rqq[c] = <<>> /\ ~ reg[c].mq
  BY <1>1, <1>4, GotoPath DEF NextRequest
<1>5. QED
  BY <1>2, <1>3, <1>4

LEMMA ApplyRequestPath ==
  ASSUME PathsOK, StateOK, LocalsOK, NEW c \in Cpu, ApplyRequest(c)
  PROVE  /\ pc[c] = "apply"
         /\ \/ PathTo(c, "applied", reg[c])
            \/ PathTo(c, "applied", [reg[c] EXCEPT !.mq = TRUE]) /\ reg[c].x = cur[c]
            \/ PathTo(c, "take", [reg[c] EXCEPT !.mret = "applied"]) /\ reg[c].x # cur[c]
<1>1. reg[c] \in Reg /\ {"applied", "take"} \subseteq Labels
  BY DEF PathsOK, Labels
<1>2. /\ [reg[c] EXCEPT !.mq = TRUE] \in Reg
      /\ [reg[c] EXCEPT !.mret = "applied"] \in Reg
  BY <1>1, RegUpdate
<1>3. CASE mig[reg[c].x] = None
  BY <1>1, <1>3, GotoPath DEF ApplyRequest
<1>4. CASE mig[reg[c].x] # None /\ reg[c].x = cur[c]
  <2>1. Goto(c, "applied") /\ reg' = [reg EXCEPT ![c] = [reg[c] EXCEPT !.mq = TRUE]]
    BY <1>4 DEF ApplyRequest, PathsOK
  <2>2. QED
    BY <1>1, <1>2, <1>4, <2>1, SetPath DEF ApplyRequest
<1>5. CASE mig[reg[c].x] # None /\ reg[c].x # cur[c]
  <2>1. Goto(c, "take") /\ reg' = [reg EXCEPT ![c] = [reg[c] EXCEPT !.mret = "applied"]]
    BY <1>5 DEF ApplyRequest, PathsOK
  <2>2. QED
    BY <1>1, <1>2, <1>5, <2>1, SetPath DEF ApplyRequest
<1>6. QED
  BY <1>3, <1>4, <1>5

LEMMA AppliedPath ==
  ASSUME PathsOK, StateOK, LocalsOK, NEW c \in Cpu, Applied(c)
  PROVE  /\ pc[c] = "applied"
         /\ \/ PathTo(c, "rqq", reg[c])
            \/ /\ home[reg[c].x] = c
               /\ PathTo(c, "drq", [reg[c] EXCEPT !.x = reg[c].x, !.dret = "rqq"])
<1>1. "rqq" \in Labels /\ reg[c].x \in Ctx
  BY DEF Labels, Applied, LocalsOK, LocalOK, Fits, UsesX
<1>2. CASE home[reg[c].x] = c /\ HandleDrq(c, reg[c].x, "rqq")
  BY <1>1, <1>2, HandleDrqPath DEF Applied
<1>3. CASE Goto(c, "rqq") /\ UNCHANGED reg
  BY <1>1, <1>3, GotoPath DEF Applied
<1>4. QED
  BY <1>2, <1>3 DEF Applied

LEMMA IrqEndPath ==
  ASSUME PathsOK, StateOK, LocalsOK, NEW c \in Cpu, IrqEnd(c)
  PROVE  /\ pc[c] = "irqEnd"
         /\ \/ Back(c, "run")
            \/ /\ cur[c] \in Ctx
               /\ PathTo(c, "drq", [reg[c] EXCEPT !.x = cur[c], !.dret = "run"])
<1>1. "run" \in Labels /\ cur[c] \in OrNone(Ctx)
  BY DEF Labels, PathsOK
<1>2. CASE cur[c] # None
  BY <1>1, <1>2, HandleDrqPath DEF IrqEnd, OrNone, Back
<1>3. CASE cur[c] = None
  BY <1>1, <1>3, ReturnPath DEF IrqEnd, Back
<1>4. QED
  BY <1>2, <1>3

LEMMA DeadPath ==
  ASSUME PathsOK, StateOK, LocalsOK, NEW c \in Cpu, Dead(c)
  PROVE  pc[c] = "dead" /\ Back(c, "run")
<1>1. "run" \in Labels
  BY DEF Labels
<1>2. QED
  BY <1>1, ReturnPath DEF Dead, Back

LEMMA SchedulePath ==
  ASSUME PathsOK, StateOK, LocalsOK, NEW c \in Cpu, NEW y \in Ctx \cup {None}, Schedule(c, y)
  PROVE  /\ pc[c] = "run" /\ cur' = [cur EXCEPT ![c] = y]
         /\ \/ Back(c, "run")
            \/ /\ y \in Ctx
               /\ PathTo(c, "drq", [reg[c] EXCEPT !.x = y, !.dret = "run"])
<1>1. "run" \in Labels
  BY DEF Labels
<1>2. CASE y # None
  BY <1>1, <1>2, HandleDrqPath DEF Schedule, OrNone, Back
<1>3. CASE y = None
  BY <1>1, <1>3 DEF Schedule, PathsOK, LocalsOK, LocalOK, Fits, PathTo, Back
<1>4. QED
  BY <1>2, <1>3

LEMMA KillPath ==
  ASSUME PathsOK, StateOK, LocalsOK, NEW c \in Cpu, Kill(c)
  PROVE  /\ pc[c] = "run" /\ cur[c] \in Ctx
         /\ \/ Back(c, "dead")
            \/ PathTo(c, "drq", [reg[c] EXCEPT !.x = cur[c], !.dret = "dead"])
<1>1. cur[c] \in Ctx
  BY DEF Kill, Asks, StateOK
<1>2. QED
  BY <1>1, HandleDrqPath DEF Kill, Asks, Back

-----------------------------------------------------------------------------
\* What the operations do to the types of the state.

LEMMA QueueRequestType ==
  ASSUME StateOK, NEW c \in Cpu \cup {Off}, NEW x \in Ctx, QueueRequest(c, x)
  PROVE  rqq' \in [Cpu -> Seq(Ctx)]
<1>1. CASE IsPending(x) \/ c = Off
  <2>1. rqq' = rqq
    BY <1>1, MigrationAssumption DEF StateOK, QueueRequest
  <2>2. QED
    BY <2>1 DEF StateOK
<1>2. CASE ~ IsPending(x) /\ c \in Cpu
  <2>1. Append(rqq[c], x) \in Seq(Ctx)
    BY <1>2 DEF StateOK
  <2>2. QED
    BY <1>2, <2>1 DEF StateOK, QueueRequest
<1>3. QED
  BY <1>1, <1>2

LEMMA ReadyEnqueueType ==
  ASSUME StateOK, NEW c \in Cpu \cup {Off}, NEW x \in Ctx, ReadyEnqueue(c, x)
  PROVE  queued' \in [Ctx -> OrNone(Cpu \cup {Off})]
  BY DEF StateOK, ReadyEnqueue, OrNone

LEMMA HandleDrqType ==
  ASSUME StateOK, NEW c \in Cpu, NEW x \in Ctx, NEW l, HandleDrq(c, x, l)
  PROVE  finish' \subseteq Ctx /\ timers' \in [Ctx -> OrNone(Cpu)]
  BY DEF StateOK, HandleDrq, FinishMigration, OrNone

LEMMA ExecuteDrqType ==
  ASSUME StateOK, NEW c \in Cpu, NEW at \in Cpu \cup {Off}, NEW y \in Ctx, NEW w \in Ctx,
         ExecuteDrq(c, y, w, at)
  PROVE  /\ ready' \subseteq Ctx /\ change' \subseteq Ctx /\ drqWait' \subseteq Ctx
         /\ served' \in [Ctx -> Nat]
         /\ queued' \in [Ctx -> OrNone(Cpu \cup {Off})]
<1>1. queued' \in [Ctx -> OrNone(Cpu \cup {Off})]
  BY ReadyEnqueueType DEF ExecuteDrq, StateOK
<1>2. served' \in [Ctx -> Nat]
  BY DEF ExecuteDrq, StateOK
<1>3. QED
  BY <1>1, <1>2 DEF ExecuteDrq, StateOK

LEMMA DeqExecDrqType ==
  ASSUME StateOK, NEW c \in Cpu, NEW at \in Cpu \cup {Off}, NEW y \in Ctx, NEW w \in Ctx,
         DeqExecDrq(c, y, w, at)
  PROVE  /\ ready' \subseteq Ctx /\ change' \subseteq Ctx /\ drqWait' \subseteq Ctx
         /\ drqReady' \subseteq Ctx /\ finish' \subseteq Ctx /\ calls' \in Nat
         /\ served' \in [Ctx -> Nat] /\ drqq' \in [Ctx -> Seq(Ctx)]
         /\ queued' \in [Ctx -> OrNone(Cpu \cup {Off})]
<1>1. CASE ~ Contains(drqq[y], w)
  BY <1>1 DEF DeqExecDrq, StateOK, flags, requests
<1>2. CASE Contains(drqq[y], w)
  <2>1. Dequeue(drqq[y], w) \in Seq(Ctx)
    BY DequeueType DEF StateOK
  <2>2. drqq' \in [Ctx -> Seq(Ctx)]
    BY <1>2, <2>1 DEF DeqExecDrq, StateOK
  <2>3. drqReady' \subseteq Ctx /\ finish' \subseteq Ctx /\ calls' \in Nat
    BY <1>2 DEF DeqExecDrq, StateOK
  <2>4. QED
    BY <1>2, <2>2, <2>3, ExecuteDrqType DEF DeqExecDrq
<1>3. QED
  BY <1>1, <1>2

LEMMA StateStep ==
  ASSUME StackInv, NEW c \in Cpu, Steps(c)
  PROVE  StateOK'
<1> USE DEF flags, moves, requests
<1>0. PathsOK /\ StateOK /\ LocalsOK /\ LocalOK(c)
  BY TypeParts DEF StackInv, LocalsOK
<1>1. ASSUME NEW x \in Ctx, NEW target \in Cpu, Migrate(c, x, target) PROVE StateOK'
  <2> DEFINE w == cur[c]
  <2>1. w \in Ctx
    BY <1>0, <1>1 DEF Migrate, Asks, StateOK
  <2>2. mig' \in [Ctx -> OrNone(Ctx)] /\ spin' \subseteq Ctx /\ calls' \in Nat
    BY <1>0, <1>1, <2>1 DEF Migrate, StateOK, OrNone
  <2>3. ASSUME NEW v \in Ctx PROVE info'[v] \in [cpu : Cpu \cup {Off}, done : BOOLEAN]
    <3>1. info[v] \in [cpu : Cpu \cup {Off}, done : BOOLEAN]
      BY <1>0 DEF StateOK
    <3>2. /\ [info[v] EXCEPT !.done = TRUE] \in [cpu : Cpu \cup {Off}, done : BOOLEAN]
          /\ [cpu |-> target, done |-> FALSE] \in [cpu : Cpu \cup {Off}, done : BOOLEAN]
      BY <3>1
    <3>3. QED
      BY <1>1, <3>1, <3>2 DEF Migrate
  <2>4. info' \in [Ctx -> [cpu : Cpu \cup {Off}, done : BOOLEAN]]
    BY <1>1, <2>3 DEF Migrate
  <2>5. QED
    BY <1>0, <1>1, <2>2, <2>4 DEF Migrate, StateOK
<1>2. ASSUME NEW x \in Ctx, Drq(c, x) PROVE StateOK'
  <2>1. cur[c] \in Ctx
    BY <1>0, <1>2 DEF Drq, Asks, StateOK
  <2>2. served' \in [Ctx -> Nat] /\ drqWait' \subseteq Ctx /\ calls' \in Nat
    BY <1>0, <1>2, <2>1 DEF Drq, StateOK
  <2>3. QED
    BY <1>0, <1>2, <2>2 DEF Drq, StateOK
<1>3. ASSUME NEW x \in Ctx, Wake(c, x) PROVE StateOK'
  BY <1>0, <1>3, ReadyEnqueueType DEF Wake, StateOK
<1>4. CASE Wait(c)
  BY <1>0, <1>4 DEF Wait, StateOK
<1>5. CASE Kill(c)
  <2>1. cur[c] \in Ctx
    BY <1>0, <1>5, KillPath
  <2>2. Dequeue(rqq[c], cur[c]) \in Seq(Ctx)
    BY <1>0, DequeueType DEF StateOK
  <2>3. finish' \subseteq Ctx /\ timers' \in [Ctx -> OrNone(Cpu)]
    BY <1>0, <1>5, <2>1, HandleDrqType DEF Kill
  <2>4. QED
    BY <1>0, <1>5, <2>1, <2>2, <2>3 DEF Kill, StateOK, OrNone
<1>6. CASE LeaveMigrate(c)
  BY <1>0, <1>6 DEF LeaveMigrate, StateOK
<1>7. CASE ReadHome(c) \/ WakeReadHome(c) \/ IpiArrives(c) \/ Dead(c)
  BY <1>0, <1>7 DEF ReadHome, WakeReadHome, IpiArrives, Dead, StateOK
<1>8. CASE MigrateXcpu(c)
  <2>1. reg[c].x \in Ctx /\ reg[c].cpu \in Cpu \cup {Off}
    BY <1>0, <1>8 DEF MigrateXcpu, LocalOK, Fits, UsesX
  <2>2. rqq' \in [Cpu -> Seq(Ctx)] /\ offLock' \in OrNone(Cpu)
    BY <1>0, <1>8, <2>1, QueueRequestType DEF MigrateXcpu, StateOK, OrNone
  <2>3. QED
    BY <1>0, <1>8, <2>2 DEF MigrateXcpu, StateOK
<1>9. CASE StartMigration(c)
  <2>1. reg[c].x \in Ctx
    BY <1>0, <1>9 DEF StartMigration, LocalOK, Fits, UsesX
  <2>2. mig' \in [Ctx -> OrNone(Ctx)]
    BY <1>0, <1>9 DEF StartMigration, StateOK, OrNone
  <2> DEFINE m == mig[reg[c].x]
  <2>3. info' \in [Ctx -> [cpu : Cpu \cup {Off}, done : BOOLEAN]]
    <3>1. CASE info' = info
      BY <1>0, <3>1 DEF StateOK
    <3>2. CASE m # None /\ info' = [info EXCEPT ![m].done = TRUE]
      <4>1. m \in Ctx
        BY <1>0, <2>1, <3>2 DEF StateOK, OrNone
      <4> HIDE DEF m
      <4>2. QED
        BY <1>0, <3>2, <4>1 DEF StateOK
    <3>3. QED
      BY <1>9, <3>1, <3>2 DEF StartMigration
  <2>4. queued' \in [Ctx -> OrNone(Cpu \cup {Off})]
    BY <1>0, <1>9, <2>1, ReadyEnqueueType DEF StartMigration, StateOK
  <2>5. offLock' \in OrNone(Cpu)
    BY <1>0, <1>9 DEF StartMigration, StateOK, OrNone
  <2>6. QED
    BY <1>0, <1>9, <2>2, <2>3, <2>4, <2>5 DEF StartMigration, StateOK
<1>10. CASE MigrateAway(c)
  <2>1. reg[c].x \in Ctx /\ reg[c].inf \in Ctx
    BY <1>0, <1>10 DEF MigrateAway, LocalOK, Fits, UsesX
  <2>2. Dequeue(rqq[c], reg[c].x) \in Seq(Ctx)
    BY <1>0, DequeueType DEF StateOK
  <2>3. rqq' \in [Cpu -> Seq(Ctx)] /\ home' \in [Ctx -> Cpu \cup {Off}]
    BY <1>0, <1>10, <2>1, <2>2 DEF MigrateAway, StateOK
  <2>4. /\ timers' \in [Ctx -> OrNone(Cpu)] /\ queued' \in [Ctx -> OrNone(Cpu \cup {Off})]
        /\ offLock' \in OrNone(Cpu)
    BY <1>0, <1>10, <2>1 DEF MigrateAway, StateOK, OrNone
  <2>5. info' \in [Ctx -> [cpu : Cpu \cup {Off}, done : BOOLEAN]]
    BY <1>0, <1>10, <2>1 DEF MigrateAway, StateOK
  <2>6. ready' \subseteq Ctx /\ change' \subseteq Ctx /\ finish' \subseteq Ctx
    BY <1>0, <1>10, <2>1 DEF MigrateAway, TakeChange, StateOK
  <2>7. QED
    BY <1>0, <1>10, <2>3, <2>4, <2>5, <2>6 DEF MigrateAway, StateOK
<1>11. CASE MigrateTo(c)
  <2>1. reg[c].x \in Ctx /\ reg[c].to \in Cpu
    BY <1>0, <1>11 DEF MigrateTo, LocalOK, Fits, UsesX
  <2>2. finish' \subseteq Ctx /\ timers' \in [Ctx -> OrNone(Cpu)]
    BY <1>0, <1>11, <2>1, HandleDrqType DEF MigrateTo, StateOK
  <2>3. rqq' \in [Cpu -> Seq(Ctx)]
    BY <1>0, <1>11, <2>1, QueueRequestType DEF MigrateTo, StateOK
  <2>4. QED
    BY <1>0, <1>11, <2>2, <2>3 DEF MigrateTo, StateOK
<1>12. CASE Deblock(c)
  <2>1. reg[c].x \in Ctx
    BY <1>0, <1>12 DEF Deblock, LocalOK, Fits, UsesX
  <2>2. QED
    BY <1>0, <1>12, <2>1, ReadyEnqueueType DEF Deblock, StateOK
<1>13. CASE EnqueueDrq(c)
  <2>1. reg[c].to \in Ctx /\ reg[c].item \in Ctx
    BY <1>0, <1>13 DEF EnqueueDrq, LocalOK, Fits, Sending
  <2>2. CASE home[reg[c].to] = c
    BY <1>0, <1>13, <2>1, <2>2, ExecuteDrqType DEF EnqueueDrq, StateOK
  <2>3. CASE home[reg[c].to] # c
    <3>1. drqq' = [drqq EXCEPT ![reg[c].to] = Append(@, reg[c].item)]
      BY <1>13, <2>3 DEF EnqueueDrq
    <3>2. Append(drqq[reg[c].to], reg[c].item) \in Seq(Ctx)
      BY <1>0, <2>1 DEF StateOK
    <3>3. drqq' \in [Ctx -> Seq(Ctx)]
      BY <1>0, <3>1, <3>2 DEF StateOK
    <3>4. QED
      BY <1>0, <1>13, <2>3, <3>3 DEF EnqueueDrq, StateOK
  <2>4. QED
    BY <2>2, <2>3
<1>14. CASE RereadHome(c)
  <2>1. reg[c].to \in Ctx /\ reg[c].item \in Ctx
    BY <1>0, <1>14 DEF RereadHome, LocalOK, Fits, Sending
  <2>2. CASE home[reg[c].to] = c
    BY <1>0, <1>14, <2>1, <2>2, DeqExecDrqType DEF RereadHome, StateOK
  <2>3. CASE home[reg[c].to] # c
    BY <1>0, <1>14, <2>1, <2>3 DEF RereadHome, StateOK
  <2>4. QED
    BY <2>2, <2>3
<1>15. CASE SignalDrq(c)
  <2>1. reg[c].to \in Ctx /\ reg[c].item \in Ctx /\ reg[c].cpu \in Cpu \cup {Off}
    BY <1>0, <1>15 DEF SignalDrq, LocalOK, Fits, Sending
  <2>2. CASE home[reg[c].to] = reg[c].cpu /\ reg[c].cpu = Off
    BY <1>0, <1>15, <2>1, <2>2, DeqExecDrqType DEF SignalDrq, StateOK
  <2>3. CASE home[reg[c].to] = reg[c].cpu /\ reg[c].cpu # Off
    BY <1>0, <1>15, <2>1, <2>3, QueueRequestType DEF SignalDrq, StateOK
  <2>4. CASE home[reg[c].to] # reg[c].cpu
    BY <1>0, <1>15, <2>1, <2>4 DEF SignalDrq, StateOK
  <2>5. QED
    BY <2>2, <2>3, <2>4
<1>16. CASE ExecuteRequest(c)
  <2>1. reg[c].x \in Ctx
    BY <1>0, <1>16 DEF ExecuteRequest, LocalOK, Fits, UsesX
  <2>2. drqq[reg[c].x] \in Seq(Ctx)
    BY <1>0, <2>1 DEF StateOK
  <2>3. CASE drqq[reg[c].x] = <<>>
    BY <1>0, <1>16, <2>3 DEF ExecuteRequest, StateOK
  <2>4. CASE drqq[reg[c].x] # <<>>
    <3>1. Tail(drqq[reg[c].x]) \in Seq(Ctx) /\ Head(drqq[reg[c].x]) \in Ctx
      BY <2>2, <2>4
    <3>2. drqq' \in [Ctx -> Seq(Ctx)]
      BY <1>0, <1>16, <2>4, <3>1 DEF ExecuteRequest, StateOK
    <3>3. /\ served' = served \/ \E w \in Ctx : served' = [served EXCEPT ![w] = @ + 1]
          /\ drqWait' \subseteq drqWait
      <4> DEFINE w == Head(drqq[reg[c].x])
      <4>1. CASE w = reg[c].x
        BY <1>16, <2>4, <4>1 DEF ExecuteRequest
      <4>2. CASE w # reg[c].x
        <5>1. served' = [served EXCEPT ![w] = @ + 1] /\ drqWait' = drqWait
          BY <1>16, <2>4, <4>2 DEF ExecuteRequest
        <5>2. QED
          BY <3>1, <5>1
      <4>3. QED
        BY <4>1, <4>2
    <3>4. served' \in [Ctx -> Nat]
      <4>1. ASSUME NEW w \in Ctx, served' = [served EXCEPT ![w] = @ + 1]
            PROVE  served' \in [Ctx -> Nat]
        BY <1>0, <4>1 DEF StateOK
      <4>2. CASE served' = served
        BY <1>0, <4>2 DEF StateOK
      <4>3. QED
        BY <3>3, <4>1, <4>2
    <3>5. ready' \subseteq Ctx /\ change' \subseteq Ctx /\ drqWait' \subseteq Ctx
      BY <1>0, <1>16, <2>4, <3>3 DEF ExecuteRequest, StateOK
    <3>6. QED
      BY <1>0, <1>16, <2>4, <3>2, <3>4, <3>5 DEF ExecuteRequest, StateOK
  <2>5. QED
    BY <2>3, <2>4
<1>17. CASE WakeSignal(c)
  <2>1. reg[c].x \in Ctx /\ reg[c].cpu \in Cpu \cup {Off}
    BY <1>0, <1>17 DEF WakeSignal, LocalOK, Fits, UsesX
  <2>2. rqq' \in [Cpu -> Seq(Ctx)]
    BY <1>0, <1>17, <2>1, QueueRequestType DEF WakeSignal, StateOK
  <2>3. ready' \subseteq Ctx /\ change' \subseteq Ctx
    BY <1>0, <1>17, <2>1 DEF WakeSignal, TakeChange, StateOK
  <2>4. QED
    BY <1>0, <1>17, <2>2, <2>3 DEF WakeSignal, StateOK
<1>18. CASE NextRequest(c)
  <2>1. rqq[c] # <<>> => Tail(rqq[c]) \in Seq(Ctx)
    BY <1>0 DEF StateOK
  <2>2. rqq' \in [Cpu -> Seq(Ctx)]
    BY <1>0, <1>18, <2>1 DEF NextRequest, StateOK
  <2>3. QED
    BY <1>0, <1>18, <2>2 DEF NextRequest, StateOK
<1>19. CASE ApplyRequest(c)
  <2>1. reg[c].x \in Ctx
    BY <1>0, <1>19 DEF ApplyRequest, LocalOK, Fits, UsesX
  <2>2. ready' \subseteq Ctx /\ change' \subseteq Ctx
    BY <1>0, <1>19, <2>1 DEF ApplyRequest, TakeChange, StateOK
  <2>3. finish' \subseteq Ctx /\ timers' \in [Ctx -> OrNone(Cpu)]
    BY <1>0, <1>19, <2>1 DEF ApplyRequest, FinishMigration, StateOK, OrNone
  <2>4. QED
    BY <1>0, <1>19, <2>2, <2>3 DEF ApplyRequest, StateOK
<1>20. CASE Applied(c)
  <2>1. reg[c].x \in Ctx
    BY <1>0, <1>20 DEF Applied, LocalOK, Fits, UsesX
  <2>2. finish' \subseteq Ctx /\ timers' \in [Ctx -> OrNone(Cpu)]
    BY <1>0, <1>20, <2>1, HandleDrqType DEF Applied, StateOK
  <2>3. drqReady' \subseteq Ctx
    BY <1>0, <1>20, <2>1 DEF Applied, StateOK
  <2>4. queued' \in [Ctx -> OrNone(Cpu \cup {Off})]
    BY <1>0, <1>20, <2>1, ReadyEnqueueType DEF Applied, StateOK
  <2>5. QED
    BY <1>0, <1>20, <2>2, <2>3, <2>4 DEF Applied, StateOK
<1>21. CASE IrqEnd(c)
  <2>1. finish' \subseteq Ctx /\ timers' \in [Ctx -> OrNone(Cpu)]
    BY <1>0, <1>21, HandleDrqType DEF IrqEnd, StateOK, PathsOK, OrNone
  <2>2. QED
    BY <1>0, <1>21, <2>1 DEF IrqEnd, StateOK
<1>22. ASSUME NEW y \in Ctx \cup {None}, Schedule(c, y) PROVE StateOK'
  <2>1. finish' \subseteq Ctx /\ timers' \in [Ctx -> OrNone(Cpu)]
    BY <1>0, <1>22, HandleDrqType DEF Schedule, StateOK
  <2>2. queued' \in [Ctx -> OrNone(Cpu \cup {Off})]
    BY <1>0, <1>22 DEF Schedule, StateOK, OrNone
  <2>3. ready' \subseteq Ctx /\ drqReady' \subseteq Ctx
    BY <1>0, <1>22 DEF Schedule, StateOK
  <2>4. QED
    BY <1>0, <1>22, <2>1, <2>2, <2>3 DEF Schedule, StateOK
<1>23. QED
  BY <1>1, <1>2, <1>3, <1>4, <1>5, <1>6, <1>7, <1>8, <1>9, <1>10, <1>11, <1>12, <1>13, <1>14,
     <1>15, <1>16, <1>17, <1>18, <1>19, <1>20, <1>21, <1>22 DEF Steps, KernelStep

-----------------------------------------------------------------------------
\* A step of c leaves its path where its locals fit, and gets to "away" only by
\* taking a Migration.

OnlyHere(c) == \A d \in Cpu \ {c} : pc'[d] = pc[d] /\ reg'[d] = reg[d] /\ cur'[d] = cur[d]

LEMMA FromPath ==
  ASSUME PathsOK, NEW c \in Cpu, NEW l, NEW r, PathTo(c, l, r), Fits(l, r, cur[c]), UNCHANGED cur
  PROVE  PathsOK' /\ OnlyHere(c) /\ LocalOK(c)' /\ pc'[c] = l
  BY DEF PathTo, PathsOK, OnlyHere, LocalOK

LEMMA FromPathTo ==
  ASSUME PathsOK, NEW c \in Cpu, NEW l, NEW r, PathTo(c, l, r),
         NEW x \in OrNone(Ctx), Fits(l, r, x), cur' = [cur EXCEPT ![c] = x]
  PROVE  PathsOK' /\ OnlyHere(c) /\ LocalOK(c)' /\ pc'[c] = l
<1>1. cur' \in [Cpu -> OrNone(Ctx)] /\ cur'[c] = x
  BY DEF PathsOK
<1>2. QED
  BY <1>1 DEF PathTo, PathsOK, OnlyHere, LocalOK

LEMMA FitsRun == \A x : Fits("run", Locals, x)
  BY DEF Fits, Locals, UsesX, Sending

\* handle_drq() is called of x
LEMMA FitsDrq ==
  ASSUME NEW r \in Reg, NEW x \in Ctx, NEW y, r.mq => y \in Ctx,
         NEW l \in {"run", "deblock", "rqq", "dead"}
  PROVE  Fits("drq", [r EXCEPT !.x = x, !.dret = l], y)
  BY DEF Fits, Reg, UsesX, Sending

\* a return from a path that has used x
LEMMA FitsBack ==
  ASSUME NEW r \in Reg, NEW p \in UsesX \cup Sending, NEW y, Fits(p, r, y)
  PROVE  /\ p \in UsesX => \A l \in {"run", "irqEnd", "applied", "deblock", "rqq", "dead"} :
                Fits(l, IF l = "run" THEN Locals ELSE r, y)
         /\ p \in Sending => Fits(r.eret, IF r.eret = "run" THEN Locals ELSE r, y)
  BY FitsRun DEF Fits, Reg, UsesX, Sending

PathStepOK(c) ==
    PathsOK' /\ OnlyHere(c) /\ LocalOK(c)' /\ (pc'[c] = "away" => StartMigration(c))

LEMMA PathStep ==
  ASSUME StackInv, NEW c \in Cpu, Steps(c)
  PROVE  PathStepOK(c)
<1> USE DEF PathStepOK
<1>0. /\ PathsOK /\ StateOK /\ LocalsOK
      /\ Fits(pc[c], reg[c], cur[c]) /\ reg[c] \in Reg /\ cur[c] \in OrNone(Ctx)
      /\ reg[c].mq => cur[c] \in Ctx
      /\ pc[c] = "run" => reg[c] = Locals
  BY TypeParts DEF StackInv, LocalsOK, LocalOK, PathsOK, Fits
<1>1. ASSUME NEW x \in Ctx, NEW target \in Cpu, Migrate(c, x, target) PROVE PathStepOK(c)
  <2>1. reg[c] = Locals
    BY <1>0, <1>1, MigratePath
  <2>2. PathTo(c, "home", [reg[c] EXCEPT !.x = x])
    BY <1>0, <1>1, <2>1, MigratePath DEF Back
  <2>3. UNCHANGED cur
    BY <1>0, <1>1, <2>1 DEF Migrate, flags, moves, requests
  <2>4. Fits("home", [reg[c] EXCEPT !.x = x], cur[c])
    BY <1>0, <2>2, <2>1 DEF Fits, Reg, UsesX, Sending, Locals
  <2>5. QED
    BY <1>0, <2>2, <2>3, <2>4, FromPath, <2>1
<1>2. ASSUME NEW x \in Ctx, Drq(c, x) PROVE PathStepOK(c)
  <2>1. cur[c] \in Ctx /\ reg[c] = Locals
    BY <1>0, <1>2 DEF Drq, Asks, StateOK
  <2>2. PathTo(c, "enq", [reg[c] EXCEPT !.to = x, !.item = cur[c]])
    BY <1>0, <1>2, <2>1, DrqPath DEF Back
  <2>3. UNCHANGED cur
    BY <1>0, <1>2, <2>1 DEF Drq, flags, moves, requests
  <2>4. Fits("enq", [reg[c] EXCEPT !.to = x, !.item = cur[c]], cur[c])
    BY <1>0, <2>2, <2>1 DEF Fits, Reg, UsesX, Sending, Locals
  <2>5. QED
    BY <1>0, <2>2, <2>3, <2>4, FromPath, <2>1
<1>3. ASSUME NEW x \in Ctx, Wake(c, x) PROVE PathStepOK(c)
  <2>1. reg[c] = Locals
    BY <1>0, <1>3 DEF Wake, Asks
  <2>2. \/ PathTo(c, "run", Locals)
        \/ PathTo(c, "wakeHome", [reg[c] EXCEPT !.x = x])
    BY <1>0, <1>3, <2>1, WakePath DEF Back
  <2>3. UNCHANGED cur
    BY <1>0, <1>3, <2>1 DEF Wake, flags, moves, requests
  <2>4. CASE PathTo(c, "run", Locals)
    <3>1. Fits("run", Locals, cur[c])
      BY FitsRun
    <3>2. QED
      BY <1>0, <2>3, <2>4, <3>1, FromPath, <2>1
  <2>5. CASE PathTo(c, "wakeHome", [reg[c] EXCEPT !.x = x])
    <3>1. Fits("wakeHome", [reg[c] EXCEPT !.x = x], cur[c])
      BY <1>0, <2>5, <2>1 DEF Fits, Reg, UsesX, Sending, Locals
    <3>2. QED
      BY <1>0, <2>3, <2>5, <3>1, FromPath, <2>1
  <2>6. QED
    BY <2>2, <2>4, <2>5
<1>4. CASE Wait(c) \/ LeaveMigrate(c)
  <2>1. pc[c] = "run" /\ UNCHANGED <<pc, reg, cur>>
    BY <1>4 DEF Wait, Asks, LeaveMigrate
  <2>2. QED
    BY <1>0, <2>1 DEF OnlyHere, LocalOK, PathsOK
<1>5. CASE Kill(c)
  <2>1. cur[c] \in Ctx
    BY <1>0, <1>5, KillPath
  <2>2. \/ PathTo(c, "dead", reg[c])
        \/ PathTo(c, "drq", [reg[c] EXCEPT !.x = cur[c], !.dret = "dead"])
    BY <1>0, <1>5, <2>1, KillPath DEF Back
  <2>3. UNCHANGED cur
    BY <1>0, <1>5, <2>1 DEF Kill, flags, moves, requests
  <2>4. CASE PathTo(c, "dead", reg[c])
    <3>1. Fits("dead", reg[c], cur[c])
      BY <1>0 DEF Fits, UsesX, Sending
    <3>2. QED
      BY <1>0, <2>3, <2>4, <3>1, FromPath, <2>1
  <2>5. CASE PathTo(c, "drq", [reg[c] EXCEPT !.x = cur[c], !.dret = "dead"])
    <3>1. Fits("drq", [reg[c] EXCEPT !.x = cur[c], !.dret = "dead"], cur[c])
      BY <1>0, <2>5, <2>1, FitsDrq
    <3>2. QED
      BY <1>0, <2>3, <2>5, <3>1, FromPath, <2>1
  <2>6. QED
    BY <2>2, <2>4, <2>5
<1>6. CASE ReadHome(c)
  <2>1. pc[c] = "home" /\ reg[c].x \in Ctx /\ home[reg[c].x] \in Cpu \cup {Off}
    BY <1>0, <1>6 DEF ReadHome, Fits, UsesX, StateOK
  <2>2. \/ PathTo(c, "take", [reg[c] EXCEPT !.cpu = home[reg[c].x]])
        \/ PathTo(c, "xcpu", [reg[c] EXCEPT !.cpu = home[reg[c].x]])
    BY <1>0, <1>6, <2>1, ReadHomePath DEF Back
  <2>3. UNCHANGED cur
    BY <1>0, <1>6, <2>1 DEF ReadHome, flags, moves, requests
  <2>4. CASE PathTo(c, "take", [reg[c] EXCEPT !.cpu = home[reg[c].x]])
    <3>1. Fits("take", [reg[c] EXCEPT !.cpu = home[reg[c].x]], cur[c])
      BY <1>0, <2>4, <2>1 DEF Fits, Reg, UsesX, Sending, Locals
    <3>2. QED
      BY <1>0, <2>3, <2>4, <3>1, FromPath, <2>1
  <2>5. CASE PathTo(c, "xcpu", [reg[c] EXCEPT !.cpu = home[reg[c].x]])
    <3>1. Fits("xcpu", [reg[c] EXCEPT !.cpu = home[reg[c].x]], cur[c])
      BY <1>0, <2>5, <2>1 DEF Fits, Reg, UsesX, Sending, Locals
    <3>2. QED
      BY <1>0, <2>3, <2>5, <3>1, FromPath, <2>1
  <2>6. QED
    BY <2>2, <2>4, <2>5
<1>7. CASE WakeReadHome(c)
  <2>1. pc[c] = "wakeHome" /\ reg[c].x \in Ctx /\ home[reg[c].x] \in Cpu \cup {Off}
    BY <1>0, <1>7 DEF WakeReadHome, Fits, UsesX, StateOK
  <2>2. PathTo(c, "wakeSignal", [reg[c] EXCEPT !.cpu = home[reg[c].x]])
    BY <1>0, <1>7, <2>1, WakeReadHomePath DEF Back
  <2>3. UNCHANGED cur
    BY <1>0, <1>7, <2>1 DEF WakeReadHome, flags, moves, requests
  <2>4. Fits("wakeSignal", [reg[c] EXCEPT !.cpu = home[reg[c].x]], cur[c])
    BY <1>0, <2>2, <2>1 DEF Fits, Reg, UsesX, Sending, Locals
  <2>5. QED
    BY <1>0, <2>2, <2>3, <2>4, FromPath, <2>1
<1>8. CASE IpiArrives(c)
  <2>1. pc[c] = "run" /\ reg[c] = Locals
    BY <1>0, <1>8, IpiPath
  <2>2. PathTo(c, "rqq", reg[c])
    BY <1>0, <1>8, <2>1, IpiPath DEF Back
  <2>3. UNCHANGED cur
    BY <1>0, <1>8, <2>1 DEF IpiArrives, flags, moves, requests
  <2>4. Fits("rqq", reg[c], cur[c])
    BY <1>0, <2>2, <2>1 DEF Fits, Reg, UsesX, Sending, Locals
  <2>5. QED
    BY <1>0, <2>2, <2>3, <2>4, FromPath, <2>1
<1>9. CASE MigrateXcpu(c)
  <2>1. pc[c] = "xcpu"
    BY <1>9 DEF MigrateXcpu
  <2>2. \/ PathTo(c, "run", Locals)
        \/ PathTo(c, "take", reg[c])
    BY <1>0, <1>9, <2>1, MigrateXcpuPath DEF Back
  <2>3. UNCHANGED cur
    BY <1>0, <1>9, <2>1 DEF MigrateXcpu, flags, moves, requests
  <2>4. CASE PathTo(c, "run", Locals)
    <3>1. Fits("run", Locals, cur[c])
      BY FitsRun
    <3>2. QED
      BY <1>0, <2>3, <2>4, <3>1, FromPath, <2>1
  <2>5. CASE PathTo(c, "take", reg[c])
    <3>1. Fits("take", reg[c], cur[c])
      BY <1>0, <2>5, <2>1 DEF Fits, Reg, UsesX, Sending, Locals
    <3>2. QED
      BY <1>0, <2>3, <2>5, <3>1, FromPath, <2>1
  <2>6. QED
    BY <2>2, <2>4, <2>5
<1>10. CASE StartMigration(c)
  <2>1. pc[c] = "take" /\ reg[c].x \in Ctx /\ mig[reg[c].x] \in OrNone(Ctx)
    BY <1>0, <1>10 DEF StartMigration, Fits, UsesX, StateOK
  <2>2. \/ Back(c, reg[c].mret) /\ UNCHANGED cur
        \/ /\ PathTo(c, "away", [reg[c] EXCEPT !.inf = mig[reg[c].x]])
           /\ mig[reg[c].x] # None
    BY <1>0, <1>10, StartMigrationPath
  <2>3. CASE Back(c, reg[c].mret) /\ UNCHANGED cur
    <3>1. reg[c].mret \in {"run", "irqEnd", "applied"}
      BY <1>0 DEF Reg
    <3>2. Fits(reg[c].mret, IF reg[c].mret = "run" THEN Locals ELSE reg[c], cur[c])
      BY <1>0, <2>1, <3>1, FitsBack DEF UsesX
    <3>3. QED
      BY <1>0, <2>3, <3>1, <3>2, FromPath DEF Back
  <2>4. CASE PathTo(c, "away", [reg[c] EXCEPT !.inf = mig[reg[c].x]]) /\ mig[reg[c].x] # None
    <3> DEFINE r == [reg[c] EXCEPT !.inf = mig[reg[c].x]]
               x == IF cur[c] = reg[c].x THEN None ELSE cur[c]
    <3>1. Fits("away", r, x)
      BY <1>0, <2>1, <2>4 DEF Fits, Reg, UsesX, Sending, OrNone
    <3>2. cur' = [cur EXCEPT ![c] = x]
      <4>1. CASE pc'[c] # reg[c].mret
        BY <1>0, <1>10, <4>1 DEF StartMigration, Return, Goto, PathsOK
      <4>2. CASE pc'[c] = reg[c].mret
        BY <1>0, <2>4, <4>2 DEF Reg, PathTo
      <4>3. QED
        BY <4>1, <4>2
    <3>3. x \in OrNone(Ctx)
      BY <1>0 DEF OrNone
    <3>4. PathTo(c, "away", r)
      BY <2>4
    <3> HIDE DEF r, x
    <3>5. QED
      BY <1>0, <1>10, <3>1, <3>2, <3>3, <3>4, FromPathTo
  <2>5. QED
    BY <2>2, <2>3, <2>4
<1>11. CASE MigrateAway(c)
  <2>1. pc[c] = "away" /\ reg[c].x \in Ctx /\ info[reg[c].inf].cpu \in Cpu
    BY <1>0, <1>11 DEF MigrateAway, Fits, UsesX, StackInv, MigInv, StackIsAlive
  <2>2. PathTo(c, "to", [reg[c] EXCEPT !.to = info[reg[c].inf].cpu, !.inf = None])
    BY <1>0, <1>11, <2>1, MigrateAwayPath DEF Back
  <2>3. UNCHANGED cur
    BY <1>0, <1>11, <2>1 DEF MigrateAway, flags, moves, requests
  <2>4. Fits("to", [reg[c] EXCEPT !.to = info[reg[c].inf].cpu, !.inf = None], cur[c])
    BY <1>0, <2>2, <2>1 DEF Fits, Reg, UsesX, Sending, Locals
  <2>5. QED
    BY <1>0, <2>2, <2>3, <2>4, FromPath, <2>1
<1>12. CASE MigrateTo(c)
  <2>1. pc[c] = "to" /\ reg[c].x \in Ctx /\ reg[c].mret \in {"run", "irqEnd", "applied"}
    BY <1>0, <1>12 DEF MigrateTo, Fits, UsesX, Reg
  <2>2. \/ PathTo(c, reg[c].mret, IF reg[c].mret = "run" THEN Locals ELSE reg[c])
        \/ PathTo(c, "deblock", IF "deblock" = "run" THEN Locals ELSE reg[c])
        \/ PathTo(c, "drq", [reg[c] EXCEPT !.x = reg[c].x, !.dret = "deblock"])
    BY <1>0, <1>12, <2>1, MigrateToPath DEF Back
  <2>3. UNCHANGED cur
    BY <1>0, <1>12, <2>1 DEF MigrateTo, flags, moves, requests
  <2>4. CASE PathTo(c, reg[c].mret, IF reg[c].mret = "run" THEN Locals ELSE reg[c])
    <3>1. Fits(reg[c].mret, IF reg[c].mret = "run" THEN Locals ELSE reg[c], cur[c])
      BY <1>0, <2>4, <2>1, FitsBack DEF UsesX
    <3>2. QED
      BY <1>0, <2>3, <2>4, <3>1, FromPath, <2>1
  <2>5. CASE PathTo(c, "deblock", IF "deblock" = "run" THEN Locals ELSE reg[c])
    <3>1. Fits("deblock", IF "deblock" = "run" THEN Locals ELSE reg[c], cur[c])
      BY <1>0, <2>5, <2>1, FitsBack DEF UsesX
    <3>2. QED
      BY <1>0, <2>3, <2>5, <3>1, FromPath, <2>1
  <2>6. CASE PathTo(c, "drq", [reg[c] EXCEPT !.x = reg[c].x, !.dret = "deblock"])
    <3>1. Fits("drq", [reg[c] EXCEPT !.x = reg[c].x, !.dret = "deblock"], cur[c])
      BY <1>0, <2>6, <2>1, FitsDrq
    <3>2. QED
      BY <1>0, <2>3, <2>6, <3>1, FromPath, <2>1
  <2>7. QED
    BY <2>2, <2>4, <2>5, <2>6
<1>13. CASE Deblock(c)
  <2>1. pc[c] = "deblock" /\ reg[c].mret \in {"run", "irqEnd", "applied"}
    BY <1>0, <1>13 DEF Deblock, Reg
  <2>2. PathTo(c, reg[c].mret, IF reg[c].mret = "run" THEN Locals ELSE reg[c])
    BY <1>0, <1>13, <2>1, DeblockPath DEF Back
  <2>3. UNCHANGED cur
    BY <1>0, <1>13, <2>1 DEF Deblock, flags, moves, requests
  <2>4. Fits(reg[c].mret, IF reg[c].mret = "run" THEN Locals ELSE reg[c], cur[c])
    BY <1>0, <2>2, <2>1, FitsBack DEF UsesX
  <2>5. QED
    BY <1>0, <2>2, <2>3, <2>4, FromPath, <2>1
<1>14. CASE EnqueueDrq(c)
  <2>1. pc[c] = "enq" /\ reg[c].eret \in {"run", "drq"}
    BY <1>0, <1>14 DEF EnqueueDrq, Reg
  <2>2. \/ PathTo(c, reg[c].eret, IF reg[c].eret = "run" THEN Locals ELSE reg[c])
        \/ PathTo(c, "reread", reg[c])
    BY <1>0, <1>14, <2>1, EnqueueDrqPath DEF Back
  <2>3. UNCHANGED cur
    BY <1>0, <1>14, <2>1 DEF EnqueueDrq, flags, moves, requests
  <2>4. CASE PathTo(c, reg[c].eret, IF reg[c].eret = "run" THEN Locals ELSE reg[c])
    <3>1. Fits(reg[c].eret, IF reg[c].eret = "run" THEN Locals ELSE reg[c], cur[c])
      BY <1>0, <2>4, <2>1, FitsBack DEF Sending
    <3>2. QED
      BY <1>0, <2>3, <2>4, <3>1, FromPath, <2>1
  <2>5. CASE PathTo(c, "reread", reg[c])
    <3>1. Fits("reread", reg[c], cur[c])
      BY <1>0, <2>5, <2>1 DEF Fits, Reg, UsesX, Sending, Locals
    <3>2. QED
      BY <1>0, <2>3, <2>5, <3>1, FromPath, <2>1
  <2>6. QED
    BY <2>2, <2>4, <2>5
<1>15. CASE RereadHome(c)
  <2>1. pc[c] = "reread" /\ reg[c].eret \in {"run", "drq"}
    BY <1>0, <1>15 DEF RereadHome, Reg
  <2>2. home[reg[c].to] \in Cpu \cup {Off}
    BY <1>0, <2>1 DEF StateOK, Fits, Sending
  <2>3. \/ PathTo(c, reg[c].eret, IF reg[c].eret = "run" THEN Locals ELSE reg[c])
        \/ PathTo(c, "signal", [reg[c] EXCEPT !.cpu = home[reg[c].to]])
    BY <1>0, <1>15, <2>1, <2>2, RereadHomePath DEF Back
  <2>4. UNCHANGED cur
    BY <1>0, <1>15, <2>1, <2>2 DEF RereadHome, flags, moves, requests
  <2>5. CASE PathTo(c, reg[c].eret, IF reg[c].eret = "run" THEN Locals ELSE reg[c])
    <3>1. Fits(reg[c].eret, IF reg[c].eret = "run" THEN Locals ELSE reg[c], cur[c])
      BY <1>0, <2>5, <2>1, <2>2, FitsBack DEF Sending
    <3>2. QED
      BY <1>0, <2>4, <2>5, <3>1, FromPath, <2>1, <2>2
  <2>6. CASE PathTo(c, "signal", [reg[c] EXCEPT !.cpu = home[reg[c].to]])
    <3>1. Fits("signal", [reg[c] EXCEPT !.cpu = home[reg[c].to]], cur[c])
      BY <1>0, <2>6, <2>1, <2>2 DEF Fits, Reg, UsesX, Sending, Locals
    <3>2. QED
      BY <1>0, <2>4, <2>6, <3>1, FromPath, <2>1, <2>2
  <2>7. QED
    BY <2>3, <2>5, <2>6
<1>16. CASE SignalDrq(c)
  <2>1. pc[c] = "signal" /\ reg[c].eret \in {"run", "drq"}
    BY <1>0, <1>16 DEF SignalDrq, Reg
  <2>2. PathTo(c, reg[c].eret, IF reg[c].eret = "run" THEN Locals ELSE reg[c])
    BY <1>0, <1>16, <2>1, SignalDrqPath DEF Back
  <2>3. UNCHANGED cur
    BY <1>0, <1>16, <2>1 DEF SignalDrq, flags, moves, requests
  <2>4. Fits(reg[c].eret, IF reg[c].eret = "run" THEN Locals ELSE reg[c], cur[c])
    BY <1>0, <2>2, <2>1, FitsBack DEF Sending
  <2>5. QED
    BY <1>0, <2>2, <2>3, <2>4, FromPath, <2>1
<1>17. CASE WakeSignal(c)
  <2>1. PathTo(c, "run", Locals)
    BY <1>0, <1>17, WakeSignalPath DEF Back
  <2>2. UNCHANGED cur
    BY <1>0, <1>17 DEF WakeSignal, flags, moves, requests
  <2>3. Fits("run", Locals, cur[c])
    BY FitsRun
  <2>4. QED
    BY <1>0, <2>1, <2>2, <2>3, FromPath
<1>18. CASE ExecuteRequest(c)
  <2>1. /\ pc[c] = "drq" /\ reg[c].x \in Ctx
        /\ reg[c].dret \in {"run", "deblock", "rqq", "dead"}
    BY <1>0, <1>18 DEF ExecuteRequest, Fits, UsesX, Reg
  <2>2. UNCHANGED cur
    BY <1>18 DEF ExecuteRequest
  <2>3. CASE PathTo(c, reg[c].dret, IF reg[c].dret = "run" THEN Locals ELSE reg[c])
    <3>1. Fits(reg[c].dret, IF reg[c].dret = "run" THEN Locals ELSE reg[c], cur[c])
      BY <1>0, <2>1, FitsBack DEF UsesX
    <3>2. QED
      BY <1>0, <2>1, <2>2, <2>3, <3>1, FromPath
  <2>4. CASE PathTo(c, "drq", reg[c])
    BY <1>0, <2>1, <2>2, <2>4, FromPath
  <2>5. ASSUME NEW w \in Ctx,
               PathTo(c, "enq", [reg[c] EXCEPT !.to = w, !.item = w, !.eret = "drq"])
        PROVE  PathStepOK(c)
    <3>1. Fits("enq", [reg[c] EXCEPT !.to = w, !.item = w, !.eret = "drq"], cur[c])
      BY <1>0, <2>1 DEF Fits, Reg, UsesX, Sending
    <3>2. QED
      BY <1>0, <2>2, <2>5, <3>1, FromPath
  <2>6. QED
    BY <1>0, <1>18, <2>3, <2>4, <2>5, ExecuteRequestPath DEF Back
<1>19. CASE NextRequest(c)
  <2>1. UNCHANGED cur
    BY <1>19 DEF NextRequest
  <2>2. ASSUME NEW x \in Ctx, PathTo(c, "apply", [Locals EXCEPT !.x = x, !.mq = reg[c].mq])
        PROVE  PathStepOK(c)
    <3>1. Fits("apply", [Locals EXCEPT !.x = x, !.mq = reg[c].mq], cur[c])
      BY <1>0 DEF Fits, UsesX, Sending, Locals
    <3>2. QED
      BY <1>0, <2>1, <2>2, <3>1, FromPath
  <2>3. CASE reg[c].mq /\ PathTo(c, "take", [Locals EXCEPT !.x = cur[c], !.mret = "irqEnd"])
    <3>1. Fits("take", [Locals EXCEPT !.x = cur[c], !.mret = "irqEnd"], cur[c])
      BY <1>0, <2>3 DEF Fits, UsesX, Sending, Locals
    <3>2. QED
      BY <1>0, <2>1, <2>3, <3>1, FromPath
  <2>4. CASE PathTo(c, "irqEnd", reg[c])
    <3>1. Fits("irqEnd", reg[c], cur[c])
      BY <1>0 DEF Fits, UsesX, Sending
    <3>2. QED
      BY <1>0, <2>1, <2>4, <3>1, FromPath
  <2>5. QED
    BY <1>0, <1>19, <2>2, <2>3, <2>4, NextRequestPath
<1>20. CASE ApplyRequest(c)
  <2>1. pc[c] = "apply" /\ reg[c].x \in Ctx
    BY <1>0, <1>20 DEF ApplyRequest, Fits, UsesX
  <2>2. \/ PathTo(c, "applied", reg[c])
        \/ PathTo(c, "applied", [reg[c] EXCEPT !.mq = TRUE]) /\ reg[c].x = cur[c]
        \/ PathTo(c, "take", [reg[c] EXCEPT !.mret = "applied"]) /\ reg[c].x # cur[c]
    BY <1>0, <1>20, <2>1, ApplyRequestPath DEF Back
  <2>3. UNCHANGED cur
    BY <1>0, <1>20, <2>1 DEF ApplyRequest, flags, moves, requests
  <2>4. CASE PathTo(c, "applied", reg[c])
    <3>1. Fits("applied", reg[c], cur[c])
      BY <1>0, <2>4, <2>1 DEF Fits, Reg, UsesX, Sending, Locals
    <3>2. QED
      BY <1>0, <2>3, <2>4, <3>1, FromPath, <2>1
  <2>5. CASE PathTo(c, "applied", [reg[c] EXCEPT !.mq = TRUE]) /\ reg[c].x = cur[c]
    <3>1. Fits("applied", [reg[c] EXCEPT !.mq = TRUE], cur[c])
      BY <1>0, <2>5, <2>1 DEF Fits, Reg, UsesX, Sending, Locals
    <3>2. QED
      BY <1>0, <2>3, <2>5, <3>1, FromPath, <2>1
  <2>6. CASE PathTo(c, "take", [reg[c] EXCEPT !.mret = "applied"]) /\ reg[c].x # cur[c]
    <3>1. Fits("take", [reg[c] EXCEPT !.mret = "applied"], cur[c])
      BY <1>0, <2>6, <2>1 DEF Fits, Reg, UsesX, Sending, Locals
    <3>2. QED
      BY <1>0, <2>3, <2>6, <3>1, FromPath, <2>1
  <2>7. QED
    BY <2>2, <2>4, <2>5, <2>6
<1>21. CASE Applied(c)
  <2>1. pc[c] = "applied" /\ reg[c].x \in Ctx
    BY <1>0, <1>21 DEF Applied, Fits, UsesX
  <2>2. \/ PathTo(c, "rqq", reg[c])
        \/ PathTo(c, "drq", [reg[c] EXCEPT !.x = reg[c].x, !.dret = "rqq"])
    BY <1>0, <1>21, <2>1, AppliedPath DEF Back
  <2>3. UNCHANGED cur
    BY <1>0, <1>21, <2>1 DEF Applied, flags, moves, requests
  <2>4. CASE PathTo(c, "rqq", reg[c])
    <3>1. Fits("rqq", reg[c], cur[c])
      BY <1>0, <2>4, <2>1 DEF Fits, Reg, UsesX, Sending, Locals
    <3>2. QED
      BY <1>0, <2>3, <2>4, <3>1, FromPath, <2>1
  <2>5. CASE PathTo(c, "drq", [reg[c] EXCEPT !.x = reg[c].x, !.dret = "rqq"])
    <3>1. Fits("drq", [reg[c] EXCEPT !.x = reg[c].x, !.dret = "rqq"], cur[c])
      BY <1>0, <2>5, <2>1, FitsDrq
    <3>2. QED
      BY <1>0, <2>3, <2>5, <3>1, FromPath, <2>1
  <2>6. QED
    BY <2>2, <2>4, <2>5
<1>22. CASE IrqEnd(c)
  <2>1. \/ PathTo(c, "run", Locals)
        \/ PathTo(c, "drq", [reg[c] EXCEPT !.x = cur[c], !.dret = "run"]) /\ cur[c] \in Ctx
    BY <1>0, <1>22, IrqEndPath DEF Back
  <2>2. UNCHANGED cur
    BY <1>0, <1>22 DEF IrqEnd, flags, moves, requests
  <2>3. CASE PathTo(c, "run", Locals)
    <3>1. Fits("run", Locals, cur[c])
      BY FitsRun
    <3>2. QED
      BY <1>0, <2>2, <2>3, <3>1, FromPath
  <2>4. CASE PathTo(c, "drq", [reg[c] EXCEPT !.x = cur[c], !.dret = "run"]) /\ cur[c] \in Ctx
    <3>1. Fits("drq", [reg[c] EXCEPT !.x = cur[c], !.dret = "run"], cur[c])
      BY <1>0, <2>4, FitsDrq
    <3>2. QED
      BY <1>0, <2>2, <2>4, <3>1, FromPath
  <2>5. QED
    BY <2>1, <2>3, <2>4
<1>23. CASE Dead(c)
  <2>1. None \in OrNone(Ctx)
    BY DEF OrNone
  <2>2. PathTo(c, "run", Locals)
    BY <1>0, <1>23, <2>1, DeadPath DEF Back
  <2>3. cur' = [cur EXCEPT ![c] = None]
    BY <1>0, <1>23, <2>1 DEF Dead
  <2>4. Fits("run", Locals, None)
    BY FitsRun
  <2>5. PathsOK' /\ OnlyHere(c) /\ LocalOK(c)' /\ pc'[c] = "run"
    BY <1>0, <2>2, <2>3, <2>4, FromPathTo, <2>1, Zenon
  <2>6. QED
    BY <2>5
<1>24. ASSUME NEW y \in Ctx \cup {None}, Schedule(c, y) PROVE PathStepOK(c)
  <2>1. y \in OrNone(Ctx) /\ ~ reg[c].mq
    BY <1>0, <1>24 DEF Schedule, OrNone, Locals
  <2>2. \/ PathTo(c, "run", Locals)
        \/ PathTo(c, "drq", [reg[c] EXCEPT !.x = y, !.dret = "run"]) /\ y \in Ctx
    BY <1>0, <1>24, <2>1, SchedulePath DEF Back
  <2>3. cur' = [cur EXCEPT ![c] = y]
    BY <1>0, <1>24, <2>1 DEF Schedule
  <2>4. CASE PathTo(c, "run", Locals)
    <3>1. Fits("run", Locals, y)
      BY FitsRun
    <3>2. PathsOK' /\ OnlyHere(c) /\ LocalOK(c)' /\ pc'[c] = "run"
      BY <1>0, <2>3, <2>4, <3>1, FromPathTo, <2>1, Zenon
    <3>3. QED
      BY <3>2
  <2>5. CASE PathTo(c, "drq", [reg[c] EXCEPT !.x = y, !.dret = "run"]) /\ y \in Ctx
    <3>1. Fits("drq", [reg[c] EXCEPT !.x = y, !.dret = "run"], y)
      BY <1>0, <2>5, <2>1, FitsDrq
    <3>2. PathsOK' /\ OnlyHere(c) /\ LocalOK(c)' /\ pc'[c] = "drq"
      BY <1>0, <2>3, <2>5, <3>1, FromPathTo, <2>1, Zenon
    <3>3. QED
      BY <3>2
  <2>6. QED
    BY <2>2, <2>4, <2>5
<1>25. QED
  BY <1>1, <1>2, <1>3, <1>4, <1>5, <1>6, <1>7, <1>8, <1>9, <1>10, <1>11, <1>12,
     <1>13, <1>14, <1>15, <1>16, <1>17, <1>18, <1>19, <1>20, <1>21, <1>22, <1>23,
     <1>24
     DEF Steps, KernelStep

-----------------------------------------------------------------------------
\* The other actions do not touch a Migration.
LEMMA MovesUnchanged ==
  ASSUME NEW c \in Cpu, Steps(c)
  PROVE  \/ UNCHANGED moves
         \/ \E x \in Ctx, target \in Cpu : Migrate(c, x, target)
         \/ StartMigration(c) \/ MigrateAway(c) \/ LeaveMigrate(c)
<1>1. CASE \E x \in Ctx : Drq(c, x) \/ Wake(c, x)
  BY <1>1 DEF Drq, Wake, moves
<1>2. CASE Wait(c) \/ Kill(c) \/ IpiArrives(c) \/ \E y \in Ctx \cup {None} : Schedule(c, y)
  BY <1>2 DEF Wait, Kill, IpiArrives, Schedule, moves
<1>3. CASE \/ ReadHome(c) \/ MigrateXcpu(c) \/ MigrateTo(c) \/ Deblock(c)
           \/ EnqueueDrq(c) \/ RereadHome(c) \/ SignalDrq(c) \/ ExecuteRequest(c)
  BY <1>3 DEF ReadHome, MigrateXcpu, MigrateTo, Deblock, EnqueueDrq, RereadHome, SignalDrq,
     ExecuteRequest, moves
<1>4. CASE \/ WakeReadHome(c) \/ WakeSignal(c) \/ NextRequest(c) \/ ApplyRequest(c)
           \/ Applied(c) \/ IrqEnd(c) \/ Dead(c)
  BY <1>4 DEF WakeReadHome, WakeSignal, NextRequest, ApplyRequest, Applied, IrqEnd, Dead, moves
<1>5. QED
  BY <1>1, <1>2, <1>3, <1>4 DEF Steps, KernelStep

Alive == MigInv /\ StackIsAlive

LEMMA AliveStep ==
  ASSUME StackInv, NEW c \in Cpu, Steps(c)
  PROVE  Alive'
<1> USE DEF Alive, MigInv, StackIsAlive
<1>0. /\ PathsOK /\ StateOK /\ LocalsOK /\ LocalOK(c) /\ Alive
      /\ PathsOK' /\ OnlyHere(c) /\ (pc'[c] = "away" => StartMigration(c))
  BY TypeParts, PathStep DEF StackInv, LocalsOK, PathStepOK
<1>1. ASSUME \A d \in Cpu : pc'[d] = "away" => pc[d] = "away" /\ reg'[d] = reg[d],
             UNCHANGED moves
      PROVE  Alive'
  BY <1>0, <1>1 DEF moves
<1>2. CASE ~ StartMigration(c)
  <2>1. \A d \in Cpu : pc'[d] = "away" => pc[d] = "away" /\ reg'[d] = reg[d] /\ d # c
    BY <1>0, <1>2 DEF OnlyHere
  <2>2. CASE UNCHANGED moves
    BY <1>1, <2>1, <2>2
  <2>3. ASSUME NEW x \in Ctx, NEW target \in Cpu, Migrate(c, x, target)
        PROVE  Alive'
    <3> DEFINE w == cur[c]
               old == mig[x]
    <3>1. w \in Ctx /\ w \notin spin /\ target \in Cpu
      BY <1>0, <2>3 DEF Migrate, Asks, StateOK
    <3>2. /\ mig' = [mig EXCEPT ![x] = w] /\ spin' = spin \cup {w}
          /\ info' = [v \in Ctx |-> IF v = w THEN [cpu |-> target, done |-> FALSE]
                                   ELSE IF v = old THEN [info[v] EXCEPT !.done = TRUE]
                                   ELSE info[v]]
      BY <2>3 DEF Migrate
    <3> HIDE DEF w
    <3>3. /\ \A y \in Ctx : mig[y] # w
          /\ \A d \in Cpu : pc[d] = "away" => reg[d].inf # w
      BY <1>0, <3>1, MigrationAssumption
    <3>4. \A v \in Ctx : /\ v # w /\ v # old => info'[v] = info[v]
                         /\ v = w => info'[v] = [cpu |-> target, done |-> FALSE]
                         /\ v # w /\ v = old => info'[v].done
      <4>1. ASSUME NEW v \in Ctx, v # w, v = old PROVE info'[v].done
        <5>1. info[v] \in [cpu : Cpu \cup {Off}, done : BOOLEAN]
          BY <1>0 DEF StateOK
        <5>2. info'[v] = [info[v] EXCEPT !.done = TRUE]
          BY <3>2, <4>1
        <5>3. QED
          BY <5>1, <5>2
      <4>2. QED
        BY <3>2, <4>1
    <3>5. \A y \in Ctx : mig'[y] = IF y = x THEN w ELSE mig[y]
      BY <1>0, <3>2 DEF StateOK
    <3>6. \A d \in Cpu : pc[d] = "away" => reg[d].inf # old /\ reg[d].inf \in Ctx
      BY <1>0 DEF LocalsOK, LocalOK, Fits
    <3>7. \A y \in Ctx : y # x /\ mig[y] # None => mig[y] # old /\ mig[y] \in Ctx
      BY <1>0 DEF StateOK, OrNone
    <3> HIDE DEF old
    <3>8. (\A y \in Ctx : ~ info'[y].done => info'[y].cpu \in Cpu)
      BY <1>0, <3>1, <3>4
    <3>9. /\ \A y, z \in Ctx : mig'[y] = mig'[z] /\ mig'[y] # None => y = z
          /\ \A d \in Cpu, y \in Ctx : pc'[d] = "away" => reg'[d].inf # mig'[y]
          /\ \A d, e \in Cpu : pc'[d] = "away" /\ pc'[e] = "away" /\ reg'[d].inf = reg'[e].inf
                => d = e
      BY <1>0, <2>1, <3>3, <3>5
    <3>10. /\ \A y \in Ctx : mig'[y] # None => mig'[y] \in spin' /\ ~ info'[mig'[y]].done
           /\ \A d \in Cpu : pc'[d] = "away" =>
                 reg'[d].inf \in spin' /\ ~ info'[reg'[d].inf].done
      BY <1>0, <2>1, <3>1, <3>2, <3>3, <3>4, <3>5, <3>6, <3>7
    <3>11. QED
      BY <3>8, <3>9, <3>10
  <2>4. CASE MigrateAway(c)
    <3> DEFINE m == reg[c].inf
    <3>1. pc[c] = "away" /\ m \in Ctx /\ UNCHANGED <<mig, spin>>
      BY <1>0, <2>4 DEF MigrateAway, LocalOK, Fits
    <3>2. info' = [info EXCEPT ![m].done = TRUE]
      BY <2>4 DEF MigrateAway
    <3>3. /\ \A y \in Ctx : mig[y] # m
          /\ \A d \in Cpu \ {c} : pc[d] = "away" => reg[d].inf # m /\ reg[d].inf \in Ctx
      BY <1>0, <3>1 DEF LocalsOK, LocalOK, Fits
    <3>4. \A y \in Ctx : mig[y] # None => mig[y] \in Ctx
      BY <1>0 DEF StateOK, OrNone
    <3> HIDE DEF m
    <3>5. \A v \in Ctx : (v # m => info'[v] = info[v]) /\ (v = m => info'[v].done)
      <4>1. ASSUME NEW v \in Ctx PROVE (v # m => info'[v] = info[v]) /\ (v = m => info'[v].done)
        <5>1. info[v] \in [cpu : Cpu \cup {Off}, done : BOOLEAN]
          BY <1>0 DEF StateOK
        <5>2. QED
          BY <1>0, <3>2, <5>1 DEF StateOK
      <4>2. QED
        BY <4>1
    <3>6. QED
      BY <1>0, <2>1, <3>1, <3>3, <3>4, <3>5
  <2>5. CASE LeaveMigrate(c)
    BY <1>0, <2>1, <2>5 DEF LeaveMigrate
  <2>6. QED
    BY <1>2, <2>2, <2>3, <2>4, <2>5, MovesUnchanged
<1>3. CASE StartMigration(c)
  <2> DEFINE x == reg[c].x
             m == mig[x]
  <2>1. pc[c] = "take" /\ x \in Ctx
    BY <1>0, <1>3 DEF StartMigration, LocalOK, Fits, UsesX
  <2>2. UNCHANGED spin /\ \A y \in Ctx : mig'[y] = IF y = x THEN None ELSE mig[y]
    BY <1>0, <1>3, <2>1 DEF StartMigration, StateOK
  <2>3. \A y \in Ctx : mig[y] # None => mig[y] \in Ctx
    BY <1>0 DEF StateOK, OrNone
  <2>4. CASE m # None /\ pc'[c] = "away"
    <3>1. reg'[c].inf = m /\ UNCHANGED info
      <4>1. reg[c].mret # "away"
        BY <1>0 DEF PathsOK, Reg
      <4>2. PathTo(c, "away", [reg[c] EXCEPT !.inf = m])
        BY <1>0, <1>3, <2>4, <4>1, StartMigrationPath DEF Back, PathTo
      <4>3. pc' # [pc EXCEPT ![c] = reg[c].mret]
        BY <1>0, <2>4, <4>1 DEF PathsOK
      <4>4. UNCHANGED info
        BY <1>3, <4>3 DEF StartMigration, Return, Goto
      <4>5. reg[c] \in Reg
        BY <1>0 DEF PathsOK
      <4>6. QED
        BY <4>2, <4>4, <4>5 DEF PathTo, Reg
    <3>2. \A d \in Cpu : pc'[d] = "away" /\ d # c => pc[d] = "away" /\ reg'[d] = reg[d]
      BY <1>0 DEF OnlyHere
    <3>3. m \in Ctx
      BY <2>1, <2>3, <2>4
    <3>4. /\ \A y \in Ctx : y # x /\ mig[y] # None => mig[y] # m
          /\ \A d \in Cpu : pc[d] = "away" => reg[d].inf # m /\ reg[d].inf \in Ctx
          /\ m \in spin /\ ~ info[m].done
      BY <1>0, <2>1, <2>4 DEF LocalsOK, LocalOK, Fits
    <3> HIDE DEF m, x
    <3>5. /\ \A y \in Ctx : ~ info'[y].done => info'[y].cpu \in Cpu
          /\ \A y, z \in Ctx : mig'[y] = mig'[z] /\ mig'[y] # None => y = z
      BY <1>0, <2>2, <3>1
    <3>6. /\ \A d \in Cpu, y \in Ctx : pc'[d] = "away" => reg'[d].inf # mig'[y]
          /\ \A d, e \in Cpu : pc'[d] = "away" /\ pc'[e] = "away" /\ reg'[d].inf = reg'[e].inf
                => d = e
      BY <1>0, <2>2, <3>1, <3>2, <3>3, <3>4, MigrationAssumption
    <3>7. /\ \A y \in Ctx : mig'[y] # None => mig'[y] \in spin' /\ ~ info'[mig'[y]].done
          /\ \A d \in Cpu : pc'[d] = "away" =>
                reg'[d].inf \in spin' /\ ~ info'[reg'[d].inf].done
      BY <1>0, <2>2, <3>1, <3>2, <3>4
    <3>8. QED
      BY <3>5, <3>6, <3>7
  <2>5. CASE pc'[c] # "away"
    <3>1. \A d \in Cpu : pc'[d] = "away" => pc[d] = "away" /\ reg'[d] = reg[d]
      BY <1>0, <2>5 DEF OnlyHere
    <3>2. UNCHANGED info \/ (m # None /\ info' = [info EXCEPT ![m].done = TRUE])
      BY <1>0, <1>3, <2>5 DEF StartMigration, Goto, PathsOK
    <3>3. \A d \in Cpu : pc[d] = "away" => reg[d].inf # m /\ reg[d].inf \in Ctx
      BY <1>0, <2>1 DEF LocalsOK, LocalOK, Fits
    <3>4. \A y \in Ctx : y # x /\ mig[y] # None => mig[y] # m
      BY <1>0, <2>1
    <3>5. \A v \in Ctx : /\ v # m => info'[v] = info[v]
                         /\ v = m => info'[v] = info[v] \/ info'[v].done
      <4>1. ASSUME NEW v \in Ctx
            PROVE  /\ v # m => info'[v] = info[v]
                   /\ v = m => info'[v] = info[v] \/ info'[v].done
        <5>1. info[v] \in [cpu : Cpu \cup {Off}, done : BOOLEAN]
          BY <1>0 DEF StateOK
        <5> HIDE DEF m
        <5>2. QED
          BY <1>0, <3>2, <5>1 DEF StateOK
      <4>2. QED
        BY <4>1
    <3> HIDE DEF x, m
    <3>6. /\ \A y \in Ctx : ~ info'[y].done => info'[y].cpu \in Cpu
          /\ \A y, z \in Ctx : mig'[y] = mig'[z] /\ mig'[y] # None => y = z
      BY <1>0, <2>2, <3>5
    <3>7. /\ \A d \in Cpu, y \in Ctx : pc'[d] = "away" => reg'[d].inf # mig'[y]
          /\ \A d, e \in Cpu : pc'[d] = "away" /\ pc'[e] = "away" /\ reg'[d].inf = reg'[e].inf
                => d = e
      BY <1>0, <2>2, <3>1, <3>3, MigrationAssumption
    <3>8. /\ \A y \in Ctx : mig'[y] # None => mig'[y] \in spin' /\ ~ info'[mig'[y]].done
          /\ \A d \in Cpu : pc'[d] = "away" =>
                reg'[d].inf \in spin' /\ ~ info'[reg'[d].inf].done
      BY <1>0, <2>2, <2>3, <3>1, <3>3, <3>4, <3>5
    <3>9. QED
      BY <3>6, <3>7, <3>8
  <2>6. m = None => pc'[c] # "away"
    <3>1. m = None => pc' = [pc EXCEPT ![c] = reg[c].mret]
      BY <1>3 DEF StartMigration, Return, Goto
    <3>2. QED
      BY <1>0, <3>1 DEF PathsOK, Reg
  <2>7. QED
    BY <2>4, <2>5, <2>6
<1>4. QED
  BY <1>2, <1>3

LEMMA StackInit == Init => StackInv
<1> SUFFICES ASSUME Init PROVE StackInv
  OBVIOUS
<1>1. TypeOK
  <2>1. ready \subseteq Ctx
    BY MigrationAssumption DEF Init
  <2>2. pc \in [Cpu -> Labels] /\ reg \in [Cpu -> Reg]
    BY LocalsType DEF Init, Labels
  <2>3. queued \in [Ctx -> OrNone(Cpu \cup {Off})] /\ timers \in [Ctx -> OrNone(Cpu)]
    BY MigrationAssumption DEF Init, OrNone
  <2>4. QED
    BY <2>1, <2>2, <2>3, MigrationAssumption DEF Init, TypeOK, OrNone
<1>2. LocalsOK
  BY FitsRun DEF Init, LocalsOK, LocalOK
<1>3. MigInv /\ StackIsAlive
  BY DEF Init, MigInv, StackIsAlive
<1>4. QED
  BY <1>1, <1>2, <1>3 DEF StackInv

LEMMA StackStep == StackInv /\ [Next]_vars => StackInv'
<1> SUFFICES ASSUME StackInv, [Next]_vars PROVE StackInv'
  OBVIOUS
<1>1. CASE UNCHANGED vars
  BY <1>1 DEF vars, flags, moves, requests, StackInv, TypeOK, LocalsOK, LocalOK, MigInv,
     StackIsAlive
<1>2. ASSUME NEW c \in Cpu, Steps(c) PROVE StackInv'
  <2>1. StateOK' /\ PathStepOK(c) /\ Alive'
    BY <1>2, StateStep, PathStep, AliveStep
  <2>2. LocalsOK'
    BY <2>1 DEF PathStepOK, OnlyHere, StackInv, LocalsOK, LocalOK
  <2>3. QED
    BY <2>1, <2>2, TypeParts DEF PathStepOK, StackInv, Alive
<1>3. QED
  BY <1>1, <1>2, NextSteps

LEMMA StackAlways == Spec => []StackInv
<1>1. QED
  BY StackInit, StackStep, PTL DEF Spec

\* Every variable keeps its type, wherever contexts go and whoever handles them.
THEOREM MigrationTypeCorrect == Spec => []TypeOK
<1>1. StackInv => TypeOK
  BY DEF StackInv
<1>2. QED
  BY <1>1, StackAlways, PTL

\* Nobody looks at the Migration of a caller of migrate() who has returned: it is taken
\* by one CPU only, or replaced, and flagged as done after its last use.
THEOREM MigrationStackIsAlive == Spec => []StackIsAlive
<1>1. StackInv => StackIsAlive
  BY DEF StackInv
<1>2. QED
  BY <1>1, StackAlways, PTL

-----------------------------------------------------------------------------
\* Who changes _home_cpu, and the lock of the offline CPU.

LEMMA HomeUnchanged ==
  ASSUME NEW c \in Cpu, Steps(c)
  PROVE  UNCHANGED home \/ MigrateAway(c) \/ Kill(c)
<1>1. CASE \/ \E x \in Ctx, target \in Cpu : Migrate(c, x, target)
           \/ \E x \in Ctx : Drq(c, x) \/ Wake(c, x)
  BY <1>1 DEF Migrate, Drq, Wake
<1>2. CASE \/ Wait(c) \/ LeaveMigrate(c) \/ IpiArrives(c)
           \/ \E y \in Ctx \cup {None} : Schedule(c, y)
  BY <1>2 DEF Wait, LeaveMigrate, IpiArrives, Schedule
<1>3. CASE \/ ReadHome(c) \/ MigrateXcpu(c) \/ StartMigration(c) \/ MigrateTo(c) \/ Deblock(c)
           \/ EnqueueDrq(c) \/ RereadHome(c) \/ SignalDrq(c) \/ ExecuteRequest(c)
  BY <1>3 DEF ReadHome, MigrateXcpu, StartMigration, MigrateTo, Deblock, EnqueueDrq,
     RereadHome, SignalDrq, ExecuteRequest
<1>4. CASE \/ WakeReadHome(c) \/ WakeSignal(c) \/ NextRequest(c) \/ ApplyRequest(c)
           \/ Applied(c) \/ IrqEnd(c) \/ Dead(c)
  BY <1>4 DEF WakeReadHome, WakeSignal, NextRequest, ApplyRequest, Applied, IrqEnd, Dead
<1>5. QED
  BY <1>1, <1>2, <1>3, <1>4 DEF Steps, KernelStep

LEMMA OffLockUnchanged ==
  ASSUME NEW c \in Cpu, Steps(c)
  PROVE  UNCHANGED offLock \/ offLock \in {c, None}
<1>1. CASE \/ \E x \in Ctx, target \in Cpu : Migrate(c, x, target)
           \/ \E x \in Ctx : Drq(c, x) \/ Wake(c, x)
  BY <1>1 DEF Migrate, Drq, Wake
<1>2. CASE \/ Wait(c) \/ Kill(c) \/ LeaveMigrate(c) \/ IpiArrives(c)
           \/ \E y \in Ctx \cup {None} : Schedule(c, y)
  BY <1>2 DEF Wait, Kill, LeaveMigrate, IpiArrives, Schedule
<1>3. CASE MigrateXcpu(c) \/ StartMigration(c) \/ MigrateAway(c)
  BY <1>3 DEF MigrateXcpu, StartMigration, MigrateAway
<1>4. CASE \/ ReadHome(c) \/ MigrateTo(c) \/ Deblock(c)
           \/ EnqueueDrq(c) \/ RereadHome(c) \/ SignalDrq(c) \/ ExecuteRequest(c)
  BY <1>4 DEF ReadHome, MigrateTo, Deblock, EnqueueDrq, RereadHome, SignalDrq, ExecuteRequest
<1>5. CASE \/ WakeReadHome(c) \/ WakeSignal(c) \/ NextRequest(c) \/ ApplyRequest(c)
           \/ Applied(c) \/ IrqEnd(c) \/ Dead(c)
  BY <1>5 DEF WakeReadHome, WakeSignal, NextRequest, ApplyRequest, Applied, IrqEnd, Dead
<1>6. QED
  BY <1>1, <1>2, <1>3, <1>4, <1>5 DEF Steps, KernelStep

\* Whatever is left alone by c stays at home where it is.
LEMMA OthersStay ==
  ASSUME StackInv, HomeInv, NEW c \in Cpu, Steps(c)
  PROVE  /\ \A x \in Ctx : home[x] \notin {c, Off} => home'[x] = home[x]
         /\ \A x \in Ctx : home[x] = Off /\ home'[x] # Off =>
               offLock = c /\ MigrateAway(c) /\ reg[c].x = x
<1>0. StateOK /\ LocalsOK
  BY TypeParts DEF StackInv
<1>1. CASE UNCHANGED home
  BY <1>1
<1>2. CASE MigrateAway(c)
  <2>1. pc[c] = "away" /\ reg[c].x \in Ctx
    BY <1>0, <1>2 DEF MigrateAway, LocalsOK, LocalOK, Fits, UsesX
  <2>2. home[reg[c].x] = c \/ (home[reg[c].x] = Off /\ offLock = c)
    BY <2>1 DEF HomeInv, CpuInv, PathAt
  <2>3. \A x \in Ctx : x # reg[c].x => home'[x] = home[x]
    BY <1>0, <1>2 DEF MigrateAway, StateOK
  <2>4. QED
    BY <1>2, <2>1, <2>2, <2>3, MigrationAssumption
<1>3. CASE Kill(c)
  <2>1. \A x \in Ctx : home'[x] = IF x = cur[c] THEN Off ELSE home[x]
    BY <1>0, <1>3 DEF Kill, StateOK
  <2>2. pc[c] = "run" /\ cur[c] \in Ctx
    BY <1>0, <1>3 DEF Kill, Asks, StateOK
  <2>3. home[cur[c]] \in {c, Off}
    BY <2>2, MigrationAssumption DEF HomeInv, CpuInv, CurAt, Here
  <2>4. QED
    BY <2>1, <2>3
<1>4. QED
  BY <1>1, <1>2, <1>3, HomeUnchanged

\* Who runs with interrupts on, or handles requests, is here.
LEMMA RunsHere ==
  ASSUME StackInv, HomeInv, NEW c \in Cpu, cur[c] # None,
         pc[c] \notin Sending \cup {"drq", "dead"}
  PROVE  cur[c] \in Ctx /\ home[cur[c]] = c
  BY DEF StackInv, TypeOK, OrNone, HomeInv, CpuInv, CurAt, DyingAt, Here

-----------------------------------------------------------------------------
\* The last DRQs of a context that exits.

LEMMA IntoMoving ==
  ASSUME StackInv, HomeInv, NEW c \in Cpu, Steps(c), pc'[c] \in Moving
  PROVE  \/ pc[c] \in Moving /\ reg'[c].x = reg[c].x /\ UNCHANGED home
         \/ \E x \in Ctx, target \in Cpu : Migrate(c, x, target) /\ reg'[c].x = x
         \/ home[reg'[c].x] = c /\ UNCHANGED home
<1>0. /\ PathsOK /\ StateOK /\ LocalsOK /\ Fits(pc[c], reg[c], cur[c]) /\ reg[c] \in Reg
      /\ pc[c] = "run" => reg[c] = Locals
  BY TypeParts DEF StackInv, LocalsOK, LocalOK, PathsOK, Fits
<1> USE DEF Moving, PathTo, Back
<1>1. ASSUME NEW x \in Ctx, NEW target \in Cpu, Migrate(c, x, target)
      PROVE  reg'[c].x = x
  <2>1. reg'[c] = [reg[c] EXCEPT !.x = x]
    BY <1>0, <1>1, MigratePath
  <2>2. QED
    BY <1>0, <2>1 DEF Reg
<1>2. CASE ReadHome(c)
  BY <1>0, <1>2, ReadHomePath DEF Reg, ReadHome
<1>3. CASE MigrateXcpu(c)
  BY <1>0, <1>3, MigrateXcpuPath DEF MigrateXcpu
<1>4. CASE StartMigration(c)
  BY <1>0, <1>4, StartMigrationPath DEF StartMigration, Reg
<1>5. CASE NextRequest(c)
  <2>1. pc[c] = "rqq" /\ UNCHANGED home
    BY <1>5 DEF NextRequest
  <2>2. reg[c].mq /\ PathTo(c, "take", [Locals EXCEPT !.x = cur[c], !.mret = "irqEnd"])
    BY <1>0, <1>5, NextRequestPath
  <2>3. cur[c] \in Ctx
    BY <1>0, <2>2 DEF Fits
  <2>4. home[cur[c]] = c
    BY <2>1, <2>3, RunsHere, MigrationAssumption DEF Sending
  <2>5. reg'[c].x = cur[c]
    BY <2>2 DEF Locals
  <2>6. QED
    BY <2>1, <2>4, <2>5
<1>6. CASE ApplyRequest(c)
  <2>1. pc[c] = "apply" /\ UNCHANGED home
    BY <1>6 DEF ApplyRequest
  <2>2. home[reg[c].x] = c
    BY <2>1 DEF HomeInv, CpuInv, PathAt
  <2>3. reg'[c].x = reg[c].x
    BY <1>0, <1>6, ApplyRequestPath DEF Reg
  <2>4. QED
    BY <2>1, <2>2, <2>3
<1>7. CASE Wait(c) \/ LeaveMigrate(c)
  BY <1>0, <1>7 DEF Wait, LeaveMigrate, Asks
<1>8. CASE Kill(c) \/ IpiArrives(c) \/ MigrateAway(c) \/ Dead(c)
  <2>1. CASE MigrateAway(c)
    <3>1. info[reg[c].inf].cpu \in Cpu
      BY <1>0, <2>1 DEF MigrateAway, Fits, StackInv, MigInv, StackIsAlive
    <3>2. QED
      BY <1>0, <2>1, <3>1, MigrateAwayPath
  <2>2. QED
    BY <1>0, <1>8, <2>1, KillPath, IpiPath, DeadPath
<1>9. CASE MigrateTo(c) \/ Deblock(c) \/ ExecuteRequest(c)
  BY <1>0, <1>9, MigrateToPath, DeblockPath, ExecuteRequestPath DEF Reg
<1>10. CASE EnqueueDrq(c) \/ RereadHome(c) \/ SignalDrq(c)
  BY <1>0, <1>10, EnqueueDrqPath, RereadHomePath, SignalDrqPath DEF Reg
<1>11. CASE WakeReadHome(c) \/ WakeSignal(c) \/ Applied(c) \/ IrqEnd(c)
  BY <1>0, <1>11, WakeReadHomePath, WakeSignalPath, AppliedPath, IrqEndPath
<1>12. ASSUME NEW x \in Ctx, Drq(c, x) \/ Wake(c, x) PROVE FALSE
  BY <1>0, <1>12, DrqPath, WakePath
<1>13. ASSUME NEW y \in Ctx \cup {None}, Schedule(c, y) PROVE FALSE
  BY <1>0, <1>13, SchedulePath
<1>14. QED
  BY <1>1, <1>2, <1>3, <1>4, <1>5, <1>6, <1>7, <1>8, <1>9, <1>10, <1>11, <1>12, <1>13
     DEF Steps, KernelStep

-----------------------------------------------------------------------------
\* What a step of c leaves of the other CPUs.
LEMMA OthersKeep ==
  ASSUME Careful, StackInv, HomeInv, NEW c \in Cpu, Steps(c), NEW d \in Cpu, d # c
  PROVE  DyingAt(d)' /\ CurAt(d)' /\ PathAt(d)'
<1>0. /\ PathsOK /\ StateOK /\ LocalsOK /\ LocalOK(c) /\ LocalOK(d)
      /\ DyingAt(d) /\ CurAt(d) /\ PathAt(d)
      /\ pc'[d] = pc[d] /\ reg'[d] = reg[d] /\ cur'[d] = cur[d]
  BY TypeParts, PathStep DEF PathStepOK, OnlyHere, StackInv, LocalsOK, HomeInv, CpuInv
<1>1. \A x \in Ctx : home[x] = d => home'[x] = d
  BY OthersStay, MigrationAssumption
<1>2. \A x \in Ctx : home[x] = Off /\ offLock # c => home'[x] = Off
  BY OthersStay
<1>3. offLock = d => offLock' = d
  BY OffLockUnchanged, MigrationAssumption
<1>4. ASSUME reg[d].dret = "dead"
      PROVE  /\ home'[cur[d]] = Off /\ mig'[cur[d]] = None
             /\ \A e \in Cpu : pc'[e] \in Moving => reg'[e].x # cur[d]
  <2>1. /\ cur[d] \in Ctx /\ cur[d] = reg[d].x /\ home[cur[d]] = Off /\ mig[cur[d]] = None
        /\ \A e \in Cpu : pc[e] \in Moving => reg[e].x # cur[d]
    BY <1>0, <1>4 DEF DyingAt
  <2>2. home'[cur[d]] = Off
    <3>1. MigrateAway(c) => reg[c].x # cur[d]
      BY <2>1 DEF MigrateAway, Moving
    <3>2. QED
      BY <2>1, <3>1, OthersStay
  <2>3. ASSUME NEW target \in Cpu, Migrate(c, cur[d], target) PROVE FALSE
    <3>1. ~ BeingMoved(cur[d])
      BY <2>1, <2>3 DEF Migrate
    <3>2. QED
      BY <1>4, <2>1, <3>1 DEF BeingMoved
  <2>4. mig'[cur[d]] = None
    <3>1. CASE UNCHANGED moves \/ MigrateAway(c) \/ LeaveMigrate(c)
      BY <2>1, <3>1 DEF moves, MigrateAway, LeaveMigrate
    <3>2. CASE StartMigration(c)
      BY <1>0, <2>1, <3>2 DEF StartMigration, StateOK
    <3>3. ASSUME NEW x \in Ctx, NEW target \in Cpu, Migrate(c, x, target)
          PROVE  mig'[cur[d]] = None
      <4>1. x # cur[d]
        BY <2>3, <3>3
      <4>2. QED
        BY <1>0, <2>1, <3>3, <4>1 DEF Migrate, StateOK
    <3>4. QED
      BY <3>1, <3>2, <3>3, MovesUnchanged
  <2>5. ASSUME pc'[c] \in Moving PROVE reg'[c].x # cur[d]
    <3>1. CASE pc[c] \in Moving /\ reg'[c].x = reg[c].x
      BY <2>1, <3>1
    <3>2. ASSUME NEW x \in Ctx, NEW target \in Cpu, Migrate(c, x, target), reg'[c].x = x
          PROVE  reg'[c].x # cur[d]
      BY <2>3, <3>2
    <3>3. CASE home[reg'[c].x] = c
      BY <2>1, <3>3, MigrationAssumption
    <3>4. QED
      BY <2>5, <3>1, <3>2, <3>3, IntoMoving
  <2>6. \A e \in Cpu \ {c} : pc'[e] = pc[e] /\ reg'[e] = reg[e]
    BY PathStep DEF PathStepOK, OnlyHere
  <2>7. QED
    BY <2>1, <2>2, <2>4, <2>5, <2>6
<1>5. DyingAt(d)'
  BY <1>0, <1>4 DEF DyingAt
<1>6. CurAt(d)'
  <2>1. cur[d] \in OrNone(Ctx)
    BY <1>0 DEF PathsOK
  <2>2. QED
    BY <1>0, <1>1, <1>4, <2>1 DEF CurAt, Here, OrNone
<1>7. PathAt(d)'
  <2>1. /\ pc[d] \in UsesX => reg[d].x \in Ctx
        /\ pc[d] \in Sending /\ reg[d].eret = "drq" => reg[d].x \in Ctx
    BY <1>0 DEF LocalOK, Fits
  <2>2. reg[d].dret = "dead" => reg[d].x = cur[d]
    BY <1>0 DEF DyingAt
  <2>3. ASSUME pc[d] = "apply" PROVE home'[reg[d].x] = d
    BY <1>0, <1>1, <2>1, <2>3 DEF PathAt, UsesX
  <2>4. ASSUME pc[d] \in {"drq", "deblock"} \/ (pc[d] \in Sending /\ reg[d].eret = "drq")
        PROVE  home'[reg[d].x] = d \/ (home'[reg[d].x] = Off /\ reg[d].dret = "dead")
    <3>1. Here(d, reg[d].x) /\ reg[d].x \in Ctx
      BY <1>0, <2>1, <2>4 DEF PathAt, UsesX
    <3>2. QED
      BY <1>1, <1>4, <2>2, <3>1 DEF Here
  <2>5. ASSUME pc[d] \in {"take", "away"}
        PROVE  home'[reg[d].x] = d \/ (home'[reg[d].x] = Off /\ offLock' = d)
    <3>1. reg[d].x \in Ctx
      BY <2>1, <2>5 DEF UsesX
    <3>2. QED
      BY <1>0, <1>1, <1>2, <1>3, <2>5, <3>1 DEF PathAt
  <2>6. QED
    BY <1>0, <2>3, <2>4, <2>5 DEF PathAt, Here
<1>8. QED
  BY <1>5, <1>6, <1>7

\* What a step of c has to leave of its own path, unless its context exits.
Self(c) == DyingAt(c) /\ CurAt(c) /\ PathAt(c)

LEMMA SelfFrom ==
  ASSUME NEW c \in Cpu, reg'[c].dret # "dead",
         cur'[c] # None => home'[cur'[c]] = c,
         pc'[c] = "away" => cur'[c] # reg'[c].x,
         pc'[c] \in {"apply", "drq", "deblock"} \/ (pc'[c] \in Sending /\ reg'[c].eret = "drq")
            => home'[reg'[c].x] = c,
         pc'[c] \in {"take", "away"} =>
            home'[reg'[c].x] = c \/ (home'[reg'[c].x] = Off /\ offLock' = c)
  PROVE  Self(c)'
  BY DEF Self, DyingAt, CurAt, PathAt, Here

\* A context that exits goes on with its DRQs, and then stops.
LEMMA DyingStep ==
  ASSUME StackInv, HomeInv, NEW c \in Cpu, Steps(c), reg[c].dret = "dead"
  PROVE  Self(c)'
<1>0. /\ PathsOK /\ StateOK /\ LocalsOK /\ reg[c] \in Reg
      /\ DyingAt(c) /\ OnlyHere(c)
      /\ pc[c] \in Sending \cup {"drq", "dead"}
      /\ pc[c] \in Sending => reg[c].eret = "drq"
      /\ cur[c] = reg[c].x /\ cur[c] \in Ctx
      /\ home[cur[c]] = Off /\ mig[cur[c]] = None
      /\ \A d \in Cpu : pc[d] \in Moving => reg[d].x # cur[c]
  BY PathStep, TypeParts DEF PathStepOK, StackInv, HomeInv, CpuInv, DyingAt, PathsOK
<1>1. CASE Dead(c)
  <2>1. PathTo(c, "run", Locals) /\ cur'[c] = None
    BY <1>0, <1>1, DeadPath DEF Back, Dead, PathsOK
  <2>2. QED
    BY <2>1, SelfFrom DEF PathTo, Locals, Sending
<1>2. ASSUME UNCHANGED <<home, mig, cur>>,
             pc'[c] \in Sending \cup {"drq", "dead"}, pc'[c] \in Sending => reg'[c].eret = "drq",
             reg'[c].dret = "dead", reg'[c].x = reg[c].x
      PROVE  Self(c)'
  <2>1. DyingAt(c)'
    <3>1. \A d \in Cpu : pc'[d] \in Moving => reg'[d].x # cur[c]
      BY <1>0, <1>2 DEF OnlyHere, Moving, Sending
    <3>2. QED
      BY <1>0, <1>2, <3>1 DEF DyingAt
  <2>2. CurAt(c)' /\ PathAt(c)'
    BY <1>0, <1>2 DEF CurAt, PathAt, Here, Sending
  <2>3. QED
    BY <2>1, <2>2 DEF Self
<1>3. CASE EnqueueDrq(c) \/ RereadHome(c) \/ SignalDrq(c) \/ ExecuteRequest(c)
  <2>1. UNCHANGED <<home, mig, cur>>
    BY <1>3 DEF EnqueueDrq, RereadHome, SignalDrq, ExecuteRequest, moves
  <2>2. CASE EnqueueDrq(c)
    <3>1. PathTo(c, "drq", reg[c]) \/ PathTo(c, "reread", reg[c])
      BY <1>0, <2>2, EnqueueDrqPath DEF Back, Sending
    <3>2. pc[c] \in Sending
      BY <2>2 DEF EnqueueDrq, Sending
    <3>3. QED
      BY <1>0, <1>2, <2>1, <3>1, <3>2 DEF PathTo, Sending
  <2>3. CASE RereadHome(c)
    <3>1. \/ PathTo(c, "drq", reg[c])
          \/ PathTo(c, "signal", [reg[c] EXCEPT !.cpu = home[reg[c].to]])
      BY <1>0, <2>3, RereadHomePath DEF Back, Sending
    <3>2. pc[c] \in Sending
      BY <2>3 DEF RereadHome, Sending
    <3>3. QED
      BY <1>0, <1>2, <2>1, <3>1, <3>2 DEF PathTo, Sending, Reg
  <2>4. CASE SignalDrq(c)
    <3>1. PathTo(c, "drq", reg[c])
      BY <1>0, <2>4, SignalDrqPath DEF Back, Sending
    <3>2. QED
      BY <1>0, <1>2, <2>1, <3>1 DEF PathTo, Sending
  <2>5. CASE ExecuteRequest(c)
    <3>1. \/ PathTo(c, "dead", reg[c]) \/ PathTo(c, "drq", reg[c])
          \/ \E w \in Ctx :
                PathTo(c, "enq", [reg[c] EXCEPT !.to = w, !.item = w, !.eret = "drq"])
      BY <1>0, <2>5, ExecuteRequestPath DEF Back
    <3>2. pc[c] = "drq"
      BY <2>5 DEF ExecuteRequest
    <3>3. QED
      BY <1>0, <1>2, <2>1, <3>1, <3>2 DEF PathTo, Sending, Reg
  <2>6. QED
    BY <1>3, <2>2, <2>3, <2>4, <2>5
<1>4. QED
  <2>1. pc[c] \in {"enq", "reread", "signal", "drq", "dead"}
    BY <1>0 DEF Sending
  <2>2. CASE \/ \E x \in Ctx, target \in Cpu : Migrate(c, x, target)
             \/ \E x \in Ctx : Drq(c, x) \/ Wake(c, x)
             \/ Wait(c) \/ Kill(c) \/ LeaveMigrate(c) \/ IpiArrives(c)
             \/ \E y \in Ctx \cup {None} : Schedule(c, y)
    BY <2>1, <2>2 DEF Migrate, Drq, Wake, Wait, Kill, LeaveMigrate, IpiArrives, Schedule,
       Asks, InterruptsOn
  <2>3. CASE \/ ReadHome(c) \/ MigrateXcpu(c) \/ StartMigration(c)
             \/ MigrateAway(c) \/ MigrateTo(c) \/ Deblock(c)
             \/ WakeReadHome(c) \/ WakeSignal(c)
             \/ NextRequest(c) \/ ApplyRequest(c) \/ Applied(c) \/ IrqEnd(c)
    BY <2>1, <2>3 DEF ReadHome, MigrateXcpu, StartMigration, MigrateAway, MigrateTo, Deblock,
       WakeReadHome, WakeSignal, NextRequest, ApplyRequest, Applied, IrqEnd
  <2>4. QED
    BY <1>1, <1>3, <2>2, <2>3 DEF Steps, KernelStep

-----------------------------------------------------------------------------
LEMMA AliveSelf ==
  ASSUME Careful, StackInv, HomeInv, NEW c \in Cpu, Steps(c), reg[c].dret # "dead"
  PROVE  Self(c)'
<1>0. /\ PathsOK /\ StateOK /\ LocalsOK /\ Fits(pc[c], reg[c], cur[c]) /\ reg[c] \in Reg
      /\ cur[c] \in OrNone(Ctx)
      /\ pc[c] = "run" => reg[c] = Locals
      /\ pc[c] = "apply" => home[reg[c].x] = c
      /\ pc[c] \in {"drq", "deblock"} \/ (pc[c] \in Sending /\ reg[c].eret = "drq") =>
            home[reg[c].x] = c
      /\ pc[c] \in {"take", "away"} =>
            home[reg[c].x] = c \/ (home[reg[c].x] = Off /\ offLock = c)
      /\ pc[c] = "away" => cur[c] # reg[c].x
  BY TypeParts DEF StackInv, HomeInv, CpuInv, PathAt, CurAt, Here, PathsOK, LocalsOK, LocalOK, Fits
<1>b. reg[c] \in Reg
  BY <1>0
<1>a. cur[c] # None /\ pc[c] # "dead" => home[cur[c]] = c
  BY DEF HomeInv, CpuInv, CurAt, Here
<1>1. ASSUME UNCHANGED <<home, cur>>, pc[c] # "dead", reg'[c].dret # "dead",
             \/ pc'[c] \in {"run", "home", "xcpu", "to", "wakeHome", "wakeSignal", "rqq",
                            "applied", "irqEnd"}
             \/ pc'[c] \in Sending /\ reg'[c].eret # "drq"
             \/ /\ pc'[c] \in {"apply", "drq", "deblock", "take", "enq", "reread", "signal"}
                /\ home[reg'[c].x] = c
      PROVE  Self(c)'
  BY <1>a, <1>1, SelfFrom DEF Sending
<1> USE DEF PathTo, Back
<1>2. ASSUME NEW x \in Ctx, NEW target \in Cpu, Migrate(c, x, target) PROVE Self(c)'
  <2>1. pc'[c] = "home" /\ reg'[c] = [reg[c] EXCEPT !.x = x] /\ pc[c] = "run"
    BY <1>0, <1>2, MigratePath
  <2>2. UNCHANGED <<home, cur>>
    BY <1>2 DEF Migrate
  <2>3. QED
    BY <1>0, <1>1, <2>1, <2>2 DEF Locals
<1>3. ASSUME NEW x \in Ctx, Drq(c, x) PROVE Self(c)'
  <2>1. /\ pc'[c] = "enq" /\ reg'[c] = [reg[c] EXCEPT !.to = x, !.item = cur[c]]
        /\ pc[c] = "run"
    BY <1>0, <1>3, DrqPath
  <2>2. UNCHANGED <<home, cur>>
    BY <1>3 DEF Drq
  <2>3. QED
    BY <1>0, <1>1, <2>1, <2>2 DEF Locals, Sending
<1>4. ASSUME NEW x \in Ctx, Wake(c, x) PROVE Self(c)'
  <2>1. /\ pc'[c] \in {"run", "wakeHome"} /\ reg'[c].dret = Locals.dret
        /\ pc[c] = "run"
    <3>1. /\ pc[c] = "run" /\ pc'[c] \in {"run", "wakeHome"}
          /\ reg'[c] = reg[c] \/ reg'[c] = [reg[c] EXCEPT !.x = x]
      BY <1>0, <1>4, WakePath
    <3>2. [reg[c] EXCEPT !.x = x].dret = reg[c].dret
      BY <1>b DEF Reg
    <3>3. QED
      BY <1>0, <3>1, <3>2
  <2>2. UNCHANGED <<home, cur>>
    BY <1>4 DEF Wake
  <2>3. QED
    BY <1>0, <1>1, <2>1, <2>2 DEF Locals
<1>5. CASE Wait(c) \/ LeaveMigrate(c) \/ IpiArrives(c)
  <2>1. /\ UNCHANGED <<home, cur>> /\ pc[c] = "run" /\ reg' = reg
        /\ pc'[c] \in {"run", "rqq"}
    BY <1>0, <1>5, IpiPath DEF Wait, LeaveMigrate, IpiArrives, Asks
  <2>2. QED
    BY <1>0, <1>1, <2>1
<1>6. CASE WakeReadHome(c) \/ WakeSignal(c)
  <2>1. UNCHANGED <<home, cur>> /\ pc[c] # "dead"
    BY <1>6 DEF WakeReadHome, WakeSignal
  <2>2. pc'[c] \in {"run", "wakeSignal"} /\ reg'[c].dret # "dead"
    <3>1. \/ pc'[c] = "wakeSignal" /\ reg'[c] = [reg[c] EXCEPT !.cpu = home[reg[c].x]]
          \/ pc'[c] = "run" /\ reg'[c] = Locals
      BY <1>0, <1>6, WakeReadHomePath, WakeSignalPath
    <3>2. QED
      BY <1>b, <3>1 DEF Reg, Locals
  <2>3. QED
    BY <1>1, <2>1, <2>2
<1>7. CASE ReadHome(c)
  <2>1. UNCHANGED <<home, cur>> /\ pc[c] # "dead"
    BY <1>7 DEF ReadHome
  <2>2. /\ pc'[c] = "xcpu" \/ (pc'[c] = "take" /\ home[reg[c].x] = c)
        /\ reg'[c].x = reg[c].x /\ reg'[c].dret = reg[c].dret
    <3>1. /\ pc'[c] = "xcpu" \/ (pc'[c] = "take" /\ home[reg[c].x] = c)
          /\ reg'[c] = [reg[c] EXCEPT !.cpu = home[reg[c].x]]
      BY <1>0, <1>7, ReadHomePath
    <3>2. QED
      BY <1>b, <3>1 DEF Reg, Locals
  <2>3. QED
    BY <1>1, <2>1, <2>2
<1>8. CASE MigrateXcpu(c)
  <2>1. UNCHANGED <<home, cur>> /\ pc[c] = "xcpu"
    BY <1>8 DEF MigrateXcpu
  <2>2. CASE PathTo(c, "run", Locals)
    BY <1>1, <2>1, <2>2 DEF Locals
  <2>3. CASE PathTo(c, "take", reg[c]) /\ home[reg[c].x] = Off /\ offLock' = c
    BY <1>0, <1>a, <2>1, <2>3, SelfFrom DEF Sending
  <2>4. QED
    BY <1>0, <1>8, <2>2, <2>3, MigrateXcpuPath
<1>9. CASE StartMigration(c)
  <2>1. UNCHANGED home /\ pc[c] = "take"
    BY <1>9 DEF StartMigration
  <2>2. reg[c].mret \in {"run", "irqEnd", "applied"}
    BY <1>0 DEF Reg
  <2>3. CASE Back(c, reg[c].mret) /\ UNCHANGED cur
    BY <1>1, <2>1, <2>2, <2>3 DEF Locals
  <2>4. CASE PathTo(c, "away", [reg[c] EXCEPT !.inf = mig[reg[c].x]])
    <3>1. pc'[c] = "away" /\ reg'[c].x = reg[c].x /\ reg'[c].dret = reg[c].dret
      BY <1>0, <2>4 DEF Reg
    <3>2. ~ Return(c, reg[c].mret)
      BY <1>0, <2>2, <3>1 DEF Return, Goto, PathsOK
    <3>3. /\ cur' = IF cur[c] = reg[c].x THEN [cur EXCEPT ![c] = None] ELSE cur
          /\ UNCHANGED offLock
      BY <1>9, <3>2 DEF StartMigration
    <3>4. cur'[c] \in {cur[c], None} /\ cur'[c] # reg[c].x
      <4>1. reg[c].x \in Ctx
        BY <1>0, <2>1 DEF Fits, UsesX
      <4>2. QED
        BY <1>0, <3>3, <4>1, MigrationAssumption DEF PathsOK
    <3>5. QED
      BY <1>0, <1>a, <2>1, <3>1, <3>3, <3>4, SelfFrom DEF Sending
  <2>5. QED
    BY <1>0, <1>9, <2>3, <2>4, StartMigrationPath
<1>10. CASE MigrateAway(c)
  <2>1. info[reg[c].inf].cpu \in Cpu /\ pc[c] = "away"
    BY <1>0, <1>10 DEF MigrateAway, Fits, StackInv, MigInv, StackIsAlive
  <2>2. pc'[c] = "to" /\ reg'[c].dret # "dead"
    BY <1>0, <1>10, <2>1, MigrateAwayPath DEF Reg
  <2>3. cur' = cur /\ cur[c] # None => home'[cur[c]] = c
    BY <1>0, <1>10, <1>a, <2>1 DEF MigrateAway, StateOK, OrNone
  <2>4. QED
    BY <1>0, <1>10, <2>2, <2>3, SelfFrom DEF Sending, MigrateAway
<1>11. CASE MigrateTo(c)
  <2>1. UNCHANGED <<home, cur>> /\ pc[c] = "to"
    BY <1>11 DEF MigrateTo
  <2>2. reg[c].mret \in {"run", "irqEnd", "applied"}
    BY <1>0 DEF Reg
  <2>3. CASE Back(c, reg[c].mret)
    BY <1>1, <2>1, <2>2, <2>3 DEF Locals
  <2>4. CASE home[reg[c].x] = c /\ Back(c, "deblock")
    BY <1>1, <2>1, <2>4
  <2>5. CASE /\ home[reg[c].x] = c
             /\ PathTo(c, "drq", [reg[c] EXCEPT !.x = reg[c].x, !.dret = "deblock"])
    <3>1. pc'[c] = "drq" /\ reg'[c].x = reg[c].x /\ reg'[c].dret = "deblock"
      BY <1>0, <2>5 DEF Reg
    <3>2. QED
      BY <1>1, <2>1, <2>5, <3>1
  <2>6. QED
    BY <1>0, <1>11, <2>3, <2>4, <2>5, MigrateToPath
<1>12. CASE Deblock(c)
  <2>1. UNCHANGED <<home, cur>> /\ pc[c] = "deblock"
    BY <1>12 DEF Deblock
  <2>2. reg[c].mret \in {"run", "irqEnd", "applied"}
    BY <1>0 DEF Reg
  <2>3. QED
    BY <1>0, <1>1, <1>12, <2>1, <2>2, DeblockPath DEF Locals
<1>13. CASE EnqueueDrq(c) \/ RereadHome(c) \/ SignalDrq(c)
  <2>1. UNCHANGED <<home, cur>> /\ pc[c] \in Sending
    BY <1>13 DEF EnqueueDrq, RereadHome, SignalDrq, Sending
  <2>2. reg[c].eret \in {"run", "drq"}
    BY <1>0 DEF Reg
  <2>3. CASE Back(c, reg[c].eret)
    BY <1>0, <1>1, <2>1, <2>2, <2>3 DEF Locals, Sending
  <2>4. ASSUME pc'[c] \in {"reread", "signal"}, reg'[c].x = reg[c].x,
               reg'[c].eret = reg[c].eret, reg'[c].dret = reg[c].dret
        PROVE  Self(c)'
    BY <1>0, <1>1, <2>1, <2>4 DEF Sending
  <2>5. CASE PathTo(c, "reread", reg[c])
    BY <2>4, <2>5
  <2>6. CASE PathTo(c, "signal", [reg[c] EXCEPT !.cpu = home[reg[c].to]])
    <3>1. /\ pc'[c] = "signal" /\ reg'[c].x = reg[c].x
          /\ reg'[c].eret = reg[c].eret /\ reg'[c].dret = reg[c].dret
      BY <1>0, <2>6 DEF Reg
    <3>2. QED
      BY <2>4, <3>1
  <2>7. QED
    BY <1>0, <1>13, <2>3, <2>5, <2>6, EnqueueDrqPath, RereadHomePath, SignalDrqPath
<1>14. CASE ExecuteRequest(c)
  <2>1. UNCHANGED <<home, cur>> /\ pc[c] = "drq"
    BY <1>14 DEF ExecuteRequest
  <2>2. reg[c].dret \in {"run", "deblock", "rqq"}
    BY <1>0 DEF Reg
  <2>3. CASE Back(c, reg[c].dret)
    BY <1>0, <1>1, <2>1, <2>2, <2>3 DEF Locals
  <2>4. CASE PathTo(c, "drq", reg[c])
    BY <1>0, <1>1, <2>1, <2>4
  <2>5. ASSUME NEW w \in Ctx,
               PathTo(c, "enq", [reg[c] EXCEPT !.to = w, !.item = w, !.eret = "drq"])
        PROVE  Self(c)'
    <3>1. pc'[c] = "enq" /\ reg'[c].x = reg[c].x /\ reg'[c].dret = reg[c].dret
      BY <1>0, <2>5 DEF Reg
    <3>2. QED
      BY <1>0, <1>1, <2>1, <3>1
  <2>6. QED
    BY <1>0, <1>14, <2>3, <2>4, <2>5, ExecuteRequestPath
<1>15. CASE NextRequest(c)
  <2>1. UNCHANGED <<home, cur>> /\ pc[c] = "rqq"
    BY <1>15 DEF NextRequest
  <2>2. ASSUME NEW x \in Ctx, rqq[c] # <<>>, x = Head(rqq[c]),
               PathTo(c, "apply", [Locals EXCEPT !.x = x, !.mq = reg[c].mq])
        PROVE  Self(c)'
    <3>1. 1 \in DOMAIN rqq[c] /\ x = rqq[c][1]
      <4>1. rqq[c] \in Seq(Ctx)
        BY <1>0 DEF StateOK
      <4>2. QED
        BY <2>2, <4>1
    <3>2. home[x] = c
      BY <3>1 DEF HomeInv, RqqInv
    <3>3. pc'[c] = "apply" /\ reg'[c].x = x /\ reg'[c].dret = "run"
      BY <2>2 DEF Locals
    <3>4. QED
      BY <1>1, <2>1, <3>2, <3>3
  <2>3. CASE reg[c].mq /\ PathTo(c, "take", [Locals EXCEPT !.x = cur[c], !.mret = "irqEnd"])
    <3>1. cur[c] # None
      BY <1>0, <2>3, MigrationAssumption DEF Fits
    <3>2. pc'[c] = "take" /\ reg'[c].x = cur[c] /\ reg'[c].dret = "run"
      BY <2>3 DEF Locals
    <3>3. QED
      BY <1>1, <1>a, <2>1, <3>1, <3>2
  <2>4. CASE PathTo(c, "irqEnd", reg[c])
    BY <1>1, <2>1, <2>4
  <2>5. QED
    BY <1>0, <1>15, <2>2, <2>3, <2>4, NextRequestPath
<1>16. CASE ApplyRequest(c)
  <2>1. UNCHANGED <<home, cur>> /\ pc[c] = "apply"
    BY <1>16 DEF ApplyRequest
  <2>2. /\ pc'[c] \in {"applied", "take"}
        /\ reg'[c].x = reg[c].x /\ reg'[c].dret = reg[c].dret
    <3>1. /\ pc'[c] \in {"applied", "take"}
          /\ \/ reg'[c] = reg[c] \/ reg'[c] = [reg[c] EXCEPT !.mq = TRUE]
             \/ reg'[c] = [reg[c] EXCEPT !.mret = "applied"]
      BY <1>0, <1>16, ApplyRequestPath
    <3>2. QED
      BY <1>b, <3>1 DEF Reg, Locals
  <2>3. QED
    BY <1>0, <1>1, <2>1, <2>2
<1>17. CASE Applied(c)
  <2>1. UNCHANGED <<home, cur>> /\ pc[c] = "applied"
    BY <1>17 DEF Applied
  <2>2. \/ pc'[c] = "rqq" /\ reg'[c] = reg[c]
        \/ /\ home[reg[c].x] = c /\ pc'[c] = "drq"
           /\ reg'[c] = [reg[c] EXCEPT !.x = reg[c].x, !.dret = "rqq"]
    BY <1>0, <1>17, AppliedPath
  <2>3. \/ pc'[c] = "rqq" /\ reg'[c] = reg[c]
        \/ home[reg[c].x] = c /\ pc'[c] = "drq" /\ reg'[c].x = reg[c].x /\ reg'[c].dret = "rqq"
    BY <1>0, <2>2 DEF Reg
  <2>4. QED
    BY <1>1, <2>1, <2>3
<1>18. CASE IrqEnd(c)
  <2>1. UNCHANGED <<home, cur>> /\ pc[c] = "irqEnd"
    BY <1>18 DEF IrqEnd
  <2>2. \/ pc'[c] = "run" /\ reg'[c] = Locals
        \/ /\ cur[c] \in Ctx /\ pc'[c] = "drq"
           /\ reg'[c] = [reg[c] EXCEPT !.x = cur[c], !.dret = "run"]
    BY <1>0, <1>18, IrqEndPath
  <2>3. \/ pc'[c] = "run" /\ reg'[c].dret = "run"
        \/ cur[c] \in Ctx /\ pc'[c] = "drq" /\ reg'[c].x = cur[c] /\ reg'[c].dret = "run"
    <3> DEFINE r == [reg[c] EXCEPT !.x = cur[c], !.dret = "run"]
    <3>1. r.x = cur[c] /\ r.dret = "run"
      BY <1>b DEF Reg
    <3>2. \/ pc'[c] = "run" /\ reg'[c] = Locals
          \/ cur[c] \in Ctx /\ pc'[c] = "drq" /\ reg'[c] = r
      BY <2>2
    <3> HIDE DEF r
    <3>3. QED
      BY <3>1, <3>2 DEF Locals
  <2>4. QED
    BY <1>1, <1>a, <2>1, <2>3, MigrationAssumption
<1>19. CASE Dead(c)
  <2>1. pc'[c] = "run" /\ reg'[c].dret = "run" /\ cur'[c] = None
    <3>1. pc'[c] = "run" /\ reg'[c] = Locals
      BY <1>0, <1>19, DeadPath
    <3>2. cur'[c] = None
      BY <1>0, <1>19 DEF Dead, PathsOK
    <3>3. QED
      BY <3>1, <3>2 DEF Locals
  <2>2. QED
    BY <2>1, SelfFrom DEF Sending
<1>20. ASSUME NEW y \in Ctx \cup {None}, Schedule(c, y) PROVE Self(c)'
  <2>1. UNCHANGED home /\ cur'[c] = y /\ pc[c] = "run"
    BY <1>0, <1>20 DEF Schedule, PathsOK
  <2>2. y # None => home[y] = c
    <3>1. y # None => queued[y] = c \/ y = cur[c]
      BY <1>20 DEF Schedule
    <3>2. QED
      BY <1>a, <2>1, <3>1, MigrationAssumption DEF HomeInv, QueuedInv
  <2>3. \/ pc'[c] = "run" /\ reg'[c] = Locals
        \/ /\ y \in Ctx /\ pc'[c] = "drq"
           /\ reg'[c] = [reg[c] EXCEPT !.x = y, !.dret = "run"]
    BY <1>0, <1>20, SchedulePath
  <2>4. \/ pc'[c] = "run" /\ reg'[c].dret = "run"
        \/ y \in Ctx /\ pc'[c] = "drq" /\ reg'[c].x = y /\ reg'[c].dret = "run"
    <3> DEFINE r == [reg[c] EXCEPT !.x = y, !.dret = "run"]
    <3>1. r.x = y /\ r.dret = "run"
      BY <1>b DEF Reg
    <3>2. \/ pc'[c] = "run" /\ reg'[c] = Locals
          \/ y \in Ctx /\ pc'[c] = "drq" /\ reg'[c] = r
      BY <2>3
    <3> HIDE DEF r
    <3>3. QED
      BY <3>1, <3>2 DEF Locals
  <2>5. QED
    BY <2>1, <2>2, <2>4, SelfFrom, MigrationAssumption DEF Sending
<1>21. CASE Kill(c)
  <2>1. cur[c] \in Ctx /\ pc[c] = "run" /\ UNCHANGED <<cur, mig>>
    BY <1>0, <1>21, KillPath DEF Kill, moves
  <2>2. home'[cur[c]] = Off /\ ~ BeingMoved(cur[c])
    BY <1>0, <1>21, <2>1 DEF Kill, StateOK
  <2>3. \/ pc'[c] = "dead" /\ reg'[c] = reg[c]
        \/ pc'[c] = "drq" /\ reg'[c] = [reg[c] EXCEPT !.x = cur[c], !.dret = "dead"]
    BY <1>0, <1>21, KillPath
  <2>4. CASE pc'[c] = "dead" /\ reg'[c] = reg[c]
    BY <2>4 DEF Self, DyingAt, CurAt, PathAt, Sending
  <2>5. CASE pc'[c] = "drq" /\ reg'[c] = [reg[c] EXCEPT !.x = cur[c], !.dret = "dead"]
    <3>1. reg'[c].x = cur[c] /\ reg'[c].dret = "dead"
      BY <1>0, <2>5 DEF Reg
    <3>2. OnlyHere(c)
      BY PathStep DEF PathStepOK
    <3>3. \A d \in Cpu : pc'[d] \in Moving => reg'[d].x # cur[c]
      BY <2>2, <2>5, <3>2 DEF OnlyHere, BeingMoved, Moving
    <3>4. mig'[cur[c]] = None
      BY <2>1, <2>2 DEF BeingMoved
    <3>5. QED
      BY <2>1, <2>2, <2>5, <3>1, <3>3, <3>4 DEF Self, DyingAt, CurAt, PathAt, Here, Sending
  <2>6. QED
    BY <2>3, <2>4, <2>5
<1>22. QED
  BY <1>2, <1>3, <1>4, <1>5, <1>6, <1>7, <1>8, <1>9, <1>10, <1>11, <1>12, <1>13, <1>14, <1>15,
     <1>16, <1>17, <1>18, <1>19, <1>20, <1>21 DEF Steps, KernelStep

LEMMA CpuStep ==
  ASSUME Careful, StackInv, HomeInv, NEW c \in Cpu, Steps(c)
  PROVE  CpuInv'
  BY AliveSelf, DyingStep, OthersKeep DEF CpuInv, Self

-----------------------------------------------------------------------------
\* A context is put into the ready queue and the request queue of its home CPU only.

LEMMA EnqueueHere ==
  ASSUME StateOK, QueuedInv, NEW x \in Ctx, NEW at, home[x] = at, UNCHANGED home,
         ReadyEnqueue(at, x) \/ UNCHANGED queued
  PROVE  QueuedInv'
  BY DEF StateOK, QueuedInv, ReadyEnqueue

LEMMA QueuedStep ==
  ASSUME StackInv, HomeInv, NEW c \in Cpu, Steps(c)
  PROVE  QueuedInv'
<1>0. StateOK /\ LocalsOK /\ Fits(pc[c], reg[c], cur[c]) /\ QueuedInv /\ DyingAt(c) /\ PathAt(c)
  BY TypeParts DEF StackInv, LocalsOK, LocalOK, HomeInv, CpuInv
<1> USE DEF flags, requests
<1>1. CASE UNCHANGED <<home, queued>>
  BY <1>0, <1>1 DEF QueuedInv
<1>2. ASSUME NEW x \in Ctx, Wake(c, x) PROVE QueuedInv'
  BY <1>0, <1>1, <1>2, EnqueueHere DEF Wake
<1>3. CASE Kill(c)
  <2>1. cur[c] \in Ctx
    BY <1>0, <1>3 DEF Kill, Asks, StateOK
  <2>2. \A x \in Ctx : /\ x # cur[c] => home'[x] = home[x] /\ queued'[x] = queued[x]
                       /\ x = cur[c] => queued'[x] = None
    BY <1>0, <1>3, <2>1 DEF Kill, StateOK
  <2>3. QED
    BY <1>0, <2>2 DEF QueuedInv
<1>4. CASE StartMigration(c)
  <2>1. reg[c].x \in Ctx /\ pc[c] = "take"
    BY <1>0, <1>4 DEF StartMigration, Fits, UsesX
  <2>2. cur[c] = reg[c].x => home[reg[c].x] = c
    BY <2>1, RunsHere, MigrationAssumption DEF Sending
  <2>3. \/ UNCHANGED queued
        \/ cur[c] = reg[c].x /\ ReadyEnqueue(c, reg[c].x)
    BY <1>4 DEF StartMigration
  <2>4. QED
    BY <1>0, <1>1, <1>4, <2>1, <2>2, <2>3, EnqueueHere DEF StartMigration
<1>5. CASE MigrateAway(c)
  <2>1. \A x \in Ctx : /\ x # reg[c].x => home'[x] = home[x] /\ queued'[x] = queued[x]
                       /\ x = reg[c].x => queued'[x] = None
    BY <1>0, <1>5 DEF MigrateAway, StateOK
  <2>2. QED
    BY <1>0, <2>1 DEF QueuedInv
<1>6. CASE Deblock(c)
  <2>1. reg[c].x \in Ctx /\ pc[c] = "deblock"
    BY <1>0, <1>6 DEF Deblock, Fits, UsesX
  <2>2. home[reg[c].x] = c
    BY <1>0, <2>1 DEF PathAt, DyingAt, Here, Sending
  <2>3. QED
    BY <1>0, <1>6, <2>1, <2>2, EnqueueHere DEF Deblock
<1>7. CASE EnqueueDrq(c)
  <2>1. reg[c].to \in Ctx
    BY <1>0, <1>7 DEF EnqueueDrq, Fits, Sending
  <2>2. \/ UNCHANGED queued
        \/ home[reg[c].to] = c /\ (ReadyEnqueue(c, reg[c].to) \/ UNCHANGED queued)
    BY <1>7 DEF EnqueueDrq, ExecuteDrq
  <2>3. QED
    BY <1>0, <1>1, <1>7, <2>1, <2>2, EnqueueHere DEF EnqueueDrq
<1>8. CASE RereadHome(c)
  <2>1. reg[c].to \in Ctx
    BY <1>0, <1>8 DEF RereadHome, Fits, Sending
  <2>2. \/ UNCHANGED queued
        \/ home[reg[c].to] = c /\ (ReadyEnqueue(c, reg[c].to) \/ UNCHANGED queued)
    BY <1>8 DEF RereadHome, DeqExecDrq, ExecuteDrq
  <2>3. QED
    BY <1>0, <1>1, <1>8, <2>1, <2>2, EnqueueHere DEF RereadHome
<1>9. CASE SignalDrq(c)
  <2>1. reg[c].to \in Ctx
    BY <1>0, <1>9 DEF SignalDrq, Fits, Sending
  <2>2. \/ UNCHANGED queued
        \/ home[reg[c].to] = Off /\ (ReadyEnqueue(Off, reg[c].to) \/ UNCHANGED queued)
    BY <1>9 DEF SignalDrq, DeqExecDrq, ExecuteDrq
  <2>3. QED
    BY <1>0, <1>1, <1>9, <2>1, <2>2, EnqueueHere DEF SignalDrq
<1>10. CASE Applied(c)
  <2>1. reg[c].x \in Ctx
    BY <1>0, <1>10 DEF Applied, Fits, UsesX
  <2>2. \/ UNCHANGED queued
        \/ home[reg[c].x] = c /\ (ReadyEnqueue(c, reg[c].x) \/ UNCHANGED queued)
    BY <1>10 DEF Applied
  <2>3. QED
    BY <1>0, <1>1, <1>10, <2>1, <2>2, EnqueueHere DEF Applied
<1>11. ASSUME NEW y \in Ctx \cup {None}, Schedule(c, y) PROVE QueuedInv'
  <2>1. cur[c] # None => home[cur[c]] = c
    BY <1>11, RunsHere DEF Schedule, Sending
  <2>2. UNCHANGED home /\ \A x \in Ctx : /\ queued'[x] \in {queued[x], c, None}
                                         /\ queued'[x] = c => queued[x] = c \/ x = cur[c]
    BY <1>0, <1>11 DEF Schedule
  <2>3. QED
    BY <1>0, <2>1, <2>2, MigrationAssumption DEF QueuedInv
<1>12. CASE \/ \E x \in Ctx, target \in Cpu : Migrate(c, x, target)
            \/ \E x \in Ctx : Drq(c, x)
            \/ Wait(c) \/ LeaveMigrate(c) \/ IpiArrives(c)
  BY <1>1, <1>12 DEF Migrate, Drq, Wait, LeaveMigrate, IpiArrives
<1>13. CASE \/ ReadHome(c) \/ MigrateXcpu(c) \/ MigrateTo(c) \/ ExecuteRequest(c)
            \/ WakeReadHome(c) \/ WakeSignal(c) \/ NextRequest(c) \/ ApplyRequest(c)
            \/ IrqEnd(c) \/ Dead(c)
  BY <1>1, <1>13 DEF ReadHome, MigrateXcpu, MigrateTo, ExecuteRequest, WakeReadHome, WakeSignal,
     NextRequest, ApplyRequest, IrqEnd, Dead
<1>14. QED
  BY <1>2, <1>3, <1>4, <1>5, <1>6, <1>7, <1>8, <1>9, <1>10, <1>11, <1>12, <1>13
     DEF Steps, KernelStep

LEMMA RequestHere ==
  ASSUME StateOK, RqqInv, NEW x \in Ctx, NEW to \in Cpu, home[x] = to, UNCHANGED home,
         QueueRequest(to, x)
  PROVE  RqqInv'
<1>1. CASE IsPending(x)
  BY <1>1 DEF RqqInv, QueueRequest
<1>2. CASE ~ IsPending(x)
  <2>1. rqq[to] \in Seq(Ctx) /\ rqq' = [rqq EXCEPT ![to] = Append(rqq[to], x)]
    BY <1>2 DEF StateOK, QueueRequest
  <2>2. \A i \in DOMAIN rqq[to] : rqq[to][i] # x
    BY <1>2, <2>1 DEF IsPending, Contains
  <2>3. /\ DOMAIN rqq'[to] = 1..(Len(rqq[to]) + 1)
        /\ \A i \in DOMAIN rqq[to] : rqq'[to][i] = rqq[to][i]
        /\ rqq'[to][Len(rqq[to]) + 1] = x
        /\ DOMAIN rqq[to] = 1..Len(rqq[to])
    BY <2>1, AppendProperties DEF StateOK
  <2>4. \A i, j \in DOMAIN rqq'[to] : /\ home[rqq'[to][i]] = to
                                      /\ rqq'[to][i] = rqq'[to][j] => i = j
    <3>1. \A i \in DOMAIN rqq'[to] : i \in DOMAIN rqq[to] \/ i = Len(rqq[to]) + 1
      BY <2>1, <2>3
    <3>2. QED
      BY <2>2, <2>3, <3>1 DEF RqqInv
  <2>5. \A d \in Cpu : d # to => rqq'[d] = rqq[d]
    BY <2>1 DEF StateOK
  <2>6. QED
    BY <2>4, <2>5 DEF RqqInv
<1>3. QED
  BY <1>1, <1>2

\* x leaves, and is in no request queue.
LEMMA LeavesQueue ==
  ASSUME StateOK, RqqInv, NEW c \in Cpu, NEW x \in Ctx, home[x] \in {c, Off},
         \A y \in Ctx : y # x => home'[y] = home[y],
         rqq' = [rqq EXCEPT ![c] = Dequeue(@, x)]
  PROVE  RqqInv'
<1>1. rqq[c] \in Seq(Ctx)
  BY DEF StateOK
<1>2. /\ \A i \in DOMAIN rqq'[c] : /\ rqq'[c][i] # x
                                   /\ \E j \in DOMAIN rqq[c] : rqq'[c][i] = rqq[c][j]
      /\ \A i, j \in DOMAIN rqq'[c] : rqq'[c][i] = rqq'[c][j] => i = j
  <2>1. \A i, j \in DOMAIN rqq[c] : rqq[c][i] = rqq[c][j] => i = j
    BY DEF RqqInv
  <2>2. rqq'[c] = Dequeue(rqq[c], x)
    BY DEF StateOK
  <2>3. QED
    BY <1>1, <2>1, <2>2, DequeueKeeps
<1>3. \A i \in DOMAIN rqq'[c] : home'[rqq'[c][i]] = c
  <2>1. \A j \in DOMAIN rqq[c] : rqq[c][j] \in Ctx /\ home[rqq[c][j]] = c
    BY <1>1 DEF RqqInv
  <2>2. QED
    BY <1>2, <2>1
<1>4. ASSUME NEW d \in Cpu, d # c
      PROVE  rqq'[d] = rqq[d] /\ \A i \in DOMAIN rqq[d] : home'[rqq[d][i]] = d
  <2>1. rqq'[d] = rqq[d] /\ rqq[d] \in Seq(Ctx)
    BY <1>4 DEF StateOK
  <2>2. \A i \in DOMAIN rqq[d] : rqq[d][i] \in Ctx /\ home[rqq[d][i]] = d
    BY <2>1 DEF RqqInv
  <2>3. \A i \in DOMAIN rqq[d] : rqq[d][i] # x
    BY <1>4, <2>2, MigrationAssumption
  <2>4. QED
    BY <2>1, <2>2, <2>3
<1>5. QED
  BY <1>2, <1>3, <1>4 DEF RqqInv

LEMMA RqqStep ==
  ASSUME StackInv, HomeInv, NEW c \in Cpu, Steps(c)
  PROVE  RqqInv'
<1>0. StateOK /\ LocalsOK /\ Fits(pc[c], reg[c], cur[c]) /\ RqqInv /\ PathAt(c)
  BY TypeParts DEF StackInv, LocalsOK, LocalOK, HomeInv, CpuInv
<1>1. CASE UNCHANGED <<home, rqq>>
  BY <1>0, <1>1 DEF RqqInv
<1>2. CASE Kill(c)
  <2>1. pc[c] = "run" /\ cur[c] \in Ctx
    BY <1>0, <1>2 DEF Kill, Asks, StateOK
  <2>2. home[cur[c]] = c
    BY <2>1, RunsHere, MigrationAssumption DEF Sending
  <2>3. \A y \in Ctx : y # cur[c] => home'[y] = home[y]
    BY <1>0, <1>2 DEF Kill, StateOK
  <2>4. QED
    BY <1>0, <1>2, <2>1, <2>2, <2>3, LeavesQueue DEF Kill
<1>3. CASE MigrateAway(c)
  <2>1. pc[c] = "away" /\ reg[c].x \in Ctx
    BY <1>0, <1>3 DEF MigrateAway, Fits, UsesX
  <2>2. home[reg[c].x] \in {c, Off}
    BY <1>0, <2>1 DEF PathAt
  <2>3. \A y \in Ctx : y # reg[c].x => home'[y] = home[y]
    BY <1>0, <1>3 DEF MigrateAway, StateOK
  <2>4. QED
    BY <1>0, <1>3, <2>1, <2>2, <2>3, LeavesQueue DEF MigrateAway
<1>4. CASE MigrateXcpu(c) \/ WakeSignal(c)
  <2>1. reg[c].x \in Ctx /\ reg[c].cpu \in Cpu \cup {Off} /\ UNCHANGED home
    BY <1>0, <1>4 DEF MigrateXcpu, WakeSignal, Fits, UsesX
  <2>2. \/ UNCHANGED rqq
        \/ /\ home[reg[c].x] = reg[c].cpu /\ reg[c].cpu # Off
           /\ QueueRequest(reg[c].cpu, reg[c].x)
    BY <1>4 DEF MigrateXcpu, WakeSignal
  <2>3. QED
    BY <1>0, <1>1, <2>1, <2>2, RequestHere
<1>5. CASE MigrateTo(c)
  <2>1. reg[c].x \in Ctx /\ reg[c].to \in Cpu /\ UNCHANGED home
    BY <1>0, <1>5 DEF MigrateTo, Fits, UsesX
  <2>2. \/ UNCHANGED rqq
        \/ home[reg[c].x] = reg[c].to /\ QueueRequest(reg[c].to, reg[c].x)
    BY <1>5 DEF MigrateTo
  <2>3. QED
    BY <1>0, <1>1, <2>1, <2>2, RequestHere
<1>6. CASE SignalDrq(c)
  <2>1. reg[c].to \in Ctx /\ reg[c].cpu \in Cpu \cup {Off} /\ UNCHANGED home
    BY <1>0, <1>6 DEF SignalDrq, Fits, Sending
  <2>2. \/ UNCHANGED rqq
        \/ /\ home[reg[c].to] = reg[c].cpu /\ reg[c].cpu # Off
           /\ QueueRequest(reg[c].cpu, reg[c].to)
    BY <1>6 DEF SignalDrq
  <2>3. QED
    BY <1>0, <1>1, <2>1, <2>2, RequestHere
<1>7. CASE NextRequest(c)
  <2>1. UNCHANGED home
    BY <1>7 DEF NextRequest
  <2>2. CASE rqq[c] # <<>>
    <3>1. rqq[c] \in Seq(Ctx) /\ rqq' = [rqq EXCEPT ![c] = Tail(rqq[c])]
      BY <1>0, <1>7, <2>2 DEF NextRequest, StateOK
    <3>2. /\ \A i \in DOMAIN Tail(rqq[c]) :
                i + 1 \in DOMAIN rqq[c] /\ Tail(rqq[c])[i] = rqq[c][i + 1] /\ i \in Nat
      BY <2>2, <3>1, HeadTailProperties
    <3>3. rqq'[c] = Tail(rqq[c]) /\ \A d \in Cpu : d # c => rqq'[d] = rqq[d]
      BY <1>0, <3>1 DEF StateOK
    <3>4. \A i, j \in DOMAIN rqq'[c] : /\ home[rqq'[c][i]] = c
                                       /\ rqq'[c][i] = rqq'[c][j] => i = j
      <4>1. ASSUME NEW i \in DOMAIN rqq'[c], NEW j \in DOMAIN rqq'[c]
            PROVE  /\ home[rqq'[c][i]] = c
                   /\ rqq'[c][i] = rqq'[c][j] => i = j
        <5>1. /\ rqq'[c][i] = rqq[c][i + 1] /\ rqq'[c][j] = rqq[c][j + 1]
              /\ i + 1 \in DOMAIN rqq[c] /\ j + 1 \in DOMAIN rqq[c] /\ i \in Nat /\ j \in Nat
          BY <3>2, <3>3
        <5>2. /\ home[rqq[c][i + 1]] = c
              /\ rqq[c][i + 1] = rqq[c][j + 1] => i + 1 = j + 1
          BY <1>0, <5>1 DEF RqqInv
        <5>3. QED
          BY <5>1, <5>2
      <4>2. QED
        BY <4>1
    <3>5. ASSUME NEW d \in Cpu, NEW i \in DOMAIN rqq'[d], NEW j \in DOMAIN rqq'[d]
          PROVE  /\ home'[rqq'[d][i]] = d
                 /\ rqq'[d][i] = rqq'[d][j] => i = j
      <4>1. CASE d = c
        BY <2>1, <3>4, <3>5, <4>1
      <4>2. CASE d # c
        <5>1. rqq'[d] = rqq[d]
          BY <3>3, <4>2
        <5>2. QED
          BY <1>0, <2>1, <3>5, <5>1 DEF RqqInv
      <4>3. QED
        BY <4>1, <4>2
    <3>6. QED
      BY <3>5 DEF RqqInv
  <2>3. CASE rqq[c] = <<>>
    BY <1>1, <1>7, <2>3 DEF NextRequest
  <2>4. QED
    BY <2>2, <2>3
<1>8. CASE \/ \E x \in Ctx, target \in Cpu : Migrate(c, x, target)
           \/ \E x \in Ctx : Drq(c, x) \/ Wake(c, x)
           \/ Wait(c) \/ LeaveMigrate(c) \/ IpiArrives(c)
           \/ \E y \in Ctx \cup {None} : Schedule(c, y)
  BY <1>1, <1>8 DEF Migrate, Drq, Wake, Wait, LeaveMigrate, IpiArrives, Schedule
<1>9. CASE \/ ReadHome(c) \/ StartMigration(c) \/ Deblock(c)
           \/ EnqueueDrq(c) \/ RereadHome(c) \/ ExecuteRequest(c)
           \/ WakeReadHome(c) \/ ApplyRequest(c) \/ Applied(c) \/ IrqEnd(c) \/ Dead(c)
  BY <1>1, <1>9 DEF ReadHome, StartMigration, Deblock, EnqueueDrq, RereadHome, ExecuteRequest,
     WakeReadHome, ApplyRequest, Applied, IrqEnd, Dead
<1>10. QED
  BY <1>2, <1>3, <1>4, <1>5, <1>6, <1>7, <1>8, <1>9 DEF Steps, KernelStep

-----------------------------------------------------------------------------
LEMMA HomeInit == Init => HomeInv
<1> SUFFICES ASSUME Init PROVE HomeInv
  OBVIOUS
<1>1. CpuInv
  BY DEF Init, CpuInv, DyingAt, CurAt, PathAt, Locals, Sending
<1>2. QueuedInv /\ RqqInv
  BY DEF Init, QueuedInv, RqqInv
<1>3. QED
  BY <1>1, <1>2 DEF HomeInv

LEMMA HomeStep == Careful /\ StackInv /\ HomeInv /\ [Next]_vars => HomeInv'
<1> SUFFICES ASSUME Careful, StackInv, HomeInv, [Next]_vars PROVE HomeInv'
  OBVIOUS
<1>1. CASE UNCHANGED vars
  BY <1>1 DEF vars, flags, moves, requests, HomeInv, CpuInv, DyingAt, CurAt, PathAt, Here,
     QueuedInv, RqqInv
<1>2. ASSUME NEW c \in Cpu, Steps(c) PROVE HomeInv'
  BY <1>2, CpuStep, QueuedStep, RqqStep DEF HomeInv
<1>3. QED
  BY <1>1, <1>2, NextSteps

LEMMA HomeImplies == StackInv /\ HomeInv => AtHome
<1> SUFFICES ASSUME StackInv, HomeInv PROVE AtHome
  OBVIOUS
<1> USE DEF HomeInv, CpuInv
<1>1. \A c \in Cpu : cur[c] # None /\ pc[c] # "dead" =>
          home[cur[c]] = c \/ (home[cur[c]] = Off /\ reg[c].dret = "dead")
  BY DEF CurAt, Here
<1>2. \A c \in Cpu : pc[c] \in {"drq", "deblock"} =>
          home[reg[c].x] = c \/ (home[reg[c].x] = Off /\ reg[c].dret = "dead")
  BY DEF PathAt, Here
<1>3. \A c \in Cpu : pc[c] = "away" =>
          home[reg[c].x] = c \/ (home[reg[c].x] = Off /\ offLock = c)
  BY DEF PathAt
<1>4. QED
  BY <1>1, <1>2, <1>3 DEF AtHome, QueuedInv, RqqInv

\* If no context is started twice at a time, and none exits while it is moved, contexts are
\* run, queued and served where they are at home, wherever they go.
THEOREM MigrationAtHome == Careful => (Spec => []AtHome)
<1> SUFFICES ASSUME Careful PROVE Spec => []AtHome
  OBVIOUS
<1>1. StackInv /\ HomeInv /\ StackInv' /\ [Next]_vars => HomeInv'
  BY HomeStep
<1>2. Spec => [](StackInv /\ HomeInv)
  BY <1>1, StackInit, StackStep, HomeInit, PTL DEF Spec
<1>3. QED
  BY <1>2, HomeImplies, PTL

-----------------------------------------------------------------------------
\* Where the Drq of w is: in the hands of a CPU that is about to queue it or to execute
\* it, or in a queue; as a reply if that is w's own, and else as a request.
InHand(c, w) == pc[c] = "enq" /\ reg[c].item = w

Turn(w, y) == served[w] = IF w = y THEN 1 ELSE 0

\* It is in one place at most, and there while w waits for it.
DrqOf(w) ==
    /\ served[w] = 1 \/ (served[w] = 0 /\ w \in drqWait)
    /\ \A c \in Cpu : InHand(c, w) =>
          /\ w \in drqWait /\ Turn(w, reg[c].to)
          /\ \A y \in Ctx : \A i \in DOMAIN drqq[y] : drqq[y][i] # w
          /\ \A d \in Cpu : InHand(d, w) => d = c
    /\ \A y \in Ctx : \A i \in DOMAIN drqq[y] : drqq[y][i] = w =>
          /\ w \in drqWait /\ Turn(w, y)
          /\ \A z \in Ctx : \A j \in DOMAIN drqq[z] : drqq[z][j] = w => z = y /\ j = i

DrqInv == \A w \in Ctx : DrqOf(w)

\* a step that is not about the Drq of v
LEMMA DrqKept ==
  ASSUME NEW v \in Ctx, DrqOf(v), served'[v] = served[v], v \in drqWait' <=> v \in drqWait,
         \A d \in Cpu : InHand(d, v)' => InHand(d, v) /\ reg'[d].to = reg[d].to,
         \A y \in Ctx : \A i \in DOMAIN drqq'[y] : drqq'[y][i] = v =>
            /\ \E j \in DOMAIN drqq[y] : drqq[y][j] = v
            /\ \A j \in DOMAIN drqq'[y] : drqq'[y][j] = v => j = i
  PROVE  DrqOf(v)'
  BY DEF DrqOf, Turn

\* The Drq of v stays where it is, unless it is in a queue.
Unmoved(v) ==
    /\ served'[v] = served[v] /\ (v \in drqWait' <=> v \in drqWait)
    /\ \A d \in Cpu : InHand(d, v)' => InHand(d, v) /\ reg'[d].to = reg[d].to

\* q is what is left of s without w.
Without(q, s, w) ==
    /\ \A i \in DOMAIN q : q[i] # w /\ \E j \in DOMAIN s : q[i] = s[j]
    /\ \A i, j \in DOMAIN q : q[i] = q[j] => i = j

\* a step that takes the Drq of w out of the queue of y, and leaves q of it
LEMMA TakenOut ==
  ASSUME StateOK, DrqInv, NEW y \in Ctx, NEW w \in Ctx, NEW q,
         drqq' = [drqq EXCEPT ![y] = q],
         Without(q, drqq[y], w),
         \E k \in DOMAIN drqq[y] : drqq[y][k] = w,
         \A v \in Ctx \ {w} : Unmoved(v)
  PROVE  /\ \A v \in Ctx \ {w} : DrqOf(v)'
         /\ \A z \in Ctx : \A i \in DOMAIN drqq'[z] : drqq'[z][i] # w
<1>1. drqq'[y] = q /\ \A z \in Ctx : z # y => drqq'[z] = drqq[z]
  BY DEF StateOK
<1>2. ASSUME NEW v \in Ctx \ {w} PROVE DrqOf(v)'
  <2>1. DrqOf(v)
    BY DEF DrqInv
  <2>2. ASSUME NEW z \in Ctx, NEW i \in DOMAIN drqq'[z], drqq'[z][i] = v
        PROVE  /\ \E j \in DOMAIN drqq[z] : drqq[z][j] = v
               /\ \A j \in DOMAIN drqq'[z] : drqq'[z][j] = v => j = i
    <3>1. CASE z = y
      BY <1>1, <2>2, <3>1 DEF Without
    <3>2. CASE z # y
      BY <1>1, <2>1, <2>2, <3>2 DEF DrqOf
    <3>3. QED
      BY <3>1, <3>2
  <2>3. QED
    BY <2>1, <2>2, DrqKept DEF Unmoved
<1>3. ASSUME NEW z \in Ctx, NEW i \in DOMAIN drqq'[z] PROVE drqq'[z][i] # w
  <2>1. CASE z = y
    BY <1>1, <2>1 DEF Without
  <2>2. CASE z # y
    BY <1>1, <2>2 DEF DrqInv, DrqOf
  <2>3. QED
    BY <2>1, <2>2
<1>4. QED
  BY <1>2, <1>3

LEMMA QueueOnce ==
  ASSUME DrqInv, StateOK, NEW y \in Ctx
  PROVE  \A i, j \in DOMAIN drqq[y] : drqq[y][i] = drqq[y][j] => i = j
<1>1. \A i \in DOMAIN drqq[y] : drqq[y][i] \in Ctx
  BY DEF StateOK
<1>2. QED
  BY <1>1 DEF DrqInv, DrqOf

\* Who executes the Drq of w, which nobody else has then, and answers it at once
LEMMA Executed ==
  ASSUME NEW w \in Ctx, DrqOf(w),
         served'[w] = 1,
         \A d \in Cpu : ~ InHand(d, w)',
         \A z \in Ctx : \A i \in DOMAIN drqq'[z] : drqq'[z][i] # w
  PROVE  DrqOf(w)'
  BY DEF DrqOf

\* the served count after ExecuteDrq()
LEMMA ServedOnce ==
  ASSUME StateOK, NEW c \in Cpu, NEW y \in Ctx, NEW w \in Ctx, NEW at, ExecuteDrq(c, y, w, at),
         Turn(w, y)
  PROVE  /\ served'[w] = 1
         /\ \A v \in Ctx \ {w} : served'[v] = served[v] /\ (v \in drqWait' <=> v \in drqWait)
  BY DEF StateOK, ExecuteDrq, Turn

\* the path of c does not get a Drq in its hands
LEMMA HandsEmptied ==
  ASSUME PathsOK, NEW c \in Cpu, pc'[c] # "enq",
         \A d \in Cpu \ {c} : pc'[d] = pc[d] /\ reg'[d] = reg[d]
  PROVE  /\ ~ \E v : InHand(c, v)'
         /\ \A v \in Ctx, d \in Cpu : InHand(d, v)' => InHand(d, v) /\ reg'[d].to = reg[d].to
  BY DEF InHand

LEMMA DeqExecStep ==
  ASSUME StateOK, PathsOK, DrqInv, NEW c \in Cpu, LocalOK(c), pc[c] \in Sending, pc[c] # "enq",
         NEW at, NEW y \in Ctx, NEW w \in Ctx, reg[c].to = y, reg[c].item = w,
         DeqExecDrq(c, y, w, at)
  PROVE  DrqInv'
<1>1. reg[c].eret \in {"run", "drq"}
  BY DEF LocalOK, Fits, PathsOK, Reg
<1>2. Return(c, reg[c].eret)
  BY DEF DeqExecDrq, ExecuteDrq
<1>3. pc'[c] # "enq" /\ \A d \in Cpu \ {c} : pc'[d] = pc[d] /\ reg'[d] = reg[d]
  BY <1>1, <1>2 DEF Return, Goto, PathsOK
<1>4. /\ ~ \E v : InHand(c, v)'
      /\ \A v \in Ctx, d \in Cpu : InHand(d, v)' => InHand(d, v) /\ reg'[d].to = reg[d].to
  BY <1>3, HandsEmptied
<1>5. CASE ~ Contains(drqq[y], w)
  <2>1. UNCHANGED <<drqq, served, drqWait>>
    BY <1>5 DEF DeqExecDrq, flags, requests
  <2>2. ASSUME NEW v \in Ctx PROVE DrqOf(v)'
    <3>1. DrqOf(v)
      BY DEF DrqInv
    <3>2. QED
      BY <1>4, <2>1, <3>1, DrqKept DEF DrqOf
  <2>3. QED
    BY <2>2 DEF DrqInv
<1>6. CASE Contains(drqq[y], w)
  <2>1. /\ drqq' = [drqq EXCEPT ![y] = Dequeue(drqq[y], w)]
        /\ ExecuteDrq(c, y, w, at)
    BY <1>1, <1>6 DEF DeqExecDrq, StateOK
  <2>2. drqq[y] \in Seq(Ctx) /\ \E k \in DOMAIN drqq[y] : drqq[y][k] = w
    BY <1>1, <1>6 DEF StateOK, Contains
  <2>3. DrqOf(w) /\ Turn(w, y) /\ \A d \in Cpu : ~ InHand(d, w)
    BY <1>1, <2>2 DEF DrqInv, DrqOf
  <2>4. \A i, j \in DOMAIN drqq[y] : drqq[y][i] = drqq[y][j] => i = j
    BY <1>1, QueueOnce
  <2>5. /\ served'[w] = 1
        /\ \A v \in Ctx \ {w} : served'[v] = served[v] /\ (v \in drqWait' <=> v \in drqWait)
    BY <1>1, <2>1, <2>3, ServedOnce
  <2>6. /\ \A i \in DOMAIN Dequeue(drqq[y], w) :
              /\ Dequeue(drqq[y], w)[i] # w
              /\ \E j \in DOMAIN drqq[y] : Dequeue(drqq[y], w)[i] = drqq[y][j]
        /\ \A i, j \in DOMAIN Dequeue(drqq[y], w) :
              Dequeue(drqq[y], w)[i] = Dequeue(drqq[y], w)[j] => i = j
    BY <2>2, <2>4, DequeueKeeps
  <2>7. /\ \A v \in Ctx \ {w} : DrqOf(v)'
        /\ \A z \in Ctx : \A i \in DOMAIN drqq'[z] : drqq'[z][i] # w
    <3>1. \A v \in Ctx \ {w} : Unmoved(v)
      BY <1>4, <2>5 DEF Unmoved
    <3>2. Without(Dequeue(drqq[y], w), drqq[y], w)
      BY <2>6 DEF Without
    <3>3. QED
      BY <2>1, <2>2, <3>1, <3>2, TakenOut
  <2>8. DrqOf(w)'
    BY <1>1, <1>4, <2>3, <2>5, <2>7, Executed
  <2>9. QED
    BY <2>7, <2>8 DEF DrqInv
<1>7. QED
  BY <1>5, <1>6

LEMMA DrqLeftAlone ==
  ASSUME PathsOK, DrqInv, NEW c \in Cpu, UNCHANGED <<drqq, served, drqWait>>, pc'[c] # "enq",
         \A d \in Cpu \ {c} : pc'[d] = pc[d] /\ reg'[d] = reg[d]
  PROVE  DrqInv'
<1>1. \A v \in Ctx, d \in Cpu : InHand(d, v)' => InHand(d, v) /\ reg'[d].to = reg[d].to
  BY HandsEmptied
<1>2. ASSUME NEW v \in Ctx PROVE DrqOf(v)'
  <2>1. DrqOf(v)
    BY DEF DrqInv
  <2>2. QED
    BY <1>1, <2>1, DrqKept DEF DrqOf
<1>3. QED
  BY <1>2 DEF DrqInv

\* The other actions leave every Drq where it is.
LEMMA NoDrq ==
  ASSUME StackInv, NEW c \in Cpu, Steps(c),
         ~ \E x \in Ctx : Drq(c, x),
         ~ (EnqueueDrq(c) \/ RereadHome(c) \/ SignalDrq(c) \/ ExecuteRequest(c))
  PROVE  UNCHANGED <<drqq, served, drqWait>> /\ pc'[c] # "enq"
<1>0. /\ PathsOK /\ StateOK /\ LocalsOK /\ reg[c] \in Reg
  BY TypeParts DEF StackInv, PathsOK
<1> USE DEF moves, flags, requests
<1>1. CASE \E x \in Ctx, target \in Cpu : Migrate(c, x, target)
  BY <1>1 DEF Migrate, Goto, PathsOK, StackInv, TypeOK
<1>2. CASE \E x \in Ctx : Wake(c, x)
  BY <1>0, <1>2, WakePath DEF Wake, PathTo
<1>3. CASE Wait(c) \/ LeaveMigrate(c)
  BY <1>3 DEF Wait, LeaveMigrate, Asks
<1>4. CASE Kill(c)
  BY <1>0, <1>4, KillPath DEF Kill, PathTo, Back
<1>5. CASE ReadHome(c) \/ MigrateXcpu(c) \/ StartMigration(c) \/ MigrateAway(c)
  <2>1. UNCHANGED <<drqq, served, drqWait>>
    BY <1>5 DEF ReadHome, MigrateXcpu, StartMigration, MigrateAway
  <2>2. \E l \in Labels \ {"enq"} : Goto(c, l)
    BY <1>0, <1>5 DEF ReadHome, MigrateXcpu, StartMigration, MigrateAway, Return, Reg, Labels
  <2>3. QED
    BY <1>0, <2>1, <2>2 DEF Goto, PathsOK
<1>6. CASE MigrateTo(c) \/ Deblock(c) \/ Applied(c) \/ IrqEnd(c) \/ \E y \in Ctx \cup {None} : Schedule(c, y)
  <2>1. UNCHANGED <<drqq, served, drqWait>>
    BY <1>6 DEF MigrateTo, Deblock, Applied, IrqEnd, Schedule
  <2>2. pc'[c] = pc[c] \/ \E l \in Labels \ {"enq"} : Goto(c, l)
    BY <1>0, <1>6 DEF MigrateTo, Deblock, Applied, IrqEnd, Schedule, HandleDrq, Return, Reg, Labels
  <2>3. pc[c] # "enq"
    BY <1>6 DEF MigrateTo, Deblock, Applied, IrqEnd, Schedule
  <2>4. QED
    BY <1>0, <2>1, <2>2, <2>3 DEF Goto, PathsOK
<1>7. CASE WakeReadHome(c) \/ WakeSignal(c) \/ NextRequest(c) \/ ApplyRequest(c)
           \/ Dead(c) \/ IpiArrives(c)
  <2>1. UNCHANGED <<drqq, served, drqWait>>
    BY <1>7 DEF WakeReadHome, WakeSignal, NextRequest, ApplyRequest, Dead, IpiArrives
  <2>2. \E l \in Labels \ {"enq"} : Goto(c, l)
    BY <1>0, <1>7 DEF WakeReadHome, WakeSignal, NextRequest, ApplyRequest, Dead, IpiArrives,
       Return, Reg, Labels
  <2>3. QED
    BY <1>0, <2>1, <2>2 DEF Goto, PathsOK
<1>8. QED
  BY <1>1, <1>2, <1>3, <1>4, <1>5, <1>6, <1>7 DEF Steps, KernelStep

\* Who sends a request is not waiting for another.
LEMMA DrqStarts ==
  ASSUME StackInv, DrqInv, NEW c \in Cpu, NEW x \in Ctx, Drq(c, x)
  PROVE  DrqInv'
<1>0. PathsOK /\ StateOK /\ LocalsOK
  BY TypeParts DEF StackInv
<1>1. PICK w \in Ctx : w = cur[c]
  BY <1>0 DEF Drq, Asks, StateOK
<1>2. /\ w \notin drqWait /\ x # w
      /\ drqWait' = drqWait \cup {w} /\ served' = [served EXCEPT ![w] = 0] /\ UNCHANGED drqq
  BY <1>1, MigrationAssumption DEF Drq, Asks
<1>3. PathTo(c, "enq", [reg[c] EXCEPT !.to = x, !.item = w])
  BY <1>0, <1>1, DrqPath
<1>4. /\ reg'[c].to = x /\ reg'[c].item = w /\ pc'[c] = "enq" /\ pc[c] # "enq"
      /\ \A d \in Cpu \ {c} : pc'[d] = pc[d] /\ reg'[d] = reg[d]
  <2>1. reg[c] \in Reg
    BY <1>0 DEF PathsOK
  <2>2. reg'[c] = [reg[c] EXCEPT !.to = x, !.item = w]
    BY <1>3 DEF PathTo
  <2>3. QED
    BY <1>3, <2>1, <2>2 DEF PathTo, Reg, Drq, Asks
<1>5. served'[w] = 0 /\ \A v \in Ctx : v # w => served'[v] = served[v]
  BY <1>0, <1>2 DEF StateOK
<1>6. ASSUME NEW v \in Ctx, v # w PROVE DrqOf(v)'
  <2>1. DrqOf(v)
    BY DEF DrqInv
  <2>2. \A d \in Cpu : InHand(d, v)' => InHand(d, v) /\ reg'[d].to = reg[d].to
    BY <1>4, <1>6 DEF InHand
  <2>3. QED
    BY <1>2, <1>5, <1>6, <2>1, <2>2, DrqKept DEF DrqOf
<1>7. DrqOf(w)'
  <2>1. /\ \A d \in Cpu : ~ InHand(d, w)
        /\ \A y \in Ctx : \A i \in DOMAIN drqq[y] : drqq[y][i] # w
    BY <1>2 DEF DrqInv, DrqOf
  <2>2. \A d \in Cpu : InHand(d, w)' => d = c
    BY <1>4, <2>1 DEF InHand
  <2>3. QED
    BY <1>2, <1>4, <1>5, <2>1, <2>2 DEF DrqOf, Turn
<1>8. QED
  BY <1>6, <1>7 DEF DrqInv

\* The Drq in the hands of c is queued, or executed at once.
LEMMA EnqueueDrqStep ==
  ASSUME StackInv, DrqInv, NEW c \in Cpu, EnqueueDrq(c)
  PROVE  DrqInv'
<1>0. PathsOK /\ StateOK /\ LocalsOK
  BY TypeParts DEF StackInv
<1>1. /\ pc[c] = "enq" /\ reg[c].to \in Ctx /\ reg[c].item \in Ctx
      /\ reg[c] \in Reg /\ reg[c].eret \in {"run", "drq"}
  BY <1>0 DEF EnqueueDrq, LocalsOK, LocalOK, Fits, Sending, PathsOK, Reg
<1>2. PICK y \in Ctx, w \in Ctx : y = reg[c].to /\ w = reg[c].item
  BY <1>1
<1>3. /\ DrqOf(w) /\ Turn(w, y) /\ w \in drqWait
      /\ \A z \in Ctx : \A i \in DOMAIN drqq[z] : drqq[z][i] # w
      /\ \A d \in Cpu : InHand(d, w) => d = c
  BY <1>1, <1>2 DEF DrqInv, DrqOf, InHand
<1>4. /\ pc'[c] # "enq"
      /\ \A d \in Cpu \ {c} : pc'[d] = pc[d] /\ reg'[d] = reg[d]
  <2>1. Back(c, reg[c].eret) \/ PathTo(c, "reread", reg[c])
    BY <1>0, EnqueueDrqPath
  <2>2. QED
    BY <1>1, <2>1 DEF Back, PathTo
<1>5. /\ ~ \E v : InHand(c, v)'
      /\ \A v \in Ctx, d \in Cpu : InHand(d, v)' => InHand(d, v) /\ reg'[d].to = reg[d].to
  BY <1>0, <1>4, HandsEmptied
<1>6. \A d \in Cpu : ~ InHand(d, w)'
  BY <1>3, <1>5
<1>7. CASE home[y] = c
  <2>1. UNCHANGED drqq /\ ExecuteDrq(c, y, w, c)
    BY <1>2, <1>7 DEF EnqueueDrq
  <2>2. /\ served'[w] = 1
        /\ \A v \in Ctx \ {w} : served'[v] = served[v] /\ (v \in drqWait' <=> v \in drqWait)
    BY <1>0, <1>3, <2>1, ServedOnce
  <2>3. ASSUME NEW v \in Ctx, v # w PROVE DrqOf(v)'
    <3>1. DrqOf(v)
      BY DEF DrqInv
    <3>2. QED
      BY <1>5, <2>1, <2>2, <2>3, <3>1, DrqKept DEF DrqOf
  <2>4. DrqOf(w)'
    BY <1>3, <1>6, <2>1, <2>2, Executed
  <2>5. QED
    BY <2>3, <2>4 DEF DrqInv
<1>8. CASE home[y] # c
  <2>1. drqq' = [drqq EXCEPT ![y] = Append(@, w)] /\ UNCHANGED <<served, drqWait>>
    BY <1>2, <1>8 DEF EnqueueDrq, flags
  <2>2. drqq[y] \in Seq(Ctx)
    BY <1>0 DEF StateOK
  <2>3. /\ \A z \in Ctx : z # y => drqq'[z] = drqq[z]
        /\ drqq'[y] = Append(drqq[y], w)
    BY <1>0, <2>1 DEF StateOK
  <2>4. /\ DOMAIN drqq'[y] = DOMAIN drqq[y] \cup {Len(drqq[y]) + 1}
        /\ \A i \in DOMAIN drqq[y] : drqq'[y][i] = drqq[y][i]
        /\ drqq'[y][Len(drqq[y]) + 1] = w
    BY <2>2, <2>3
  <2>5. ASSUME NEW v \in Ctx, v # w PROVE DrqOf(v)'
    <3>1. DrqOf(v)
      BY DEF DrqInv
    <3>2. ASSUME NEW z \in Ctx, NEW i \in DOMAIN drqq'[z], drqq'[z][i] = v
          PROVE  i \in DOMAIN drqq[z] /\ drqq[z][i] = v
      BY <2>3, <2>4, <2>5, <3>2
    <3>3. ASSUME NEW z \in Ctx, NEW i \in DOMAIN drqq'[z], drqq'[z][i] = v
          PROVE  /\ \E j \in DOMAIN drqq[z] : drqq[z][j] = v
                 /\ \A j \in DOMAIN drqq'[z] : drqq'[z][j] = v => j = i
      BY <3>1, <3>2, <3>3 DEF DrqOf
    <3>4. QED
      BY <1>5, <2>1, <3>1, <3>3, DrqKept
  <2>6. DrqOf(w)'
    <3>1. \A z \in Ctx : \A i \in DOMAIN drqq'[z] : drqq'[z][i] = w => z = y /\ i = Len(drqq[y]) + 1
      BY <1>3, <2>3, <2>4
    <3>2. w \in drqWait' /\ Turn(w, y)'
      BY <1>3, <2>1 DEF Turn
    <3>3. served'[w] = 1 \/ (served'[w] = 0 /\ w \in drqWait')
      BY <1>3, <2>1 DEF DrqOf
    <3>4. QED
      BY <1>6, <3>1, <3>2, <3>3 DEF DrqOf
  <2>7. QED
    BY <2>5, <2>6 DEF DrqInv
<1>9. QED
  BY <1>7, <1>8

LEMMA FirstOut ==
  ASSUME NEW S, NEW s \in Seq(S), s # <<>>, \A i, j \in DOMAIN s : s[i] = s[j] => i = j
  PROVE  Without(Tail(s), s, Head(s))
<1>1. /\ Head(s) = s[1] /\ 1 \in DOMAIN s
      /\ \A i \in DOMAIN Tail(s) : i \in Nat /\ i >= 1 /\ i + 1 \in DOMAIN s /\ Tail(s)[i] = s[i + 1]
  BY HeadTailProperties
<1>2. QED
  BY <1>1 DEF Without

\* A reply is taken, or a request gets into the hands of c, to be sent back as a reply.
LEMMA ExecuteRequestStep ==
  ASSUME StackInv, DrqInv, NEW c \in Cpu, ExecuteRequest(c)
  PROVE  DrqInv'
<1>0. PathsOK /\ StateOK /\ LocalsOK
  BY TypeParts DEF StackInv
<1>1. /\ pc[c] = "drq" /\ reg[c].x \in Ctx /\ reg[c] \in Reg
  BY <1>0 DEF ExecuteRequest, LocalsOK, LocalOK, Fits, UsesX, PathsOK
<1>2. PICK x \in Ctx : x = reg[c].x
  BY <1>1
<1>3. drqq[x] \in Seq(Ctx)
  BY <1>0 DEF StateOK
<1>4. CASE drqq[x] = <<>>
  <2>1. UNCHANGED <<drqq, served, drqWait>> /\ Return(c, reg[c].dret)
    BY <1>2, <1>4 DEF ExecuteRequest
  <2>2. pc'[c] # "enq" /\ \A d \in Cpu \ {c} : pc'[d] = pc[d] /\ reg'[d] = reg[d]
    BY <1>0, <1>1, <2>1 DEF Return, Goto, PathsOK, Reg
  <2>3. QED
    BY <1>0, <2>1, <2>2, DrqLeftAlone
<1>5. CASE drqq[x] # <<>>
  <2>1. PICK w \in Ctx : w = Head(drqq[x])
    BY <1>3, <1>5
  <2>2. drqq' = [drqq EXCEPT ![x] = Tail(drqq[x])]
    BY <1>2, <1>5 DEF ExecuteRequest
  <2>3. Without(Tail(drqq[x]), drqq[x], w)
    BY <1>0, <1>3, <1>5, <2>1, QueueOnce, FirstOut
  <2>4. \E k \in DOMAIN drqq[x] : drqq[x][k] = w
    BY <1>3, <1>5, <2>1
  <2>5. DrqOf(w) /\ Turn(w, x) /\ w \in drqWait /\ \A d \in Cpu : ~ InHand(d, w)
    BY <2>4 DEF DrqInv, DrqOf
  <2>6. CASE w = x
    <3>1. drqWait' = drqWait \ {w} /\ UNCHANGED <<served, pc, reg>>
      BY <1>2, <1>5, <2>1, <2>6 DEF ExecuteRequest
    <3>2. \A v \in Ctx \ {w} : Unmoved(v)
      BY <3>1 DEF Unmoved, InHand
    <3>3. /\ \A v \in Ctx \ {w} : DrqOf(v)'
          /\ \A z \in Ctx : \A i \in DOMAIN drqq'[z] : drqq'[z][i] # w
      BY <1>0, <2>2, <2>3, <2>4, <3>2, TakenOut
    <3>4. served'[w] = 1 /\ \A d \in Cpu : ~ InHand(d, w)'
      BY <2>5, <2>6, <3>1 DEF Turn, InHand
    <3>5. DrqOf(w)'
      BY <2>5, <3>3, <3>4, Executed
    <3>6. QED
      BY <3>3, <3>5 DEF DrqInv
  <2>7. CASE w # x
    <3>1. /\ served' = [served EXCEPT ![w] = @ + 1] /\ UNCHANGED drqWait
          /\ reg' = [reg EXCEPT ![c].to = w, ![c].item = w, ![c].eret = "drq"]
          /\ Goto(c, "enq")
      BY <1>2, <1>5, <2>1, <2>7 DEF ExecuteRequest
    <3>2. served'[w] = 1 /\ \A v \in Ctx : v # w => served'[v] = served[v]
      BY <1>0, <2>5, <2>7, <3>1 DEF StateOK, Turn
    <3>3. /\ pc'[c] = "enq" /\ reg'[c].to = w /\ reg'[c].item = w
          /\ \A d \in Cpu \ {c} : pc'[d] = pc[d] /\ reg'[d] = reg[d]
      <4>1. reg'[c] = [reg[c] EXCEPT !.to = w, !.item = w, !.eret = "drq"]
        BY <1>0, <3>1 DEF PathsOK
      <4>2. QED
        BY <1>0, <1>1, <3>1, <4>1 DEF Goto, PathsOK, Reg
    <3>4. \A v \in Ctx \ {w} : Unmoved(v)
      BY <1>1, <3>1, <3>2, <3>3 DEF Unmoved, InHand
    <3>5. /\ \A v \in Ctx \ {w} : DrqOf(v)'
          /\ \A z \in Ctx : \A i \in DOMAIN drqq'[z] : drqq'[z][i] # w
      BY <1>0, <2>2, <2>3, <2>4, <3>4, TakenOut
    <3>6. DrqOf(w)'
      <4>1. \A d \in Cpu : InHand(d, w)' => d = c
        BY <2>5, <3>3 DEF InHand
      <4>2. QED
        <5>1. w \in drqWait' /\ Turn(w, w)'
          BY <2>5, <3>1, <3>2 DEF Turn
        <5>2. QED
          BY <3>2, <3>3, <3>5, <4>1, <5>1 DEF DrqOf
    <3>7. QED
      BY <3>5, <3>6 DEF DrqInv
  <2>8. QED
    BY <2>6, <2>7
<1>6. QED
  BY <1>4, <1>5

LEMMA DrqStep ==
  ASSUME StackInv, DrqInv, NEW c \in Cpu, Steps(c)
  PROVE  DrqInv'
<1>0. /\ PathsOK /\ StateOK /\ LocalsOK /\ LocalOK(c) /\ reg[c] \in Reg
      /\ \A d \in Cpu \ {c} : pc'[d] = pc[d] /\ reg'[d] = reg[d]
  BY TypeParts, PathStep DEF StackInv, LocalsOK, PathsOK, PathStepOK, OnlyHere
<1>1. CASE RereadHome(c) \/ SignalDrq(c)
  <2>1. pc[c] \in {"reread", "signal"} /\ reg[c].to \in Ctx /\ reg[c].item \in Ctx
    BY <1>0, <1>1 DEF RereadHome, SignalDrq, LocalOK, Fits, Sending
  <2>2. PICK y \in Ctx, w \in Ctx : y = reg[c].to /\ w = reg[c].item
    BY <2>1
  <2>3. CASE \E at : DeqExecDrq(c, y, w, at)
    BY <1>0, <2>1, <2>2, <2>3, DeqExecStep DEF Sending
  <2>4. CASE UNCHANGED <<drqq, served, drqWait>> /\ pc'[c] # "enq"
    BY <1>0, <2>4, DrqLeftAlone
  <2>5. CASE RereadHome(c) /\ home[y] # c
    <3>1. UNCHANGED <<drqq, served, drqWait>> /\ Goto(c, "signal")
      BY <2>2, <2>5 DEF RereadHome, flags, requests
    <3>2. QED
      BY <1>0, <2>4, <3>1 DEF Goto, PathsOK
  <2>6. CASE SignalDrq(c) /\ ~ \E at : DeqExecDrq(c, y, w, at)
    <3>1. UNCHANGED <<drqq, served, drqWait>> /\ Return(c, reg[c].eret)
      BY <2>2, <2>6 DEF SignalDrq, flags, requests
    <3>2. QED
      BY <1>0, <2>4, <3>1 DEF Return, Goto, PathsOK, Reg
  <2>7. QED
    BY <1>1, <2>2, <2>3, <2>5, <2>6 DEF RereadHome
<1>2. CASE \E x \in Ctx : Drq(c, x)
  BY <1>2, DrqStarts
<1>3. CASE EnqueueDrq(c)
  BY <1>3, EnqueueDrqStep
<1>4. CASE ExecuteRequest(c)
  BY <1>4, ExecuteRequestStep
<1>5. CASE /\ ~ \E x \in Ctx : Drq(c, x)
           /\ ~ (EnqueueDrq(c) \/ RereadHome(c) \/ SignalDrq(c) \/ ExecuteRequest(c))
  BY <1>0, <1>5, NoDrq, DrqLeftAlone
<1>6. QED
  BY <1>1, <1>2, <1>3, <1>4, <1>5


\* A request is executed once, by whichever CPU gets hold of it.
THEOREM MigrationExecutedOnce == Spec => []ExecutedOnce
<1>1. Init => DrqInv
  <2> SUFFICES ASSUME Init, NEW w \in Ctx PROVE DrqOf(w)
    BY DEF DrqInv
  <2>2. QED
    <3>1. \A y \in Ctx : drqq[y] = <<>>
      BY DEF Init
    <3>2. QED
      BY <3>1 DEF Init, DrqOf, InHand
<1>2. StackInv /\ DrqInv /\ [Next]_vars => DrqInv'
  <2> SUFFICES ASSUME StackInv, DrqInv, [Next]_vars PROVE DrqInv'
    OBVIOUS
  <2>2. CASE UNCHANGED vars
    BY <2>2 DEF vars, flags, requests, DrqInv, DrqOf, InHand, Turn
  <2>3. ASSUME NEW c \in Cpu, Steps(c) PROVE DrqInv'
    BY <2>3, DrqStep
  <2>4. QED
    BY <2>2, <2>3, NextSteps
<1>3. DrqInv => ExecutedOnce
  BY DEF DrqInv, DrqOf, ExecutedOnce
<1>4. QED
  BY <1>1, <1>2, <1>3, StackInit, StackStep, PTL DEF Spec

-----------------------------------------------------------------------------
\* The timeouts of a context are on its home CPU, or are to be set anew there, which they
\* are before it runs.
TimerInv ==
    /\ \A x \in Ctx : x \in finish \/ home[x] = Off \/ timers[x] = home[x]
    /\ \A c \in Cpu : cur[c] # None /\ pc[c] # "dead" => cur[c] \notin finish

\* A migration is finished by the new home CPU.
LEMMA FinishChange ==
  ASSUME StackInv, HomeInv, NEW c \in Cpu, Steps(c)
  PROVE  \/ UNCHANGED <<home, finish, timers>>
         \/ UNCHANGED home /\ \E x \in Ctx : home[x] = c /\ FinishMigration(c, x)
         \/ MigrateAway(c) \/ Kill(c)
<1>0. StateOK /\ PathsOK /\ LocalsOK
  BY TypeParts DEF StackInv
<1> USE DEF flags, moves, requests
<1>1. CASE \/ \E x \in Ctx, target \in Cpu : Migrate(c, x, target)
           \/ \E x \in Ctx : Drq(c, x) \/ Wake(c, x)
  BY <1>1 DEF Migrate, Drq, Wake
<1>2. CASE Wait(c) \/ LeaveMigrate(c) \/ IpiArrives(c) \/ Dead(c)
  BY <1>2 DEF Wait, LeaveMigrate, IpiArrives, Dead
<1>3. CASE \E y \in Ctx \cup {None} : Schedule(c, y)
  <2>1. PICK y \in Ctx \cup {None} : Schedule(c, y)
    BY <1>3
  <2>2. CASE y = None
    BY <2>1, <2>2 DEF Schedule
  <2>3. CASE y # None
    <3>1. y \in Ctx /\ UNCHANGED home /\ FinishMigration(c, y) /\ pc[c] = "run"
      BY <2>1, <2>3 DEF Schedule, HandleDrq
    <3>2. queued[y] = c \/ y = cur[c]
      BY <2>1, <2>3 DEF Schedule
    <3>3. home[y] = c
      BY <3>1, <3>2, RunsHere, MigrationAssumption DEF HomeInv, QueuedInv, Sending
    <3>4. QED
      BY <3>1, <3>3
  <2>4. QED
    BY <2>2, <2>3
<1>4. CASE MigrateTo(c)
  <2>1. reg[c].x \in Ctx
    BY <1>0, <1>4 DEF MigrateTo, LocalsOK, LocalOK, Fits, UsesX
  <2>2. QED
    BY <1>4, <2>1 DEF MigrateTo, HandleDrq
<1>5. CASE ApplyRequest(c) \/ Applied(c)
  <2>1. reg[c].x \in Ctx
    BY <1>0, <1>5 DEF ApplyRequest, Applied, LocalsOK, LocalOK, Fits, UsesX
  <2>2. pc[c] = "apply" => home[reg[c].x] = c
    BY DEF HomeInv, CpuInv, PathAt
  <2>3. QED
    BY <1>5, <2>1, <2>2 DEF ApplyRequest, Applied, HandleDrq
<1>6. CASE IrqEnd(c)
  <2>1. CASE cur[c] = None
    BY <1>6, <2>1 DEF IrqEnd
  <2>2. CASE cur[c] # None
    <3>1. pc[c] = "irqEnd" /\ FinishMigration(c, cur[c]) /\ UNCHANGED home
      BY <1>6, <2>2 DEF IrqEnd, HandleDrq
    <3>2. cur[c] \in Ctx /\ home[cur[c]] = c
      BY <2>2, <3>1, RunsHere DEF Sending
    <3>3. QED
      BY <3>1, <3>2
  <2>3. QED
    BY <2>1, <2>2
<1>7. CASE \/ ReadHome(c) \/ MigrateXcpu(c) \/ StartMigration(c) \/ Deblock(c)
           \/ EnqueueDrq(c) \/ RereadHome(c) \/ SignalDrq(c) \/ ExecuteRequest(c)
           \/ WakeReadHome(c) \/ WakeSignal(c) \/ NextRequest(c)
  BY <1>7 DEF ReadHome, MigrateXcpu, StartMigration, Deblock, EnqueueDrq, RereadHome,
     SignalDrq, ExecuteRequest, WakeReadHome, WakeSignal, NextRequest, DeqExecDrq, ExecuteDrq
<1>8. QED
  BY <1>1, <1>2, <1>3, <1>4, <1>5, <1>6, <1>7 DEF Steps, KernelStep

\* What becomes of the current context; who has exited does nothing more.
LEMMA CurChange ==
  ASSUME StackInv, NEW c \in Cpu, Steps(c)
  PROVE  /\ cur'[c] \in {cur[c], None} \/ \E y \in Ctx : cur'[c] = y /\ Schedule(c, y)
         /\ pc[c] = "dead" => cur'[c] = None
<1>0. PathsOK
  BY TypeParts DEF StackInv
<1> USE DEF flags, moves, requests
<1>1. CASE \/ \E x \in Ctx, target \in Cpu : Migrate(c, x, target)
           \/ \E x \in Ctx : Drq(c, x) \/ Wake(c, x)
  BY <1>1 DEF Migrate, Drq, Wake, Asks
<1>2. CASE Wait(c) \/ LeaveMigrate(c) \/ IpiArrives(c) \/ Kill(c)
  BY <1>2 DEF Wait, LeaveMigrate, IpiArrives, Kill, Asks, InterruptsOn
<1>3. CASE Dead(c)
  BY <1>0, <1>3 DEF Dead, PathsOK
<1>4. CASE \E y \in Ctx \cup {None} : Schedule(c, y)
  <2>1. PICK y \in Ctx \cup {None} : Schedule(c, y)
    BY <1>4
  <2>2. pc[c] = "run" /\ cur'[c] = y
    BY <1>0, <2>1 DEF Schedule, PathsOK
  <2>3. QED
    BY <2>1, <2>2
<1>5. CASE StartMigration(c)
  BY <1>0, <1>5 DEF StartMigration, PathsOK
<1>6. CASE \/ ReadHome(c) \/ MigrateXcpu(c) \/ MigrateAway(c) \/ MigrateTo(c) \/ Deblock(c)
           \/ EnqueueDrq(c) \/ RereadHome(c) \/ SignalDrq(c) \/ ExecuteRequest(c)
  BY <1>6 DEF ReadHome, MigrateXcpu, MigrateAway, MigrateTo, Deblock, EnqueueDrq, RereadHome,
     SignalDrq, ExecuteRequest
<1>7. CASE \/ WakeReadHome(c) \/ WakeSignal(c) \/ NextRequest(c) \/ ApplyRequest(c)
           \/ Applied(c) \/ IrqEnd(c)
  BY <1>7 DEF WakeReadHome, WakeSignal, NextRequest, ApplyRequest, Applied, IrqEnd
<1>8. QED
  BY <1>1, <1>2, <1>3, <1>4, <1>5, <1>6, <1>7 DEF Steps, KernelStep

\* No CPU runs the context another one sends away.
LEMMA OthersRunOn ==
  ASSUME StackInv, HomeInv, NEW c \in Cpu, MigrateAway(c), NEW d \in Cpu,
         cur[d] # None, pc[d] # "dead"
  PROVE  cur[d] # reg[c].x
<1>1. pc[c] = "away" /\ pc[c] \in Moving
  BY DEF MigrateAway, Moving
<1>2. CurAt(c) /\ CurAt(d) /\ DyingAt(d) /\ PathAt(c)
  BY DEF HomeInv, CpuInv
<1>3. CASE d = c
  BY <1>1, <1>2, <1>3 DEF CurAt
<1>4. CASE d # c /\ reg[d].dret = "dead"
  BY <1>1, <1>2, <1>4 DEF DyingAt
<1>5. CASE d # c /\ reg[d].dret # "dead"
  BY <1>1, <1>2, <1>5, MigrationAssumption DEF CurAt, PathAt, Here
<1>6. QED
  BY <1>3, <1>4, <1>5

LEMMA TimerStep ==
  ASSUME StackInv, HomeInv, TimerInv, NEW c \in Cpu, Steps(c)
  PROVE  TimerInv'
<1>0. StateOK /\ PathsOK /\ LocalsOK
      /\ \A d \in Cpu \ {c} : pc'[d] = pc[d] /\ reg'[d] = reg[d] /\ cur'[d] = cur[d]
  BY TypeParts, PathStep DEF StackInv, PathStepOK, OnlyHere
<1>1. \A x \in Ctx : x \in finish' \/ home'[x] = Off \/ timers'[x] = home'[x]
  <2>1. CASE UNCHANGED <<home, finish, timers>>
    BY <2>1 DEF TimerInv
  <2>2. CASE UNCHANGED home /\ \E x \in Ctx : home[x] = c /\ FinishMigration(c, x)
    BY <1>0, <2>2 DEF TimerInv, FinishMigration, StateOK
  <2>3. CASE MigrateAway(c)
    BY <1>0, <2>3 DEF TimerInv, MigrateAway, StateOK
  <2>4. CASE Kill(c)
    <3>1. cur[c] \in Ctx
      BY <1>0, <2>4 DEF Kill, Asks, StateOK
    <3>2. /\ home' = [home EXCEPT ![cur[c]] = Off]
          /\ FinishMigration(c, cur[c])
      BY <2>4 DEF Kill, HandleDrq
    <3>3. QED
      BY <1>0, <3>1, <3>2 DEF TimerInv, FinishMigration, StateOK
  <2>5. QED
    BY <2>1, <2>2, <2>3, <2>4, FinishChange
<1>2. ASSUME NEW d \in Cpu, cur'[d] # None, pc'[d] # "dead" PROVE cur'[d] \notin finish'
  <2>1. CASE \E y \in Ctx : d = c /\ cur'[d] = y /\ Schedule(c, y)
    BY <2>1, MigrationAssumption DEF Schedule, HandleDrq, FinishMigration
  <2>2. CASE cur'[d] = cur[d] /\ pc[d] # "dead"
    <3>1. cur[d] \notin finish
      BY <1>2, <2>2 DEF TimerInv
    <3>2. CASE MigrateAway(c)
      <4>1. cur[d] # reg[c].x /\ finish' = finish \cup {reg[c].x}
        BY <1>2, <2>2, <3>2, OthersRunOn DEF MigrateAway
      <4>2. QED
        BY <2>2, <3>1, <4>1
    <3>3. CASE ~ MigrateAway(c)
      <4>1. finish' \subseteq finish
        BY <3>3, FinishChange DEF FinishMigration, Kill, HandleDrq
      <4>2. QED
        BY <2>2, <3>1, <4>1
    <3>4. QED
      BY <3>2, <3>3
  <2>3. QED
    BY <1>0, <1>2, <2>1, <2>2, CurChange
<1>3. QED
  BY <1>1, <1>2 DEF TimerInv

\* Under the same condition, who runs in user mode has its timeouts there.
THEOREM MigrationTimersHere == Careful => (Spec => []TimersHere)
<1> SUFFICES ASSUME Careful PROVE Spec => []TimersHere
  OBVIOUS
<1>1. Init => TimerInv
  BY MigrationAssumption DEF Init, TimerInv
<1>2. StackInv /\ HomeInv /\ TimerInv /\ [Next]_vars => TimerInv'
  <2> SUFFICES ASSUME StackInv, HomeInv, TimerInv, [Next]_vars PROVE TimerInv'
    OBVIOUS
  <2>1. CASE UNCHANGED vars
    BY <2>1 DEF vars, flags, TimerInv
  <2>2. ASSUME NEW c \in Cpu, Steps(c) PROVE TimerInv'
    BY <2>2, TimerStep
  <2>3. QED
    BY <2>1, <2>2, NextSteps
<1>3. StackInv /\ HomeInv /\ TimerInv => TimersHere
  <2> SUFFICES ASSUME StackInv, HomeInv, TimerInv, NEW c \in Cpu,
                      InterruptsOn(c), cur[c] # None
               PROVE  timers[cur[c]] = c
    BY DEF TimersHere
  <2>1. pc[c] = "run"
    BY DEF InterruptsOn
  <2>2. cur[c] \in Ctx /\ home[cur[c]] = c
    BY <2>1, RunsHere DEF Sending
  <2>3. QED
    BY <2>1, <2>2, MigrationAssumption DEF TimerInv
<1>4. StackInv /\ HomeInv /\ [Next]_vars => HomeInv'
  BY HomeStep
<1>5. QED
  BY <1>1, <1>2, <1>3, <1>4, StackInit, StackStep, HomeInit, PTL DEF Spec

=============================================================================
