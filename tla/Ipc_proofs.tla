------------------------------ MODULE Ipc_proofs ------------------------------
(* Proofs about Ipc: its types, that no rendezvous is missed, that a reply    *)
(* capability leads to a caller that waits for the reply, and that do_ipc()   *)
(* implements Rendezvous.                                                     *)
(*                                                                            *)
(* 1. TypeInv: the types, and what the locals hold where they are used.       *)
(* 2. PathInv: what a thread knows at each place of do_ipc().  OwnPath says   *)
(*    that a step of t, also one that another CPU makes for t, leaves the     *)
(*    places of all others alone; only their flags and lists change.          *)
(* 3. SendInv: a sender is in one list at most, that of its receiver, once,   *)
(*    and only while it waits; and flags that another CPU has changed for it  *)
(*    are taken before it goes on.  Summary says of every step who joins or   *)
(*    leaves which list, and that the others are Kept as they were.           *)
(* 4. QueueInv: a receiver that has looked and found nobody has nobody.       *)
(* 5. CapInv: to whom a reply capability leads.                               *)
(* 6. MeetInv: what a thread has sent and received at each place (ThreadOK),  *)
(*    and what it owes to the receiver of its transfer (OwesOK).              *)
(* 7. StepRefines: each step is one of Rendezvous, or none.                   *)
(*                                                                            *)
(* 4 and 5 rest on PickedStillWaits, 6 and 7 on PickedNeverGone and           *)
(* AbortsApart.  The code does not ensure them.                               *)
(* 8. RaceInv: all of this holds until the first of the two races of IpcRaces *)
(*    has happened, with no assumption.                                       *)
EXTENDS IpcRaces, SequenceTheorems, TLAPS

-----------------------------------------------------------------------------
\* Types.

\* Each place of do_ipc() has set the locals it goes by, and a DRQ is out only
\* while its thread waits for the answer.

ToOK(t) == /\ pc[t] \in {"send", "copy", "drq", "sendWait", "abort"} => reg[t].to # None
           /\ pc[t] = "activate" => reg[t].activate = TRUE
           /\ reg[t].activate = TRUE => reg[t].to # None
           /\ pc[t] = "pull" => reg[t].next # None
           /\ drq[t] # "none" => pc[t] \in {"drq", "abort"} /\ "drq_wait" \in st[t]

TypeInv == TypeOK /\ \A t \in Thread : ToOK(t)

\* Who is here has not looked for a sender yet.
Before == {"send", "drq", "sendWait", "abort", "copy", "pick"}

\* ... and who is here is in no call.
Out == {"user", "kill", "dying", "dead"}

\* t has no partner but the one of its call, or the sender it has picked in an
\* open wait; and DRQs are out only where they are sent.
PathOK(t) ==
    /\ pc[t] \in Before \cup {"asleep"} => reg[t].next = None
    /\ pc[t] \notin Out => \/ partner[t] = reg[t].from
                           \/ reg[t].from = Anyone /\ reg[t].next # None
    /\ drq[t] = "send" => pc[t] = "drq" /\ ~ Local(t, reg[t].to)
    /\ drq[t] = "abort" => pc[t] = "abort"

PathInv == TypeInv /\ \A t \in Thread : PathOK(t)

\* TypeOK in parts.
FlagsOK == st \in [Thread -> SUBSET Flag] /\ chg \in [Thread -> Changes]
QueuesOK == /\ partner \in [Thread -> Thread \cup {None, Anyone}]
            /\ caller \in [Thread -> Thread \cup {None}]
            /\ senders \in [Thread -> Seq(Thread)]
RestOK == /\ alarm \in [Thread -> BOOLEAN]
          /\ drq \in [Thread -> {"none", "send", "abort", "reply"}]
          /\ calls \in [Thread -> Seq(Call)]
          /\ events \subseteq Event
          /\ sent \in [Thread -> BOOLEAN]
          /\ got \in [Thread -> BOOLEAN]
          /\ told \in [Thread -> BOOLEAN \X BOOLEAN]
PathsOK == /\ pc \in [Thread -> Labels]
           /\ reg \in [Thread -> Locals]
           /\ \A t \in Thread : ToOK(t)

\* The parts are all of it.
LEMMA TypeParts == /\ TypeInv <=> FlagsOK /\ QueuesOK /\ RestOK /\ PathsOK
                   /\ TypeInv' <=> FlagsOK' /\ QueuesOK' /\ RestOK' /\ PathsOK'
  BY DEF TypeInv, TypeOK, FlagsOK, QueuesOK, RestOK, PathsOK

\* Assignments to the locals.

LEMMA LocalTypes ==
  ASSUME NEW r \in Locals
  PROVE  /\ r.to \in Thread \cup {None} /\ r.from \in Thread \cup {None, Anyone}
         /\ r.next \in Thread \cup {None}
         /\ r.items \in BOOLEAN /\ r.activate \in BOOLEAN /\ r.ok \in BOOLEAN
  BY DEF Locals

LEMMA SetRes ==
  ASSUME NEW g \in [Thread -> Locals], NEW t \in Thread,
         NEW v \in {"none", "failed", "queued", "open", "closed", "done", "cancel"},
         NEW h, h = [g EXCEPT ![t].res = v]
  PROVE      /\ h \in [Thread -> Locals]
             /\ \A u \in Thread :
                   /\ h[u].to = g[u].to /\ h[u].from = g[u].from /\ h[u].items = g[u].items
                   /\ h[u].res = IF u = t THEN v ELSE g[u].res
                   /\ h[u].next = g[u].next /\ h[u].activate = g[u].activate
                   /\ h[u].ok = g[u].ok /\ h[u].tag = g[u].tag
  BY DEF Locals

LEMMA SetOk ==
  ASSUME NEW g \in [Thread -> Locals], NEW t \in Thread, NEW v \in BOOLEAN,
         NEW h, h = [g EXCEPT ![t].ok = v]
  PROVE      /\ h \in [Thread -> Locals]
             /\ \A u \in Thread :
                   /\ h[u].to = g[u].to /\ h[u].from = g[u].from /\ h[u].items = g[u].items
                   /\ h[u].ok = IF u = t THEN v ELSE g[u].ok
                   /\ h[u].next = g[u].next /\ h[u].activate = g[u].activate
                   /\ h[u].res = g[u].res /\ h[u].tag = g[u].tag
  BY DEF Locals

LEMMA SetTag ==
  ASSUME NEW g \in [Thread -> Locals], NEW t \in Thread, NEW v \in {"none", "msg", "error"},
         NEW h, h = [g EXCEPT ![t].tag = v]
  PROVE      /\ h \in [Thread -> Locals]
             /\ \A u \in Thread :
                   /\ h[u].to = g[u].to /\ h[u].from = g[u].from /\ h[u].items = g[u].items
                   /\ h[u].tag = IF u = t THEN v ELSE g[u].tag
                   /\ h[u].next = g[u].next /\ h[u].activate = g[u].activate
                   /\ h[u].res = g[u].res /\ h[u].ok = g[u].ok
  BY DEF Locals

LEMMA SetNext ==
  ASSUME NEW g \in [Thread -> Locals], NEW t \in Thread, NEW v \in Thread \cup {None},
         NEW h, h = [g EXCEPT ![t].next = v]
  PROVE      /\ h \in [Thread -> Locals]
             /\ \A u \in Thread :
                   /\ h[u].to = g[u].to /\ h[u].from = g[u].from /\ h[u].items = g[u].items
                   /\ h[u].next = IF u = t THEN v ELSE g[u].next
                   /\ h[u].activate = g[u].activate /\ h[u].res = g[u].res
                   /\ h[u].ok = g[u].ok /\ h[u].tag = g[u].tag
  BY DEF Locals

LEMMA SetActivate ==
  ASSUME NEW g \in [Thread -> Locals], NEW t \in Thread, NEW v \in BOOLEAN,
         NEW h, h = [g EXCEPT ![t].activate = v]
  PROVE      /\ h \in [Thread -> Locals]
             /\ \A u \in Thread :
                   /\ h[u].to = g[u].to /\ h[u].from = g[u].from /\ h[u].items = g[u].items
                   /\ h[u].activate = IF u = t THEN v ELSE g[u].activate
                   /\ h[u].next = g[u].next /\ h[u].res = g[u].res
                   /\ h[u].ok = g[u].ok /\ h[u].tag = g[u].tag
  BY DEF Locals

Copied(h, g, t, p, v, w) ==
    h = [g EXCEPT ![t].ok = v, ![t].activate = TRUE, ![p].tag = w]

LEMMA SetCopied ==
  ASSUME NEW g \in [Thread -> Locals], NEW t \in Thread, NEW p \in Thread,
         NEW v \in BOOLEAN, NEW w \in {"none", "msg", "error"},
         NEW h, Copied(h, g, t, p, v, w)
  PROVE  /\ h \in [Thread -> Locals]
         /\ \A u \in Thread :
               /\ h[u].to = g[u].to /\ h[u].from = g[u].from /\ h[u].items = g[u].items
               /\ h[u].next = g[u].next /\ h[u].res = g[u].res
               /\ (u = t => h[u].activate) /\ (u # t => h[u].activate = g[u].activate)
               /\ h[u].ok = IF u = t THEN v ELSE g[u].ok
               /\ h[u].tag = IF u = p THEN w ELSE g[u].tag
<1>1. PICK g1 : g1 = [g EXCEPT ![t].ok = v]
  OBVIOUS
<1>0. PICK a : a \in BOOLEAN /\ a = TRUE
  OBVIOUS
<1>2. PICK g2 : g2 = [g1 EXCEPT ![t].activate = a]
  OBVIOUS
<1>3. h = [g2 EXCEPT ![p].tag = w]
  BY <1>0, <1>1, <1>2 DEF Copied
<1>4. /\ g1 \in [Thread -> Locals]
      /\ \A u \in Thread :
            /\ g1[u].to = g[u].to /\ g1[u].from = g[u].from
            /\ g1[u].items = g[u].items /\ g1[u].next = g[u].next /\ g1[u].res = g[u].res
            /\ g1[u].activate = g[u].activate /\ g1[u].tag = g[u].tag
            /\ g1[u].ok = IF u = t THEN v ELSE g[u].ok
  BY <1>1 DEF Locals
<1>5. /\ g2 \in [Thread -> Locals]
      /\ \A u \in Thread :
            /\ g2[u].to = g1[u].to /\ g2[u].from = g1[u].from
            /\ g2[u].items = g1[u].items /\ g2[u].next = g1[u].next /\ g2[u].res = g1[u].res
            /\ g2[u].ok = g1[u].ok /\ g2[u].tag = g1[u].tag
            /\ (u = t => g2[u].activate = a) /\ (u # t => g2[u].activate = g1[u].activate)
  <2>1. g1 \in [Thread -> Locals]
    BY <1>4
  <2>0. a \in BOOLEAN
    BY <1>0
  <2>2. g2 \in [Thread -> Locals]
    BY ONLY <2>0, <1>2, <2>1 DEF Locals
  <2>3. QED
    BY ONLY <1>2, <2>1, <2>2 DEF Locals
<1>6. /\ h \in [Thread -> Locals]
      /\ \A u \in Thread :
            /\ h[u].to = g2[u].to /\ h[u].from = g2[u].from
            /\ h[u].items = g2[u].items /\ h[u].next = g2[u].next /\ h[u].res = g2[u].res
            /\ h[u].ok = g2[u].ok /\ h[u].activate = g2[u].activate
            /\ h[u].tag = IF u = p THEN w ELSE g2[u].tag
  <2>1. g2 \in [Thread -> Locals]
    BY <1>5
  <2>2. h \in [Thread -> Locals]
    BY ONLY <1>3, <2>1 DEF Locals
  <2>3. QED
    BY ONLY <1>3, <2>1, <2>2 DEF Locals
<1>7. ASSUME NEW u \in Thread
      PROVE  (u = t => h[u].activate) /\ (u # t => h[u].activate = g[u].activate)
  <2>1. /\ h[u].activate = g2[u].activate /\ g1[u].activate = g[u].activate
        /\ u = t => g2[u].activate = a
        /\ u # t => g2[u].activate = g1[u].activate
    BY <1>4, <1>5, <1>6, <1>7
  <2>2. QED
    BY ONLY <1>0, <2>1, Zenon
<1>8. QED
  BY ONLY <1>4, <1>5, <1>6, <1>7

\* RemoveAt(), element by element.
LEMMA SkipOne ==
  ASSUME NEW S, NEW s \in Seq(S), NEW k \in 1..Len(s)
  PROVE  /\ RemoveAt(s, k) \in Seq(S)
         /\ Len(RemoveAt(s, k)) = Len(s) - 1
         /\ \A i \in 1..(Len(s) - 1) :
               RemoveAt(s, k)[i] = s[IF i < k THEN i ELSE i + 1]
<1> DEFINE f == SubSeq(s, 1, k - 1)
           g == SubSeq(s, k + 1, Len(s))
<1>1. /\ f \in Seq(S) /\ Len(f) = k - 1
      /\ \A i \in 1..(k - 1) : f[i] = s[i]
  BY SubSeqProperties
<1>2. /\ g \in Seq(S) /\ Len(g) = Len(s) - k
      /\ \A i \in 1..(Len(s) - k) : g[i] = s[k + i]
  BY SubSeqProperties
<1>3. /\ f \o g \in Seq(S) /\ Len(f \o g) = Len(f) + Len(g)
      /\ \A i \in 1..(Len(f) + Len(g)) :
            (f \o g)[i] = IF i <= Len(f) THEN f[i] ELSE g[i - Len(f)]
  BY <1>1, <1>2, ConcatProperties
<1>4. RemoveAt(s, k) = f \o g
  BY DEF RemoveAt
<1> HIDE DEF f, g
<1>5. Len(s) \in Nat /\ Len(f) + Len(g) = Len(s) - 1
  BY <1>1, <1>2
<1>6. ASSUME NEW i \in 1..(Len(s) - 1)
      PROVE  (f \o g)[i] = s[IF i < k THEN i ELSE i + 1]
  <2>1. CASE i < k
    BY <1>1, <1>3, <1>5, <2>1
  <2>2. CASE ~ (i < k)
    <3>1. (f \o g)[i] = g[i - Len(f)] /\ i - Len(f) \in 1..(Len(s) - k)
      BY <1>1, <1>3, <1>5, <2>2
    <3>2. QED
      BY <1>1, <1>2, <2>2, <3>1
  <2>3. QED
    BY <2>1, <2>2
<1>7. QED
  BY <1>3, <1>4, <1>5, <1>6

\* sender_dequeue() leaves lists of threads.
LEMMA UnlistedType ==
  ASSUME TypeOK, NEW s
  PROVE  Unlisted(s) \in [Thread -> Seq(Thread)]
<1>1. ASSUME NEW p \in Thread
      PROVE  Unlisted(s)[p] \in Seq(Thread)
  <2>1. senders[p] \in Seq(Thread)
    BY DEF TypeOK
  <2>2. CASE Contains(senders[p], s)
    <3> DEFINE k == CHOOSE i \in DOMAIN senders[p] : senders[p][i] = s
    <3>1. k \in 1..Len(senders[p])
      BY <2>1, <2>2 DEF Contains
    <3>2. Unlisted(s)[p] = RemoveAt(senders[p], k)
      BY <2>2 DEF Unlisted
    <3> HIDE DEF k
    <3>3. QED
      BY <2>1, <3>1, <3>2, SkipOne
  <2>3. CASE ~ Contains(senders[p], s)
    BY <2>1, <2>3 DEF Unlisted
  <2>4. QED
    BY <2>2, <2>3
<1>2. QED
  BY <1>1 DEF Unlisted

\* xcpu_state_change() of flags and changes that have their types.
LEMMA XcpuType ==
  ASSUME NEW f \in [Thread -> SUBSET Flag], NEW g \in [Thread -> Changes],
         NEW t, NEW x \in Thread,
         NEW del \in SUBSET (IpcMask \cup {"transfer"}),
         NEW add \in SUBSET {"ready", "receive_wait", "transfer_failed"},
         XcpuStateChange(t, x, del, add, f, g)
  PROVE  FlagsOK'
<1>1. CASE Local(t, x)
  <2>1. (f[x] \ del) \cup add \in SUBSET Flag
    BY DEF Flag, FullMask, IpcMask, Abort
  <2>2. QED
    BY <1>1, <2>1 DEF XcpuStateChange, FlagsOK
<1>2. CASE ~ Local(t, x)
  <2>1. [del |-> (g[x].del \ add) \cup del, add |-> (g[x].add \ del) \cup add] \in Changes
    BY DEF Changes
  <2>2. QED
    BY <1>2, <2>1 DEF XcpuStateChange, FlagsOK
<1>3. QED
  BY <1>1, <1>2

\* handle_remote_state_change() leaves flags, and no changes.
LEMMA ChangeType ==
  ASSUME TypeOK, NEW t \in Thread, NEW f \in SUBSET Flag
  PROVE  Change(f, t) \in SUBSET Flag /\ ChangeTaken(t) \in [Thread -> Changes]
  BY DEF TypeOK, Change, ChangeTaken, Changes, NoChange, Flag, FullMask, IpcMask, Abort

\* The changes of other CPUs are about IPC.
LEMMA ChangeFlags ==
  ASSUME TypeOK, NEW t \in Thread, NEW f
  PROVE  /\ "drq_wait" \in Change(f, t) <=> "drq_wait" \in f
         /\ "dead" \in Change(f, t) <=> "dead" \in f
         /\ "dying" \in Change(f, t) <=> "dying" \in f
<1>1. chg[t] \in Changes
  BY DEF TypeOK
<1>2. QED
  BY <1>1 DEF Change, Changes, IpcMask

\* Init has the types, whatever the scenes.
LEMMA InitType == Init => TypeInv
<1> SUFFICES ASSUME Init PROVE TypeInv
  OBVIOUS
<1>1. calls \in [Thread -> Seq(Call)] /\ events \in SUBSET Event
  <2>1. PICK z \in Scenes : calls = z.calls /\ events = z.events
    BY DEF Init
  <2>2. z \in Scene
    BY IpcAssumption
  <2>3. QED
    BY <2>1, <2>2 DEF Scene
<1>2. FlagsOK /\ QueuesOK
  BY DEF Init, FlagsOK, QueuesOK, NoChange, Flag, Changes
<1>3. RestOK
  BY <1>1 DEF Init, RestOK
<1>4. PathsOK
  BY IpcAssumption DEF Init, PathsOK, ToOK, Idle, Labels, Locals, Limit
<1>5. QED
  BY <1>2, <1>3, <1>4, TypeParts

LEMMA StutterType == TypeInv /\ UNCHANGED vars => TypeInv'
  BY DEF TypeInv, TypeOK, ToOK, vars, flags, world, history

\* The call that t makes is a call.
LEMMA CallType ==
  ASSUME TypeInv, NEW t \in Thread, DoIpc(t)
  PROVE  /\ Head(calls[t]) \in Call /\ calls' \in [Thread -> Seq(Call)]
         /\ Head(calls[t]).from \in Thread \cup {None, Anyone}
         /\ Head(calls[t]).to # Reply => Head(calls[t]).to \in Thread \cup {None}
<1>1. calls[t] \in Seq(Call) /\ calls[t] # <<>>
  BY DEF TypeInv, TypeOK, DoIpc
<1>2. Head(calls[t]) \in Call /\ Tail(calls[t]) \in Seq(Call)
  BY <1>1
<1>3. calls' = [calls EXCEPT ![t] = Tail(@)]
  BY DEF DoIpc
<1>4. calls' \in [Thread -> Seq(Call)]
  BY <1>2, <1>3 DEF TypeInv, TypeOK
<1>5. QED
  BY <1>2, <1>4 DEF Call

\* Each action keeps TypeInv.  First the send phase.
LEMMA DoIpcType ==
  ASSUME TypeInv, NEW t \in Thread, DoIpc(t)
  PROVE  TypeInv'
<1> DEFINE k == Head(calls[t])
           to == IF k.to = Reply THEN caller[t] ELSE k.to
<1>1. /\ k \in Call /\ calls' \in [Thread -> Seq(Call)]
      /\ to \in Thread \cup {None}
  BY CallType DEF TypeInv, TypeOK
<1>2. CASE k.to = Reply /\ to = None
  <2>1. UNCHANGED <<st, chg, partner, caller, senders, alarm, drq, pc, reg, events,
                    sent, got, told>>
    BY <1>2 DEF DoIpc
  <2>2. QED
    BY <1>1, <2>1 DEF TypeInv, TypeOK, ToOK
<1>3. CASE ~ (k.to = Reply /\ to = None)
  <2>1. /\ partner' = [partner EXCEPT ![t] = k.from]
        /\ caller' = IF to # None /\ caller[t] = to
                     THEN [caller EXCEPT ![t] = None] ELSE caller
        /\ reg' = [reg EXCEPT ![t] =
                          [Idle EXCEPT !.to = to, !.from = k.from,
                              !.items = k.items, !.snd = k.snd, !.rcv = k.rcv]]
        /\ st' = [st EXCEPT ![t] = IF to = None
                                       THEN @ \cup {"receive_wait"} ELSE @]
        /\ pc' = [pc EXCEPT ![t] = IF to = None THEN "pick" ELSE "send"]
        /\ sent' = [sent EXCEPT ![t] = FALSE]
        /\ got' = [got EXCEPT ![t] = FALSE]
        /\ UNCHANGED <<chg, senders, alarm, drq, events, told>>
    BY <1>3 DEF DoIpc, Goto
  <2> HIDE DEF to, k
  <2>2. FlagsOK'
    BY <2>1 DEF TypeInv, TypeOK, FlagsOK, Flag, FullMask, IpcMask
  <2>3. QueuesOK'
    BY <1>1, <2>1 DEF TypeInv, TypeOK, QueuesOK, Call
  <2>4. RestOK'
    BY <1>1, <2>1 DEF TypeInv, TypeOK, RestOK
  <2>5. PathsOK'
    <3>1. pc[t] = "user" /\ drq[t] = "none"
      BY DEF DoIpc, At, TypeInv, ToOK
    <3>2. reg'[t] = [to |-> to, from |-> k.from, items |-> k.items, snd |-> k.snd, rcv |-> k.rcv,
                     next |-> None, activate |-> FALSE, res |-> "none", ok |-> TRUE, tag |-> "none"]
      BY <2>1 DEF TypeInv, TypeOK, Idle
    <3>3. reg'[t] \in Locals
      BY <1>1, <3>2 DEF Locals, Call
    <3>4. /\ reg' \in [Thread -> Locals] /\ \A u \in Thread \ {t} : reg'[u] = reg[u]
          /\ pc' \in [Thread -> Labels] /\ \A u \in Thread \ {t} : pc'[u] = pc[u]
          /\ pc'[t] = IF to = None THEN "pick" ELSE "send"
          /\ \A u \in Thread \ {t} : st'[u] = st[u]
      BY <2>1, <3>3 DEF TypeInv, TypeOK, Labels
    <3>5. ASSUME NEW u \in Thread
          PROVE  ToOK(u)'
      <4>1. CASE u = t
        <5>1. reg'[t].to = to /\ reg'[t].activate = FALSE
          BY <3>2
        <5>2. reg'[t].activate # TRUE
          BY ONLY <5>1
        <5>3. drq'[t] = "none"
          BY <2>1, <3>1
        <5>4. QED
          BY <3>4, <4>1, <5>1, <5>2, <5>3 DEF ToOK
      <4>2. CASE u # t
        BY <2>1, <3>4, <4>2 DEF ToOK, TypeInv
      <4>3. QED
        BY <4>1, <4>2
    <3>6. QED
      BY <3>4, <3>5 DEF PathsOK
  <2>6. QED
    BY <2>2, <2>3, <2>4, <2>5, TypeParts
<1>4. QED
  BY <1>2, <1>3

\* Who is where a partner is needed has one.
LEMMA ToType ==
  ASSUME TypeInv, NEW t \in Thread
  PROVE  /\ reg[t] \in Locals /\ reg[t].to \in Thread \cup {None}
         /\ reg[t].from \in Thread \cup {None, Anyone}
         /\ reg[t].next \in Thread \cup {None}
         /\ pc[t] \in {"send", "copy", "drq", "sendWait", "abort", "activate"} => reg[t].to \in Thread
         /\ drq[t] # "none" => reg[t].to \in Thread
         /\ pc[t] = "pull" => reg[t].next \in Thread
<1>1. reg[t] \in Locals
  BY DEF TypeInv, TypeOK
<1>2. /\ reg[t].to \in Thread \cup {None} /\ reg[t].from \in Thread \cup {None, Anyone}
      /\ reg[t].next \in Thread \cup {None}
  BY <1>1, LocalTypes
<1>3. QED
  BY <1>1, <1>2 DEF TypeInv, ToOK

\* What is assigned to the flags of one thread.
LEMMA OneFlags ==
  ASSUME TypeInv, NEW x \in Thread, NEW F \in SUBSET Flag,
         st' = [st EXCEPT ![x] = F], chg' = chg
  PROVE  FlagsOK'
  BY DEF TypeInv, TypeOK, FlagsOK

\* The control and the locals, when t takes a step.
LEMMA PathsType ==
  ASSUME TypeInv, NEW t \in Thread, NEW l \in Labels,
         pc' = [pc EXCEPT ![t] = l],
         reg' \in [Thread -> Locals],
         \A u \in Thread : /\ reg'[u].to = reg[u].to
                           /\ u # t => reg'[u].next = reg[u].next
                           /\ reg'[u].activate = reg[u].activate,
         l \in {"send", "copy", "drq", "sendWait", "abort"} => reg[t].to # None,
         l = "activate" => reg'[t].activate = TRUE,
         l = "pull" => reg'[t].next # None,
         drq' = drq, drq[t] = "none",
         \A u \in Thread \ {t} : "drq_wait" \in st[u] => "drq_wait" \in st'[u]
  PROVE  PathsOK'
<1>1. pc' \in [Thread -> Labels] /\ pc'[t] = l /\ \A u \in Thread \ {t} : pc'[u] = pc[u]
  BY DEF TypeInv, TypeOK
<1>2. ASSUME NEW u \in Thread
      PROVE  ToOK(u)'
  <2>1. ToOK(u)
    BY DEF TypeInv
  <2>2. reg'[u].to = reg[u].to
    BY <1>2
  <2>3. reg'[u].activate = TRUE => reg'[u].to # None
    <3>1. reg'[u].activate = reg[u].activate
      BY <1>2
    <3>2. QED
      BY <2>1, <2>2, <3>1 DEF ToOK
  <2>4. CASE u = t
    BY <1>1, <2>2, <2>3, <2>4 DEF ToOK
  <2>5. CASE u # t
    <3>1. pc'[u] = pc[u] /\ reg'[u].next = reg[u].next
      BY <1>1, <1>2, <2>5
    <3>2. pc'[u] = "activate" => reg'[u].activate = TRUE
      BY <1>2, <2>1, <3>1 DEF ToOK
    <3>3. QED
      BY <1>1, <1>2, <2>1, <2>2, <2>3, <2>5, <3>1, <3>2 DEF ToOK
  <2>6. QED
    BY <2>4, <2>5
<1>3. QED
  BY <1>1, <1>2 DEF PathsOK

\* The end of a failed send phase changes ok and the place.
LEMMA SendFailsEffect ==
  ASSUME reg \in [Thread -> Locals], NEW t \in Thread, SendFails(t)
  PROVE  /\ pc' = [pc EXCEPT ![t] = "end"]
         /\ reg' \in [Thread -> Locals]
         /\ \A u \in Thread :
               /\ reg'[u].to = reg[u].to /\ reg'[u].from = reg[u].from
               /\ reg'[u].items = reg[u].items
               /\ reg'[u].next = reg[u].next /\ reg'[u].activate = reg[u].activate
               /\ reg'[u].res = reg[u].res /\ reg'[u].tag = reg[u].tag
               /\ u # t => reg'[u].ok = reg[u].ok
<1>1. PICK v \in BOOLEAN : v = FALSE
  OBVIOUS
<1>2. reg' = [reg EXCEPT ![t].ok = v] /\ pc' = [pc EXCEPT ![t] = "end"]
  BY <1>1 DEF SendFails, Goto
<1>3. /\ reg' \in [Thread -> Locals]
      /\ \A u \in Thread :
             /\ reg'[u].to = reg[u].to /\ reg'[u].from = reg[u].from
             /\ reg'[u].items = reg[u].items
             /\ reg'[u].next = reg[u].next /\ reg'[u].activate = reg[u].activate
             /\ reg'[u].res = reg[u].res /\ reg'[u].tag = reg[u].tag
             /\ u # t => reg'[u].ok = reg[u].ok
  BY ONLY reg \in [Thread -> Locals], t \in Thread, v \in BOOLEAN, <1>2, SetOk
<1>4. QED
  BY <1>2, <1>3

HandshakeCase(t, p, r) ==
    \/ /\ r = "failed"
       /\ SendFails(t)
       /\ st' = [st EXCEPT ![t] = @ \ IpcMask]
       /\ UNCHANGED <<senders, alarm>>
    \/ /\ r = "queued"
       /\ pc' = [pc EXCEPT ![t] = "sendWait"]
       /\ senders' = [senders EXCEPT ![p] = Append(@, t)]
       /\ \E b \in SUBSET {"ready"} :
             st' = [st EXCEPT ![t] = (st[t] \cup {"send_wait"}) \ b]
       /\ \E b \in BOOLEAN : alarm' = [alarm EXCEPT ![t] = b]
       /\ reg' = reg
    \/ /\ r \in {"open", "closed"}
       /\ pc' = [pc EXCEPT ![t] = "copy"]
       /\ reg' = [reg EXCEPT ![t].res = r]
       /\ st' = [st EXCEPT ![p] = (st[p] \ (IpcMask \cup {"ready"})) \cup {"transfer"}]
       /\ alarm' = [alarm EXCEPT ![p] = FALSE]
       /\ senders' = senders

\* The three outcomes of check_sender(), with the assignments of each.
LEMMA HandshakeCases ==
  ASSUME TypeInv, NEW t \in Thread, HandshakeReceiver(t)
  PROVE  /\ pc[t] = "send" /\ At(t, "send") /\ reg[t].to \in Thread /\ Local(t, reg[t].to)
         /\ HandshakeCase(t, reg[t].to, CheckSender(reg[t].to, t, st[reg[t].to]))
         /\ UNCHANGED <<chg, partner, caller, drq, calls, events, sent, got, told>>
<1>1. pc[t] = "send" /\ reg[t].to \in Thread
  BY ToType DEF HandshakeReceiver, At
<1>2. HandshakeCase(t, reg[t].to, CheckSender(reg[t].to, t, st[reg[t].to]))
  BY DEF HandshakeReceiver, HandshakeCase, Goto
<1>3. QED
  BY <1>1, <1>2 DEF HandshakeReceiver, world, history

LEMMA HandshakeReceiverType ==
  ASSUME TypeInv, NEW t \in Thread, HandshakeReceiver(t)
  PROVE  TypeInv'
<1> DEFINE p == reg[t].to
           r == CheckSender(p, t, st[p])
<1>1. /\ pc[t] = "send" /\ p \in Thread /\ HandshakeCase(t, p, r)
      /\ UNCHANGED <<chg, partner, caller, drq, calls, events, sent, got, told>>
  BY HandshakeCases
<1>2. reg[t].to # None /\ drq[t] = "none" /\ reg \in [Thread -> Locals]
  BY <1>1, ToType, IpcAssumption DEF TypeInv, TypeOK, ToOK
<1> HIDE DEF p, r
<1>3. CASE r = "failed"
  <2>1. /\ SendFails(t)
        /\ st' = [st EXCEPT ![t] = st[t] \ IpcMask] /\ UNCHANGED <<senders, alarm>>
    BY <1>1, <1>3 DEF HandshakeCase
  <2>2. FlagsOK'
    BY <1>1, <2>1, OneFlags, st[t] \ IpcMask \in SUBSET Flag DEF TypeInv, TypeOK
  <2>3. QueuesOK' /\ RestOK'
    BY <1>1, <2>1, SendFailsEffect DEF TypeInv, TypeOK, QueuesOK, RestOK
  <2>4. PathsOK'
    <3>2. \A u \in Thread \ {t} : st'[u] = st[u]
      BY <2>1 DEF TypeInv, TypeOK
    <3>3. QED
      <4>1. /\ pc' = [pc EXCEPT ![t] = "end"] /\ reg' \in [Thread -> Locals]
            /\ \A u \in Thread : /\ reg'[u].to = reg[u].to /\ reg'[u].next = reg[u].next
                                  /\ reg'[u].activate = reg[u].activate
        BY <1>2, <2>1, SendFailsEffect
      <4>2. QED
        BY <1>1, <1>2, <3>2, <4>1, PathsType DEF Labels
  <2>5. QED
    BY <2>2, <2>3, <2>4, TypeParts
<1>4. CASE r = "queued"
  <2>1. PICK b \in SUBSET {"ready"}, d \in BOOLEAN :
           /\ pc' = [pc EXCEPT ![t] = "sendWait"] /\ reg' = reg
           /\ st' = [st EXCEPT ![t] = (st[t] \cup {"send_wait"}) \ b]
           /\ senders' = [senders EXCEPT ![p] = Append(@, t)]
           /\ alarm' = [alarm EXCEPT ![t] = d]
    BY <1>1, <1>4 DEF HandshakeCase
  <2>2. FlagsOK'
    <3>1. (st[t] \cup {"send_wait"}) \ b \in SUBSET Flag
      BY DEF TypeInv, TypeOK, Flag, FullMask, IpcMask
    <3>2. QED
      BY <1>1, <2>1, <3>1, OneFlags
  <2>3. QueuesOK' /\ RestOK'
    BY <1>1, <2>1 DEF TypeInv, TypeOK, QueuesOK, RestOK
  <2>4. PathsOK'
    <3>2. \A u \in Thread \ {t} : st'[u] = st[u]
      BY <2>1 DEF TypeInv, TypeOK
    <3>3. QED
      BY <1>1, <1>2, <2>1, <3>2, PathsType DEF Labels
  <2>5. QED
    BY <2>2, <2>3, <2>4, TypeParts
<1>5. CASE r \in {"open", "closed"}
  <2>1. /\ pc' = [pc EXCEPT ![t] = "copy"] /\ reg' = [reg EXCEPT ![t].res = r]
        /\ st' = [st EXCEPT ![p] = (st[p] \ (IpcMask \cup {"ready"})) \cup {"transfer"}]
        /\ senders' = senders /\ alarm' = [alarm EXCEPT ![p] = FALSE]
    BY <1>1, <1>5 DEF HandshakeCase
  <2>2. FlagsOK'
    <3>1. (st[p] \ (IpcMask \cup {"ready"})) \cup {"transfer"} \in SUBSET Flag
      BY <1>1 DEF TypeInv, TypeOK, Flag, FullMask, Abort
    <3>2. QED
      BY <1>1, <2>1, <3>1, OneFlags
  <2>3. QueuesOK' /\ RestOK'
    BY <1>1, <2>1 DEF TypeInv, TypeOK, QueuesOK, RestOK
  <2>4. PathsOK'
    <3>1. /\ reg' \in [Thread -> Locals]
          /\ \A u \in Thread : /\ reg'[u].to = reg[u].to /\ reg'[u].next = reg[u].next
                                /\ reg'[u].activate = reg[u].activate
      <4>1. /\ r \in {"none", "failed", "queued", "open", "closed", "done", "cancel"}
            /\ reg \in [Thread -> Locals] /\ reg' = [reg EXCEPT ![t].res = r]
        BY <1>2, <1>5, <2>1
      <4>2. QED
        BY ONLY <4>1, t \in Thread, SetRes
    <3>2. \A u \in Thread : "drq_wait" \in st[u] => "drq_wait" \in st'[u]
      BY <1>1, <2>1 DEF TypeInv, TypeOK, IpcMask
    <3>3. QED
      BY <1>1, <1>2, <2>1, <3>1, <3>2, PathsType DEF Labels
  <2>5. QED
    BY <2>2, <2>3, <2>4, TypeParts
<1>6. QED
  BY <1>1, <1>3, <1>4, <1>5 DEF HandshakeCase

\* get_next_sender() returns a thread, or nobody.
LEMMA NextSenderType ==
  ASSUME TypeInv, NEW t \in Thread
  PROVE  NextSender(t) \in Thread \cup {None}
<1>1. senders[t] \in Seq(Thread) /\ reg[t].from \in Thread \cup {None, Anyone}
  BY ToType DEF TypeInv, TypeOK
<1>2. CASE reg[t].from = Anyone
  BY <1>1, <1>2 DEF NextSender
<1>3. CASE reg[t].from # Anyone
  <2>1. ASSUME Contains(senders[t], reg[t].from)
        PROVE  reg[t].from \in Thread
    BY <1>1, <2>1 DEF Contains
  <2>2. QED
    BY <1>3, <2>1 DEF NextSender
<1>4. QED
  BY <1>2, <1>3

\* Who picks a sender, or has picked one, has it in its locals and as its partner.
LEMMA GetNextSenderEffect ==
  ASSUME TypeInv, NEW t \in Thread, GetNextSender(t)
  PROVE  /\ reg' \in [Thread -> Locals]
         /\ \A u \in Thread :
               /\ reg'[u].to = reg[u].to /\ reg'[u].from = reg[u].from
               /\ reg'[u].items = reg[u].items
               /\ reg'[u].activate = reg[u].activate /\ reg'[u].res = reg[u].res
               /\ reg'[u].ok = reg[u].ok /\ reg'[u].tag = reg[u].tag
               /\ u # t => reg'[u].next = reg[u].next
         /\ reg'[t].next = IF "receive_wait" \in st[t] /\ reg[t].next = None
                           THEN NextSender(t) ELSE reg[t].next
         /\ partner' = IF reg'[t].next # None /\ reg[t].from = Anyone
                       THEN [partner EXCEPT ![t] = reg'[t].next] ELSE partner
         /\ partner' \in [Thread -> Thread \cup {None, Anyone}]
<1> DEFINE n == IF "receive_wait" \in st[t] /\ reg[t].next = None
                THEN NextSender(t) ELSE reg[t].next
<1>1. n \in Thread \cup {None} /\ reg \in [Thread -> Locals]
  BY NextSenderType, ToType DEF TypeInv, TypeOK
<1>2. /\ reg' = [reg EXCEPT ![t].next = n]
      /\ partner' = IF n # None /\ reg[t].from = Anyone
                    THEN [partner EXCEPT ![t] = n] ELSE partner
  BY DEF GetNextSender
<1> HIDE DEF n
<1>3. /\ reg' \in [Thread -> Locals]
      /\ \A u \in Thread :
            /\ reg'[u].to = reg[u].to /\ reg'[u].from = reg[u].from
            /\ reg'[u].items = reg[u].items
            /\ reg'[u].activate = reg[u].activate /\ reg'[u].res = reg[u].res
            /\ reg'[u].ok = reg[u].ok /\ reg'[u].tag = reg[u].tag
            /\ reg'[u].next = IF u = t THEN n ELSE reg[u].next
  BY ONLY <1>1, <1>2, t \in Thread, SetNext
<1>4. reg'[t].next = n
  BY <1>3
<1>5. partner' \in [Thread -> Thread \cup {None, Anyone}]
  BY <1>1, <1>2 DEF TypeInv, TypeOK
<1>6. QED
  BY <1>2, <1>3, <1>4, <1>5 DEF n

LEMMA RemoteHandshakeReceiverType ==
  ASSUME TypeInv, NEW t \in Thread, RemoteHandshakeReceiver(t)
  PROVE  TypeInv'
<1>1. FlagsOK'
  BY ChangeType DEF TypeInv, TypeOK, RemoteHandshakeReceiver, world, history, Goto,
     FlagsOK, Flag, FullMask, IpcMask, Abort
<1>2. QueuesOK'
  BY ToType, UnlistedType DEF TypeInv, TypeOK, RemoteHandshakeReceiver, world, history,
     Goto, QueuesOK
<1>3. RestOK'
  BY DEF TypeInv, TypeOK, RemoteHandshakeReceiver, world, history, Goto, RestOK
<1>4. PathsOK'
  BY ToType DEF At, TypeInv, TypeOK, ToOK, RemoteHandshakeReceiver, world, history, Goto,
     PathsOK, Labels, Locals
<1>5. QED
  BY <1>1, <1>2, <1>3, <1>4, TypeParts

LEMMA RemoteAnswerType ==
  ASSUME TypeInv, NEW t \in Thread, RemoteAnswer(t)
  PROVE  TypeInv'
<1>0. /\ pc[t] = "drq" /\ drq[t] = "none" /\ reg[t].to \in Thread /\ reg[t].to # None
      /\ reg \in [Thread -> Locals]
      /\ SendFails(t) \/ (reg' = reg /\
            \E l \in {"sendWait", "pick", "copy"} : pc' = [pc EXCEPT ![t] = l])
      /\ st' = st \/ st' = [st EXCEPT ![t] = st[t] \ IpcMask]
      /\ UNCHANGED <<chg, drq>>
  BY ToType, IpcAssumption DEF RemoteAnswer, At, TypeInv, TypeOK, ToOK, Goto
<1>1. FlagsOK'
  <2>1. st[t] \ IpcMask \in SUBSET Flag
    BY DEF TypeInv, TypeOK
  <2>2. QED
    BY <1>0, <2>1, OneFlags DEF FlagsOK, TypeInv, TypeOK
<1>2. QueuesOK'
  BY ToType, UnlistedType DEF TypeInv, TypeOK, RemoteAnswer, world, history, Goto,
     SendFails, QueuesOK
<1>3. RestOK'
  BY DEF TypeInv, TypeOK, RemoteAnswer, world, history, Goto, SendFails, RestOK
<1>4. PathsOK'
  <2>1. \A u \in Thread \ {t} : st'[u] = st[u]
    BY <1>0 DEF TypeInv, TypeOK
  <2>2. CASE SendFails(t)
    <3>1. /\ pc' = [pc EXCEPT ![t] = "end"] /\ reg' \in [Thread -> Locals]
          /\ \A u \in Thread : /\ reg'[u].to = reg[u].to /\ reg'[u].next = reg[u].next
                                /\ reg'[u].activate = reg[u].activate
      BY <1>0, <2>2, SendFailsEffect
    <3>2. QED
      BY <1>0, <2>1, <3>1, PathsType DEF Labels
  <2>3. CASE ~ SendFails(t)
    <3>1. PICK l \in {"sendWait", "pick", "copy"} : pc' = [pc EXCEPT ![t] = l]
      BY <1>0, <2>3
    <3>2. QED
      BY <1>0, <2>1, <2>3, <3>1, PathsType DEF Labels
  <2>4. QED
    BY <2>2, <2>3
<1>5. QED
  BY <1>1, <1>2, <1>3, <1>4, TypeParts

LEMMA PickType ==
  ASSUME TypeInv, NEW t \in Thread, Pick(t)
  PROVE  TypeInv'
<1>1. FlagsOK'
  BY ChangeType DEF TypeInv, TypeOK, Pick, world, history, Goto, GetNextSender, flags,
     FlagsOK, Flag, FullMask, IpcMask, Abort
<1>2. QueuesOK'
  BY GetNextSenderEffect DEF Pick, TypeInv, TypeOK, QueuesOK
<1>3. RestOK'
  BY DEF TypeInv, TypeOK, Pick, world, history, Goto, GetNextSender, flags, RestOK
<1>4. PathsOK'
  <2>1. /\ pc[t] = "pick" /\ drq[t] = "none" /\ GetNextSender(t) /\ UNCHANGED <<drq, st>>
        /\ pc' = [pc EXCEPT ![t] = IF reg[t].activate THEN "activate" ELSE "receive"]
    BY DEF Pick, At, InSection, TypeInv, ToOK, Goto, flags
  <2>2. reg[t].activate \in BOOLEAN
    BY ToType, LocalTypes
  <2>3. CASE reg[t].activate = TRUE
    <3>1. pc' = [pc EXCEPT ![t] = "activate"]
      BY <2>1, <2>3
    <3>2. reg'[t].activate = TRUE
      BY <2>1, <2>3, GetNextSenderEffect
    <3>3. QED
      BY <2>1, <3>1, <3>2, GetNextSenderEffect, PathsType DEF Labels
  <2>4. CASE reg[t].activate = FALSE
    <3>1. pc' = [pc EXCEPT ![t] = "receive"]
      BY <2>1, <2>4
    <3>2. QED
      BY <2>1, <3>1, GetNextSenderEffect, PathsType DEF Labels
  <2>5. QED
    BY <2>2, <2>3, <2>4
<1>5. QED
  BY <1>1, <1>2, <1>3, <1>4, TypeParts

LEMMA SwitchedType ==
  ASSUME TypeInv, NEW t \in Thread, Switched(t)
  PROVE  TypeInv'
<1>1. FlagsOK'
  BY ChangeType DEF TypeInv, TypeOK, Switched, world, history, Goto, GetNextSender,
     flags, FlagsOK, Flag, FullMask, IpcMask, Abort
<1>2. QueuesOK'
  BY GetNextSenderEffect DEF Switched, TypeInv, TypeOK, QueuesOK
<1>3. RestOK'
  BY DEF TypeInv, TypeOK, Switched, world, history, Goto, GetNextSender, flags, RestOK
<1>4. PathsOK'
  <2>1. /\ pc[t] = "switched" /\ drq[t] = "none" /\ GetNextSender(t) /\ UNCHANGED <<drq, st>>
        /\ pc' = [pc EXCEPT ![t] = "receive"]
    BY DEF Switched, At, InSection, TypeInv, ToOK, Goto, flags
  <2>2. QED
    BY <2>1, GetNextSenderEffect, PathsType DEF Labels
<1>5. QED
  BY <1>1, <1>2, <1>3, <1>4, TypeParts

LEMMA ReceiveType ==
  ASSUME TypeInv, NEW t \in Thread, Receive(t)
  PROVE  TypeInv'
<1>0. /\ pc[t] = "receive" /\ drq[t] = "none" /\ reg' = reg /\ drq' = drq /\ chg' = chg
      /\ reg \in [Thread -> Locals]
      /\ \E l \in {"pull", "asleep", "end"} : /\ pc' = [pc EXCEPT ![t] = l]
                                              /\ l = "pull" => reg[t].next # None
      /\ \/ st' = [st EXCEPT ![t] = (st[t] \ IpcMask) \cup {"receive_in_progress"}]
         \/ st' = [st EXCEPT ![t] = st[t] \cup {"timeout"}]
         \/ st' = [st EXCEPT ![t] = st[t] \ {"ready"}]
         \/ st' = st
  <2>1. pc[t] = "receive" /\ drq[t] = "none" /\ reg \in [Thread -> Locals]
    BY DEF Receive, At, TypeInv, TypeOK, ToOK
  <2>2. QED
    BY <2>1 DEF Receive, Goto
<1>1. FlagsOK'
  <2>1. /\ (st[t] \ IpcMask) \cup {"receive_in_progress"} \in SUBSET Flag
        /\ st[t] \cup {"timeout"} \in SUBSET Flag /\ st[t] \ {"ready"} \in SUBSET Flag
    BY DEF TypeInv, TypeOK, Flag, FullMask, IpcMask, Abort
  <2>2. QED
    BY <1>0, <2>1, OneFlags DEF FlagsOK, TypeInv, TypeOK
<1>2. QueuesOK'
  BY ToType, UnlistedType DEF TypeInv, TypeOK, Receive, world, history, Goto, QueuesOK
<1>3. RestOK'
  BY DEF TypeInv, TypeOK, Receive, world, history, Goto, RestOK
<1>4. PathsOK'
  <2>1. \A u \in Thread \ {t} : st'[u] = st[u]
    BY <1>0 DEF TypeInv, TypeOK
  <2>2. PICK l \in {"pull", "asleep", "end"} :
           pc' = [pc EXCEPT ![t] = l] /\ (l = "pull" => reg[t].next # None)
    BY <1>0
  <2>3. QED
    BY <1>0, <2>1, <2>2, PathsType DEF Labels
<1>5. QED
  BY <1>1, <1>2, <1>3, <1>4, TypeParts

LEMMA PulledType ==
  ASSUME TypeInv, NEW t \in Thread, Pulled(t)
  PROVE  TypeInv'
<1>1. FlagsOK'
  BY ChangeType DEF TypeInv, TypeOK, Pulled, world, history, Goto, FlagsOK, Flag,
     FullMask, IpcMask, Abort
<1>2. QueuesOK'
  BY ToType, UnlistedType DEF TypeInv, TypeOK, Pulled, world, history, Goto, QueuesOK
<1>3. RestOK'
  BY DEF TypeInv, TypeOK, Pulled, world, history, Goto, RestOK
<1>4. PathsOK'
  BY ToType DEF At, TypeInv, TypeOK, ToOK, Pulled, world, history, Goto, PathsOK, Labels, Locals
<1>5. QED
  BY <1>1, <1>2, <1>3, <1>4, TypeParts

LEMMA WakeUpType ==
  ASSUME TypeInv, NEW t \in Thread, WakeUp(t)
  PROVE  TypeInv'
<1>1. FlagsOK'
  BY ChangeType DEF TypeInv, TypeOK, WakeUp, world, history, Goto, flags, FlagsOK, Flag,
     FullMask, IpcMask, Abort
<1>2. QueuesOK'
  BY ToType, UnlistedType DEF TypeInv, TypeOK, WakeUp, world, history, Goto, flags, QueuesOK
<1>3. RestOK'
  BY DEF TypeInv, TypeOK, WakeUp, world, history, Goto, flags, RestOK
<1>4. PathsOK'
  BY ToType DEF At, TypeInv, TypeOK, ToOK, WakeUp, world, history, Goto, flags, PathsOK,
     Labels, Locals
<1>5. QED
  BY <1>1, <1>2, <1>3, <1>4, TypeParts

LEMMA EndType ==
  ASSUME TypeInv, NEW t \in Thread, End(t)
  PROVE  TypeInv'
<1>0. /\ pc[t] \in {"end", "transfer"} /\ drq[t] = "none" /\ drq' = drq /\ chg' = chg
      /\ \/ /\ st' = [st EXCEPT ![t] = st[t] \ {"ready"}]
            /\ pc' = [pc EXCEPT ![t] = "transfer"]
            /\ UNCHANGED <<reg, told>>
         \/ /\ st' = [st EXCEPT ![t] = st[t] \ FullMask]
            /\ \E v \in BOOLEAN \X BOOLEAN : told' = [told EXCEPT ![t] = v]
            /\ reg' = [reg EXCEPT ![t] = Idle]
            /\ pc' = [pc EXCEPT ![t] = "user"]
  <2>1. pc[t] \in {"end", "transfer"} /\ drq[t] = "none"
    BY DEF End, At, TypeInv, ToOK
  <2>2. drq' = drq /\ chg' = chg
    BY DEF End
  <2>3. CASE "transfer" \in st[t]
    BY <2>1, <2>2, <2>3 DEF End, Goto
  <2>4. CASE "transfer" \notin st[t]
    <3>1. <<reg[t].to # None /\ reg[t].ok,
            reg[t].from # None /\ reg[t].ok /\ st[t] \cap IpcMask = {} /\ reg[t].tag # "error">>
             \in BOOLEAN \X BOOLEAN
      BY ToType, LocalTypes
    <3>2. /\ st' = [st EXCEPT ![t] = @ \ FullMask]
          /\ told' = [told EXCEPT ![t] =
                <<reg[t].to # None /\ reg[t].ok,
                  reg[t].from # None /\ reg[t].ok /\ st[t] \cap IpcMask = {} /\ reg[t].tag # "error">>]
          /\ reg' = [reg EXCEPT ![t] = Idle]
          /\ pc' = [pc EXCEPT ![t] = "user"]
      BY <2>4 DEF End, Goto
    <3>3. QED
      BY <2>1, <2>2, <3>1, <3>2
  <2>5. QED
    BY <2>3, <2>4
<1>1. FlagsOK'
  <2>1. st[t] \ {"ready"} \in SUBSET Flag /\ st[t] \ FullMask \in SUBSET Flag
    BY DEF TypeInv, TypeOK
  <2>2. QED
    BY <1>0, <2>1, OneFlags
<1>2. QueuesOK'
  BY ToType, UnlistedType DEF TypeInv, TypeOK, End, world, Goto, ResetCaller, QueuesOK
<1>3. RestOK'
  <2>1. told' \in [Thread -> BOOLEAN \X BOOLEAN]
    BY <1>0 DEF TypeInv, TypeOK
  <2>2. QED
    BY <2>1 DEF TypeInv, TypeOK, End, world, RestOK
<1>4. PathsOK'
  <2>1. \A u \in Thread \ {t} : st'[u] = st[u]
    BY <1>0 DEF TypeInv, TypeOK
  <2>2. CASE pc' = [pc EXCEPT ![t] = "transfer"] /\ reg' = reg
    BY <1>0, <2>1, <2>2, PathsType DEF Labels, TypeInv, TypeOK
  <2>3. CASE pc' = [pc EXCEPT ![t] = "user"] /\ reg' = [reg EXCEPT ![t] = Idle]
    <3>1. Idle \in Locals /\ Idle.activate = FALSE
      BY DEF Idle, Locals, Limit
    <3>2. Idle.activate # TRUE
      BY ONLY <3>1
    <3>3. /\ pc' \in [Thread -> Labels] /\ pc'[t] = "user" /\ \A u \in Thread \ {t} : pc'[u] = pc[u]
          /\ reg' \in [Thread -> Locals] /\ reg'[t] = Idle
          /\ \A u \in Thread \ {t} : reg'[u] = reg[u]
      BY <2>3, <3>1 DEF TypeInv, TypeOK, Labels
    <3>4. ASSUME NEW u \in Thread
          PROVE  ToOK(u)'
      <4>1. CASE u = t
        BY <1>0, <3>2, <3>3, <4>1 DEF ToOK
      <4>2. CASE u # t
        BY <1>0, <2>1, <3>3, <4>2 DEF ToOK, TypeInv
      <4>3. QED
        BY <4>1, <4>2
    <3>5. QED
      BY <3>3, <3>4 DEF PathsOK
  <2>4. QED
    BY <1>0, <2>2, <2>3
<1>5. QED
  BY <1>1, <1>2, <1>3, <1>4, TypeParts

LEMMA WaitOnType ==
  ASSUME TypeInv, NEW t \in Thread, WaitOn(t)
  PROVE  TypeInv'
<1>1. FlagsOK'
  BY ChangeType DEF TypeInv, TypeOK, WaitOn, world, history, FlagsOK, Flag, FullMask,
     IpcMask, Abort
<1>2. QueuesOK'
  BY ToType, UnlistedType DEF TypeInv, TypeOK, WaitOn, world, history, QueuesOK
<1>3. RestOK'
  BY DEF TypeInv, TypeOK, WaitOn, world, history, RestOK
<1>4. PathsOK'
  BY ToType DEF At, TypeInv, TypeOK, ToOK, WaitOn, world, history, PathsOK, Labels, Locals
<1>5. QED
  BY <1>1, <1>2, <1>3, <1>4, TypeParts

\* do_send_wait() after its loop: taken, refused, timed out or cancelled.
LEMMA SendWaitedType ==
  ASSUME TypeInv, NEW t \in Thread, SendWaited(t)
  PROVE  TypeInv'
<1>0. /\ pc[t] = "sendWait" /\ drq[t] = "none" /\ reg[t].to # None /\ chg' = chg
      /\ reg \in [Thread -> Locals]
  BY ToType, IpcAssumption DEF SendWaited, At, InSection, TypeInv, TypeOK, ToOK
<1>8. \/ pc' = [pc EXCEPT ![t] = "pick"] /\ UNCHANGED <<st, reg, senders, drq>>
      \/ SendFails(t) /\ drq' = drq /\ st' = [st EXCEPT ![t] = st[t] \ FullMask]
      \/ /\ st' = [st EXCEPT ![t] = (st[t] \ (FullMask \cup {"ready"})) \cup {"drq_wait"}]
         /\ drq' = [drq EXCEPT ![t] = "abort"]
         /\ pc' = [pc EXCEPT ![t] = "abort"]
         /\ UNCHANGED <<senders, reg>>
  BY DEF SendWaited, Goto
<1>1. FlagsOK'
  <2>1. /\ st[t] \ FullMask \in SUBSET Flag
        /\ (st[t] \ (FullMask \cup {"ready"})) \cup {"drq_wait"} \in SUBSET Flag
    BY DEF TypeInv, TypeOK, Flag
  <2>2. QED
    BY <1>0, <1>8, <2>1, OneFlags DEF FlagsOK, TypeInv, TypeOK
<1>2. QueuesOK'
  BY ToType, UnlistedType DEF TypeInv, TypeOK, SendWaited, world, history, Goto,
     SendFails, QueuesOK
<1>3. RestOK'
  BY DEF TypeInv, TypeOK, SendWaited, world, history, Goto, SendFails, RestOK
<1>4. PathsOK'
  <2>1. \A u \in Thread \ {t} : st'[u] = st[u]
    BY <1>8 DEF TypeInv, TypeOK
  <2>2. CASE pc' = [pc EXCEPT ![t] = "pick"] /\ UNCHANGED <<st, reg, senders, drq>>
    BY <1>0, <2>1, <2>2, PathsType DEF Labels
  <2>3. CASE SendFails(t) /\ drq' = drq /\ st' = [st EXCEPT ![t] = st[t] \ FullMask]
    BY <1>0, <2>1, <2>3, SendFailsEffect, PathsType DEF Labels
  <2>4. CASE /\ st' = [st EXCEPT ![t] = (st[t] \ (FullMask \cup {"ready"})) \cup {"drq_wait"}]
             /\ drq' = [drq EXCEPT ![t] = "abort"]
             /\ pc' = [pc EXCEPT ![t] = "abort"]
             /\ UNCHANGED <<senders, reg>>
    <3>1. pc' \in [Thread -> Labels] /\ pc'[t] = "abort" /\ \A u \in Thread \ {t} : pc'[u] = pc[u]
      BY <2>4 DEF TypeInv, TypeOK, Labels
    <3>2. "drq_wait" \in st'[t] /\ \A u \in Thread \ {t} : drq'[u] = drq[u]
      BY <2>4 DEF TypeInv, TypeOK
    <3>3. ASSUME NEW u \in Thread
          PROVE  ToOK(u)'
      BY <1>0, <2>1, <2>4, <3>1, <3>2 DEF ToOK, TypeInv
    <3>4. QED
      BY <1>0, <2>4, <3>1, <3>3 DEF PathsOK
  <2>5. QED
    BY <1>8, <2>2, <2>3, <2>4
<1>5. QED
  BY <1>1, <1>2, <1>3, <1>4, TypeParts

LEMMA RemoteAbortSendType ==
  ASSUME TypeInv, NEW t \in Thread, RemoteAbortSend(t)
  PROVE  TypeInv'
<1>0. /\ drq[t] = "abort" /\ reg[t].to \in Thread /\ reg \in [Thread -> Locals]
      /\ st' = [st EXCEPT ![reg[t].to] = Change(@, reg[t].to)]
      /\ chg' = ChangeTaken(reg[t].to)
      /\ \E v \in {"cancel", "done"} : reg' = [reg EXCEPT ![t].res = v]
      /\ drq' = [drq EXCEPT ![t] = "reply"] /\ pc' = pc
  BY ToType DEF RemoteAbortSend, TypeInv, TypeOK
<1>1. FlagsOK'
  <2>1. Change(st[reg[t].to], reg[t].to) \in SUBSET Flag /\ chg' \in [Thread -> Changes]
    BY <1>0, ChangeType DEF TypeInv, TypeOK
  <2>2. QED
    BY <1>0, <2>1 DEF FlagsOK, TypeInv, TypeOK
<1>2. QueuesOK'
  BY ToType, UnlistedType DEF TypeInv, TypeOK, RemoteAbortSend, world, history,
     ChangeTaken, QueuesOK
<1>3. RestOK'
  BY DEF TypeInv, TypeOK, RemoteAbortSend, world, history, ChangeTaken, RestOK
<1>4. PathsOK'
  <2>1. PICK v \in {"cancel", "done"} : reg' = [reg EXCEPT ![t].res = v]
    BY <1>0
  <2>2. /\ reg' \in [Thread -> Locals]
        /\ \A u \in Thread : /\ reg'[u].to = reg[u].to /\ reg'[u].next = reg[u].next
                              /\ reg'[u].activate = reg[u].activate
    BY <1>0, <2>1, SetRes
  <2>3. \A u \in Thread : "drq_wait" \in st[u] => "drq_wait" \in st'[u]
    BY <1>0, ChangeFlags DEF TypeInv, TypeOK
  <2>4. \A u \in Thread : drq'[u] # "none" => drq[u] # "none"
    BY <1>0 DEF TypeInv, TypeOK
  <2>5. ASSUME NEW u \in Thread
        PROVE  ToOK(u)'
    BY <1>0, <2>2, <2>3, <2>4 DEF ToOK, TypeInv
  <2>6. QED
    BY <1>0, <2>2, <2>5 DEF PathsOK, TypeInv, TypeOK
<1>5. QED
  BY <1>1, <1>2, <1>3, <1>4, TypeParts

LEMMA AbortedType ==
  ASSUME TypeInv, NEW t \in Thread, Aborted(t)
  PROVE  TypeInv'
<1>1. FlagsOK'
  BY ChangeType DEF TypeInv, TypeOK, Aborted, world, history, Goto, SendFails, flags,
     FlagsOK, Flag, FullMask, IpcMask, Abort
<1>2. QueuesOK'
  BY ToType, UnlistedType DEF TypeInv, TypeOK, Aborted, world, history, Goto, SendFails,
     flags, QueuesOK
<1>3. RestOK'
  BY DEF TypeInv, TypeOK, Aborted, world, history, Goto, SendFails, flags, RestOK
<1>4. PathsOK'
  <2>1. /\ pc[t] = "abort" /\ drq[t] = "none" /\ reg \in [Thread -> Locals] /\ UNCHANGED <<st, drq>>
        /\ SendFails(t) \/ (reg' = reg /\ pc' = [pc EXCEPT ![t] = "pick"])
    BY DEF Aborted, At, TypeInv, TypeOK, ToOK, Goto, flags
  <2>2. QED
    BY <2>1, SendFailsEffect, PathsType DEF Labels
<1>5. QED
  BY <1>1, <1>2, <1>3, <1>4, TypeParts

LEMMA TakeReplyType ==
  ASSUME TypeInv, NEW t \in Thread, TakeReply(t)
  PROVE  TypeInv'
<1>1. FlagsOK'
  BY ChangeType DEF TypeInv, TypeOK, TakeReply, world, history, FlagsOK, Flag, FullMask,
     IpcMask, Abort
<1>2. QueuesOK'
  BY ToType, UnlistedType DEF TypeInv, TypeOK, TakeReply, world, history, QueuesOK
<1>3. RestOK'
  BY DEF TypeInv, TypeOK, TakeReply, world, history, RestOK
<1>4. PathsOK'
  BY ToType DEF At, TypeInv, TypeOK, ToOK, TakeReply, world, history, PathsOK, Labels, Locals
<1>5. QED
  BY <1>1, <1>2, <1>3, <1>4, TypeParts

LEMMA TakeChangeType ==
  ASSUME TypeInv, NEW t \in Thread, TakeChange(t)
  PROVE  TypeInv'
<1>1. FlagsOK'
  BY ChangeType DEF TypeInv, TypeOK, TakeChange, world, history, FlagsOK, Flag, FullMask,
     IpcMask, Abort
<1>2. QueuesOK'
  BY ToType, UnlistedType DEF TypeInv, TypeOK, TakeChange, world, history, QueuesOK
<1>3. RestOK'
  BY DEF TypeInv, TypeOK, TakeChange, world, history, RestOK
<1>4. PathsOK'
  <2>1. st' = [st EXCEPT ![t] = Change(@, t)] /\ UNCHANGED <<drq, pc, reg>>
    BY DEF TakeChange
  <2>2. \A u \in Thread : "drq_wait" \in st[u] => "drq_wait" \in st'[u]
    BY <2>1, ChangeFlags DEF TypeInv, TypeOK
  <2>3. ASSUME NEW u \in Thread
        PROVE  ToOK(u)'
    BY <2>1, <2>2 DEF ToOK, TypeInv
  <2>4. QED
    BY <2>1, <2>3 DEF PathsOK, TypeInv, TypeOK
<1>5. QED
  BY <1>1, <1>2, <1>3, <1>4, TypeParts

LEMMA ExpiredType ==
  ASSUME TypeInv, NEW t \in Thread, Expired(t)
  PROVE  TypeInv'
<1>1. FlagsOK'
  BY ChangeType DEF TypeInv, TypeOK, Expired, world, history, FlagsOK, Flag, FullMask,
     IpcMask, Abort
<1>2. QueuesOK'
  BY ToType, UnlistedType DEF TypeInv, TypeOK, Expired, world, history, QueuesOK
<1>3. RestOK'
  BY DEF TypeInv, TypeOK, Expired, world, history, RestOK
<1>4. PathsOK'
  BY ToType DEF At, TypeInv, TypeOK, ToOK, Expired, world, history, PathsOK, Labels, Locals
<1>5. QED
  BY <1>1, <1>2, <1>3, <1>4, TypeParts

LEMMA CancelType ==
  ASSUME TypeInv, NEW t \in Thread, Cancel(t)
  PROVE  TypeInv'
<1>1. FlagsOK'
  BY ChangeType DEF TypeInv, TypeOK, Cancel, history, FlagsOK, Flag, FullMask, IpcMask, Abort
<1>2. QueuesOK'
  BY ToType, UnlistedType DEF TypeInv, TypeOK, Cancel, history, QueuesOK
<1>3. RestOK'
  BY DEF TypeInv, TypeOK, Cancel, history, RestOK
<1>4. PathsOK'
  BY ToType DEF At, TypeInv, TypeOK, ToOK, Cancel, history, PathsOK, Labels, Locals
<1>5. QED
  BY <1>1, <1>2, <1>3, <1>4, TypeParts

LEMMA PrepareKillType ==
  ASSUME TypeInv, NEW t \in Thread, PrepareKill(t)
  PROVE  TypeInv'
<1>1. FlagsOK'
  BY ChangeType DEF TypeInv, TypeOK, PrepareKill, history, FlagsOK, Flag, FullMask,
     IpcMask, Abort
<1>2. QueuesOK'
  BY ToType, UnlistedType DEF TypeInv, TypeOK, PrepareKill, history, QueuesOK
<1>3. RestOK'
  BY DEF TypeInv, TypeOK, PrepareKill, history, RestOK
<1>4. PathsOK'
  BY ToType DEF At, TypeInv, TypeOK, ToOK, PrepareKill, history, PathsOK, Labels, Locals
<1>5. QED
  BY <1>1, <1>2, <1>3, <1>4, TypeParts

LEMMA DoKillType ==
  ASSUME TypeInv, NEW t \in Thread, DoKill(t)
  PROVE  TypeInv'
<1>1. FlagsOK'
  BY ChangeType DEF TypeInv, TypeOK, DoKill, world, history, Goto, flags, FlagsOK, Flag,
     FullMask, IpcMask, Abort
<1>2. QueuesOK'
  BY ToType, UnlistedType DEF TypeInv, TypeOK, DoKill, world, history, Goto, flags, QueuesOK
<1>3. RestOK'
  BY DEF TypeInv, TypeOK, DoKill, world, history, Goto, flags, RestOK
<1>4. PathsOK'
  BY ToType DEF At, TypeInv, TypeOK, ToOK, DoKill, world, history, Goto, flags, PathsOK,
     Labels, Locals
<1>5. QED
  BY <1>1, <1>2, <1>3, <1>4, TypeParts

LEMMA NoMoreSendersType ==
  ASSUME TypeInv, NEW t \in Thread, NoMoreSenders(t)
  PROVE  TypeInv'
<1>1. FlagsOK'
  BY ChangeType DEF TypeInv, TypeOK, NoMoreSenders, world, history, Goto, flags, FlagsOK,
     Flag, FullMask, IpcMask, Abort
<1>2. QueuesOK'
  BY ToType, UnlistedType DEF TypeInv, TypeOK, NoMoreSenders, world, history, Goto,
     flags, QueuesOK
<1>3. RestOK'
  BY DEF TypeInv, TypeOK, NoMoreSenders, world, history, Goto, flags, RestOK
<1>4. PathsOK'
  BY ToType DEF At, TypeInv, TypeOK, ToOK, NoMoreSenders, world, history, Goto, flags,
     PathsOK, Labels, Locals
<1>5. QED
  BY <1>1, <1>2, <1>3, <1>4, TypeParts

LEMMA DeadType ==
  ASSUME TypeInv, NEW t \in Thread, Dead(t)
  PROVE  TypeInv'
<1>1. FlagsOK'
  BY ChangeType DEF TypeInv, TypeOK, Dead, world, history, Goto, FlagsOK, Flag, FullMask,
     IpcMask, Abort
<1>2. QueuesOK'
  BY ToType, UnlistedType DEF TypeInv, TypeOK, Dead, world, history, Goto, QueuesOK
<1>3. RestOK'
  BY DEF TypeInv, TypeOK, Dead, world, history, Goto, RestOK
<1>4. PathsOK'
  BY ToType DEF At, TypeInv, TypeOK, ToOK, Dead, world, history, Goto, PathsOK, Labels, Locals
<1>5. QED
  BY <1>1, <1>2, <1>3, <1>4, TypeParts

\* transfer_msg() assigns threads to callers, and flags to the history.
LEMMA TransferType ==
  ASSUME TypeInv, NEW s \in Thread, NEW r \in Thread, NEW open, NEW ok \in BOOLEAN,
         TransferMsg(s, r, open, ok)
  PROVE  /\ caller' \in [Thread -> Thread \cup {None}]
         /\ sent' \in [Thread -> BOOLEAN] /\ got' \in [Thread -> BOOLEAN]
         /\ told' = told
<1>1. (sent[s] \/ ok) \in BOOLEAN /\ (got[r] \/ ok) \in BOOLEAN
  OBVIOUS
<1>2. sent' \in [Thread -> BOOLEAN] /\ got' \in [Thread -> BOOLEAN]
  BY <1>1 DEF TypeInv, TypeOK, TransferMsg
<1>3. caller' \in [Thread -> Thread \cup {None}]
  BY DEF TypeInv, TypeOK, TransferMsg
<1>4. QED
  BY <1>2, <1>3 DEF TransferMsg

\* The flags of x after xcpu_state_change() have lost nothing that is not of IPC.
LEMMA XcpuFlags ==
  ASSUME NEW f \in [Thread -> SUBSET Flag], NEW g \in [Thread -> Changes],
         NEW t, NEW x \in Thread,
         NEW del \in SUBSET (IpcMask \cup {"transfer"}),
         NEW add \in SUBSET {"ready", "receive_wait", "transfer_failed"},
         XcpuStateChange(t, x, del, add, f, g)
  PROVE  \A u \in Thread : /\ "drq_wait" \in st'[u] <=> "drq_wait" \in f[u]
                           /\ "dead" \in st'[u] <=> "dead" \in f[u]
<1>1. CASE Local(t, x)
  BY <1>1 DEF XcpuStateChange, IpcMask
<1>2. CASE ~ Local(t, x)
  BY <1>2 DEF XcpuStateChange
<1>3. QED
  BY <1>1, <1>2

\* The two transfers write locals of two threads at a time.
LEMMA CopyType ==
  ASSUME TypeInv, NEW t \in Thread, NEW ok \in BOOLEAN, Copy(t, ok)
  PROVE  TypeInv'
<1>0. /\ pc[t] = "copy" /\ reg[t].to \in Thread /\ drq[t] = "none" /\ reg \in [Thread -> Locals]
      /\ reg[t].to # None
      /\ UNCHANGED <<chg, partner, senders, alarm, drq, calls, events>>
  BY ToType, IpcAssumption DEF Copy, At, TypeInv, TypeOK, ToOK, world
<1>1. FlagsOK'
  <2>1. PICK a \in SUBSET {"receive_wait"} : st' = [st EXCEPT ![t] = (st[t] \ IpcMask) \cup a]
    BY DEF Copy
  <2>2. (st[t] \ IpcMask) \cup a \in SUBSET Flag
    BY DEF TypeInv, TypeOK, Flag, FullMask, IpcMask
  <2>3. QED
    BY <1>0, <2>1, <2>2, OneFlags
<1>2. QueuesOK' /\ RestOK'
  <2>1. TransferMsg(t, reg[t].to, reg[t].res = "open", ok)
    BY DEF Copy
  <2>2. QED
    BY <1>0, <2>1, TransferType DEF TypeInv, TypeOK, QueuesOK, RestOK
<1>3. PathsOK'
  <2>1. Tagged(ok) \in {"none", "msg", "error"}
    BY DEF Tagged
  <2>2. reg' = [reg EXCEPT ![t].ok = ok, ![t].activate = TRUE, ![reg[t].to].tag = Tagged(ok)]
    BY DEF Copy
  <2>3. /\ reg' \in [Thread -> Locals]
        /\ \A u \in Thread : /\ reg'[u].to = reg[u].to /\ reg'[u].next = reg[u].next
                             /\ u # t => reg'[u].activate = reg[u].activate
    <3>1. PICK h : h = reg'
      OBVIOUS
    <3>2. PICK w \in {"none", "msg", "error"}, p \in Thread :
             Copied(h, reg, t, p, ok, w)
      BY <1>0, <2>1, <2>2, <3>1 DEF Copied
    <3>3. reg \in [Thread -> Locals] /\ ok \in BOOLEAN
      BY <1>0
    <3>4. /\ h \in [Thread -> Locals]
          /\ \A u \in Thread : /\ h[u].to = reg[u].to /\ h[u].next = reg[u].next
                               /\ u # t => h[u].activate = reg[u].activate
      BY ONLY <3>2, <3>3, t \in Thread, SetCopied
    <3>5. QED
      BY ONLY <3>1, <3>4
  <2>4. /\ pc' \in [Thread -> Labels] /\ pc'[t] = "pick" /\ \A u \in Thread \ {t} : pc'[u] = pc[u]
        /\ \A u \in Thread \ {t} : st'[u] = st[u]
    BY DEF Copy, Goto, TypeInv, TypeOK, Labels
  <2>5. ASSUME NEW u \in Thread
        PROVE  ToOK(u)'
    <3>1. CASE u = t
      BY <1>0, <2>3, <2>4, <3>1 DEF ToOK
    <3>2. CASE u # t
      BY <1>0, <2>3, <2>4, <3>2 DEF ToOK, TypeInv
    <3>3. QED
      BY <3>1, <3>2
  <2>6. QED
    BY <2>3, <2>4, <2>5 DEF PathsOK
<1>4. QED
  BY <1>1, <1>2, <1>3, TypeParts

LEMMA ActivateType ==
  ASSUME TypeInv, NEW t \in Thread, Activate(t)
  PROVE  TypeInv'
<1>0. /\ pc[t] = "activate" /\ reg[t].to \in Thread /\ drq[t] = "none"
      /\ XcpuStateChange(t, reg[t].to, {"transfer"}, {"ready"}, st, chg)
      /\ pc' = [pc EXCEPT ![t] = "receive"] \/ pc' = [pc EXCEPT ![t] = "switched"]
      /\ UNCHANGED <<partner, caller, senders, alarm, drq, reg, world, history>>
  BY ToType DEF Activate, At, TypeInv, ToOK, Goto
<1>9. /\ st \in [Thread -> SUBSET Flag] /\ chg \in [Thread -> Changes]
      /\ {"transfer"} \in SUBSET (IpcMask \cup {"transfer"})
      /\ {"ready"} \in SUBSET {"ready", "receive_wait", "transfer_failed"}
  BY DEF TypeInv, TypeOK
<1>1. FlagsOK'
  BY <1>0, <1>9, XcpuType
<1>2. QueuesOK' /\ RestOK'
  BY <1>0 DEF TypeInv, TypeOK, QueuesOK, RestOK, world, history
<1>3. PathsOK'
  <2>1. \A u \in Thread : "drq_wait" \in st[u] => "drq_wait" \in st'[u]
    BY <1>0, <1>9, XcpuFlags
  <2>2. reg' \in [Thread -> Locals]
    BY <1>0 DEF TypeInv, TypeOK
  <2>3. QED
    BY <1>0, <2>1, <2>2, PathsType DEF Labels
<1>4. QED
  BY <1>1, <1>2, <1>3, TypeParts

LEMMA PullType ==
  ASSUME TypeInv, NEW t \in Thread, NEW ok \in BOOLEAN, Pull(t, ok)
  PROVE  TypeInv'
<1> DEFINE n == reg[t].next
           took == [st EXCEPT ![t] = @ \ IpcMask]
<1>0. /\ pc[t] = "pull" /\ n \in Thread /\ drq[t] = "none" /\ reg \in [Thread -> Locals]
      /\ TransferMsg(n, t, reg[t].from = Anyone, ok)
      /\ senders' = Unlisted(n)
      /\ pc' = [pc EXCEPT ![t] = "end"] \/ pc' = [pc EXCEPT ![t] = "pulled"]
      /\ reg' = [reg EXCEPT ![t].tag = Tagged(ok), ![n].ok = ok]
      /\ UNCHANGED <<partner, alarm, drq, calls, events>>
  BY ToType DEF Pull, At, TypeInv, TypeOK, ToOK, Goto, world
<1>1. PICK f \in {st, took}, add \in SUBSET {"ready", "receive_wait", "transfer_failed"},
           del \in {IpcMask \cup {"transfer"}, {}} : XcpuStateChange(t, n, del, add, f, chg)
  <2>1. PICK f \in {st, took} :
           IF ok
           THEN XcpuStateChange(t, n, IpcMask \cup {"transfer"}, SentFlags(n), f, chg)
           ELSE XcpuStateChange(t, n, {}, {"transfer_failed", "ready"}, f, chg)
    BY DEF Pull
  <2>2. SentFlags(n) \in SUBSET {"ready", "receive_wait", "transfer_failed"}
    BY DEF SentFlags
  <2>3. QED
    BY <2>1, <2>2
<1>2. /\ f \in [Thread -> SUBSET Flag] /\ del \in SUBSET (IpcMask \cup {"transfer"})
      /\ \A u \in Thread : "drq_wait" \in st[u] => "drq_wait" \in f[u]
  <2>1. st \in [Thread -> SUBSET Flag] /\ st[t] \ IpcMask \in SUBSET Flag
    BY DEF TypeInv, TypeOK
  <2>2. took \in [Thread -> SUBSET Flag]
    BY <2>1
  <2>3. \A u \in Thread : "drq_wait" \in st[u] => "drq_wait" \in took[u]
    BY <2>1 DEF IpcMask
  <2>4. f = st \/ f = took
    BY <1>1
  <2>5. del \in SUBSET (IpcMask \cup {"transfer"})
    BY <1>1
  <2> HIDE DEF took
  <2>6. QED
    BY <2>1, <2>2, <2>3, <2>4, <2>5
<1> HIDE DEF n, took
<1>3. FlagsOK' /\ \A u \in Thread : "drq_wait" \in st[u] => "drq_wait" \in st'[u]
  BY <1>0, <1>1, <1>2, XcpuType, XcpuFlags DEF TypeInv, TypeOK
<1>4. QueuesOK' /\ RestOK'
  BY <1>0, TransferType, UnlistedType DEF TypeInv, TypeOK, QueuesOK, RestOK
<1>5. PathsOK'
  <2>1. PICK g : g = [reg EXCEPT ![t].tag = Tagged(ok)]
    OBVIOUS
  <2>2. reg' = [g EXCEPT ![n].ok = ok]
    BY <1>0, <2>1
  <2>3. Tagged(ok) \in {"none", "msg", "error"}
    BY DEF Tagged
  <2>4. /\ g \in [Thread -> Locals]
        /\ \A u \in Thread : /\ g[u].to = reg[u].to /\ g[u].next = reg[u].next
                             /\ g[u].activate = reg[u].activate
    BY <1>0, <2>1, <2>3, SetTag
  <2>5. /\ reg' \in [Thread -> Locals]
        /\ \A u \in Thread : /\ reg'[u].to = g[u].to /\ reg'[u].next = g[u].next
                             /\ reg'[u].activate = g[u].activate
    <3>0. g \in [Thread -> Locals]
      BY <2>4
    <3>1. n \in Thread
      BY <1>0
    <3>2. QED
      BY ONLY <2>2, <3>0, <3>1, ok \in BOOLEAN DEF Locals
  <2>6. QED
    <3>1. PICK l \in {"end", "pulled"} : pc' = [pc EXCEPT ![t] = l]
      BY <1>0
    <3>2. QED
      <4>1. /\ reg' \in [Thread -> Locals]
            /\ \A u \in Thread : /\ reg'[u].to = reg[u].to /\ reg'[u].next = reg[u].next
                                 /\ reg'[u].activate = reg[u].activate
        BY <2>4, <2>5
      <4>2. QED
        BY ONLY TypeInv, t \in Thread, <1>0, <1>3, <3>1, <4>1, PathsType DEF Labels
<1>6. QED
  BY <1>3, <1>4, <1>5, TypeParts

LEMMA AbortSenderType ==
  ASSUME TypeInv, NEW t \in Thread, AbortSender(t)
  PROVE  TypeInv'
<1> DEFINE s == Head(senders[t])
<1>0. /\ pc[t] = "kill" /\ s \in Thread
      /\ XcpuStateChange(t, s, {}, {"transfer_failed", "ready"}, st, chg)
      /\ senders' = Unlisted(s)
      /\ UNCHANGED <<partner, caller, alarm, drq, pc, reg, world, history>>
  BY DEF AbortSender, At, TypeInv, TypeOK
<1> HIDE DEF s
<1>1. FlagsOK' /\ \A u \in Thread : "drq_wait" \in st[u] => "drq_wait" \in st'[u]
  BY <1>0, XcpuType, XcpuFlags DEF TypeInv, TypeOK
<1>2. QueuesOK' /\ RestOK'
  BY <1>0, UnlistedType DEF TypeInv, TypeOK, QueuesOK, RestOK, world, history
<1>3. PathsOK'
  BY <1>0, <1>1 DEF PathsOK, TypeInv, TypeOK, ToOK
<1>4. QED
  BY <1>1, <1>2, <1>3, TypeParts

\* The DRQ of a sender, with what it leaves at the receiver and the sender.
LEMMA RemoteIpcSendType ==
  ASSUME TypeInv, NEW t \in Thread, RemoteIpcSend(t)
  PROVE  TypeInv'
<1>0. /\ drq[t] = "send" /\ reg[t].to \in Thread /\ reg \in [Thread -> Locals]
      /\ UNCHANGED <<partner, alarm, pc, calls, events>>
      /\ drq' = [drq EXCEPT ![t] = "reply"]
  BY ToType DEF RemoteIpcSend, TypeInv, TypeOK, world
<1>1. PICK p \in Thread : p = reg[t].to
  BY <1>0
<1>2. PICK f : f = [st EXCEPT ![p] = Change(@, p)]
  OBVIOUS
<1>3. PICK ready : ready = [f EXCEPT ![p] = (@ \ IpcMask) \cup {"ready"}]
  OBVIOUS
<1>4. PICK taken : taken = [f EXCEPT ![p] = (@ \ (IpcMask \cup {"ready"})) \cup {"transfer"}]
  OBVIOUS
<1>5. /\ f \in [Thread -> SUBSET Flag] /\ ChangeTaken(p) \in [Thread -> Changes]
      /\ \A u \in Thread : "drq_wait" \in st[u] => "drq_wait" \in f[u]
  <2>1. Change(st[p], p) \in SUBSET Flag /\ ChangeTaken(p) \in [Thread -> Changes]
    BY ChangeType DEF TypeInv, TypeOK
  <2>2. QED
    <3>1. "drq_wait" \in st[p] => "drq_wait" \in Change(st[p], p)
      BY ChangeFlags DEF TypeInv
    <3>2. st \in [Thread -> SUBSET Flag]
      BY DEF TypeInv, TypeOK
    <3>3. f \in [Thread -> SUBSET Flag]
      BY <1>2, <2>1, <3>2
    <3>4. \A u \in Thread : "drq_wait" \in st[u] => "drq_wait" \in f[u]
      BY <1>2, <3>1, <3>2
    <3>5. QED
      BY <2>1, <3>3, <3>4
<1>6. /\ ready \in [Thread -> SUBSET Flag]
      /\ \A u \in Thread : "drq_wait" \in st[u] => "drq_wait" \in ready[u]
  <2>1. (f[p] \ IpcMask) \cup {"ready"} \in SUBSET Flag
    BY <1>5 DEF Flag
  <2>2. QED
    BY <1>3, <1>5, <2>1 DEF IpcMask
<1>7. /\ taken \in [Thread -> SUBSET Flag]
      /\ \A u \in Thread : "drq_wait" \in st[u] => "drq_wait" \in taken[u]
  <2>1. (f[p] \ (IpcMask \cup {"ready"})) \cup {"transfer"} \in SUBSET Flag
    BY <1>5 DEF Flag, FullMask, Abort
  <2>2. QED
    BY <1>4, <1>5, <2>1 DEF IpcMask
<1>8. /\ \/ st' = f /\ chg' = ChangeTaken(p)
         \/ \E h \in {f, ready, taken}, del \in {IpcMask, {"send_wait"}},
               add \in {{}, {"ready"}, {"receive_wait"}} :
               XcpuStateChange(p, t, del, add, h, ChangeTaken(p))
      /\ \/ \E v \in {"failed", "queued", "open", "closed"} : reg' = [reg EXCEPT ![t].res = v]
         \/ reg' = [reg EXCEPT ![t].res = "done", ![p].tag = "msg"]
      /\ senders' \in {senders, [senders EXCEPT ![p] = Append(@, t)]}
      /\ \/ UNCHANGED <<caller, history>>
         \/ \E open : TransferMsg(t, p, open, TRUE)
  BY <1>1, <1>2, <1>3, <1>4 DEF RemoteIpcSend
<1>9. FlagsOK' /\ \A u \in Thread : "drq_wait" \in st[u] => "drq_wait" \in st'[u]
  <2>1. CASE st' = f /\ chg' = ChangeTaken(p)
    BY <1>5, <2>1 DEF FlagsOK
  <2>2. CASE \E h \in {f, ready, taken}, del \in {IpcMask, {"send_wait"}},
               add \in {{}, {"ready"}, {"receive_wait"}} :
               XcpuStateChange(p, t, del, add, h, ChangeTaken(p))
    <3>1. PICK h \in {f, ready, taken}, del \in {IpcMask, {"send_wait"}},
               add \in {{}, {"ready"}, {"receive_wait"}} :
               XcpuStateChange(p, t, del, add, h, ChangeTaken(p))
      BY <2>2
    <3>2. /\ h \in [Thread -> SUBSET Flag]
          /\ \A u \in Thread : "drq_wait" \in st[u] => "drq_wait" \in h[u]
      BY <1>5, <1>6, <1>7
    <3>3. /\ del \in SUBSET (IpcMask \cup {"transfer"})
          /\ add \in SUBSET {"ready", "receive_wait", "transfer_failed"}
      BY <3>1 DEF IpcMask
    <3>4. QED
      BY <1>5, <3>1, <3>2, <3>3, XcpuType, XcpuFlags
  <2>3. QED
    BY <1>8, <2>1, <2>2
<1>10. QueuesOK' /\ RestOK'
  <2>1. /\ caller' \in [Thread -> Thread \cup {None}]
        /\ sent' \in [Thread -> BOOLEAN] /\ got' \in [Thread -> BOOLEAN]
        /\ told' \in [Thread -> BOOLEAN \X BOOLEAN]
    <3>1. CASE UNCHANGED <<caller, history>>
      BY <3>1 DEF TypeInv, TypeOK, history
    <3>2. CASE \E open : TransferMsg(t, p, open, TRUE)
      BY <3>2, TransferType DEF TypeInv, TypeOK
    <3>3. QED
      BY <1>8, <3>1, <3>2
  <2>2. senders' \in [Thread -> Seq(Thread)] /\ drq' \in [Thread -> {"none", "send", "abort", "reply"}]
    <3>1. senders \in [Thread -> Seq(Thread)]
      BY DEF TypeInv, TypeOK
    <3>2. Append(senders[p], t) \in Seq(Thread)
      BY <3>1
    <3>3. senders' \in [Thread -> Seq(Thread)]
      BY <1>8, <3>1, <3>2
    <3>4. QED
      BY <1>0, <3>3 DEF TypeInv, TypeOK
  <2>3. QED
    BY <1>0, <2>1, <2>2 DEF TypeInv, TypeOK, QueuesOK, RestOK
<1>11. PathsOK'
  <2>1. /\ reg' \in [Thread -> Locals]
        /\ \A u \in Thread : /\ reg'[u].to = reg[u].to /\ reg'[u].next = reg[u].next
                             /\ reg'[u].activate = reg[u].activate
    <3>1. CASE \E v \in {"failed", "queued", "open", "closed"} : reg' = [reg EXCEPT ![t].res = v]
      <4>1. PICK v \in {"failed", "queued", "open", "closed"} : reg' = [reg EXCEPT ![t].res = v]
        BY <3>1
      <4>2. QED
        BY ONLY <1>0, <4>1, t \in Thread, SetRes
    <3>2. CASE reg' = [reg EXCEPT ![t].res = "done", ![p].tag = "msg"]
      <4>1. PICK g : g = [reg EXCEPT ![t].res = "done"]
        OBVIOUS
      <4>2. reg' = [g EXCEPT ![p].tag = "msg"]
        BY <3>2, <4>1
      <4>3. /\ g \in [Thread -> Locals]
            /\ \A u \in Thread : /\ g[u].to = reg[u].to /\ g[u].next = reg[u].next
                                 /\ g[u].activate = reg[u].activate
        BY ONLY <1>0, <4>1, t \in Thread, SetRes
      <4>4. /\ reg' \in [Thread -> Locals]
            /\ \A u \in Thread : /\ reg'[u].to = g[u].to /\ reg'[u].next = g[u].next
                                 /\ reg'[u].activate = g[u].activate
        <5>1. g \in [Thread -> Locals]
          BY <4>3
        <5>2. QED
          BY ONLY <4>2, <5>1, p \in Thread DEF Locals
      <4>5. QED
        BY <4>3, <4>4
    <3>3. QED
      BY <1>8, <3>1, <3>2
  <2>2. \A u \in Thread : drq'[u] # "none" => drq[u] # "none"
    BY <1>0 DEF TypeInv, TypeOK
  <2>3. ASSUME NEW u \in Thread
        PROVE  ToOK(u)'
    BY <1>0, <1>9, <2>1, <2>2 DEF ToOK, TypeInv
  <2>4. QED
    BY <1>0, <2>1, <2>3 DEF PathsOK, TypeInv, TypeOK
<1>12. QED
  BY <1>9, <1>10, <1>11, TypeParts

\* TypeInv is inductive.
LEMMA NextType == TypeInv /\ [Next]_vars => TypeInv'
<1> SUFFICES ASSUME TypeInv, [Next]_vars PROVE TypeInv'
  OBVIOUS
<1>1. CASE Next
  <2>1. PICK t \in Thread : \/ DoIpc(t) \/ Step(t) \/ Drq(t) \/ TakeChange(t)
                            \/ Expired(t) \/ Cancel(t) \/ PrepareKill(t)
    BY <1>1 DEF Next
  <2>2. CASE Step(t)
    BY <2>2, HandshakeReceiverType, RemoteHandshakeReceiverType, RemoteAnswerType, CopyType,
       PullType, PickType, ActivateType, SwitchedType, ReceiveType, PulledType, WakeUpType,
       EndType, WaitOnType, SendWaitedType, AbortedType, DoKillType, AbortSenderType,
       NoMoreSendersType, DeadType
       DEF Step
  <2>3. CASE Drq(t)
    BY <2>3, RemoteIpcSendType, RemoteAbortSendType, TakeReplyType DEF Drq
  <2>4. QED
    BY <2>1, <2>2, <2>3, DoIpcType, TakeChangeType, ExpiredType, CancelType, PrepareKillType
<1>2. CASE UNCHANGED vars
  BY <1>2, StutterType
<1>3. QED
  BY <1>1, <1>2

(* Flags, lists and locals keep their types, for any threads, CPUs and calls, *)
(* also if those who have picked a sender do not take its message at once.    *)
THEOREM IpcTypeCorrect == Spec => []TypeOK
<1>1. Spec => []TypeInv
  BY InitType, NextType, PTL DEF Spec
<1>2. TypeInv => TypeOK
  BY DEF TypeInv
<1>3. QED
  BY <1>1, <1>2, PTL

-----------------------------------------------------------------------------
\* Where each step begins and ends.

\* The path of u, with what it has found, is not touched.
Stays(u) ==
    /\ pc'[u] = pc[u] /\ drq'[u] = drq[u] /\ partner'[u] = partner[u]
    /\ reg'[u].to = reg[u].to /\ reg'[u].from = reg[u].from /\ reg'[u].items = reg[u].items
    /\ reg'[u].next = reg[u].next /\ reg'[u].res = reg[u].res

\* t goes from l to one of m with the locals of its call.
Goes(t, l, m) ==
    /\ At(t, l) /\ pc[t] = l /\ pc'[t] \in m
    /\ drq[t] = "none" /\ drq'[t] = "none"
    /\ reg'[t].to = reg[t].to /\ reg'[t].from = reg[t].from /\ reg'[t].items = reg[t].items

\* From where to where each action takes its thread, with which locals.
LEMMA DoIpcMoves ==
  ASSUME TypeInv, NEW t \in Thread, DoIpc(t)
  PROVE  /\ \A u \in Thread \ {t} : Stays(u)
         /\ \/ UNCHANGED <<st, chg, senders, caller, partner, pc, reg, drq, sent>>
            \/ /\ At(t, "user") /\ pc[t] = "user" /\ pc'[t] \in {"pick", "send"}
               /\ drq[t] = "none" /\ drq' = drq
               /\ reg'[t].next = None /\ partner'[t] = reg'[t].from
               /\ st' = st \/ st' = [st EXCEPT ![t] = @ \cup {"receive_wait"}]
               /\ UNCHANGED <<chg, senders>>
               /\ sent' = [sent EXCEPT ![t] = FALSE]
               /\ caller' = caller \/ caller' = [caller EXCEPT ![t] = None]
<1> DEFINE k == Head(calls[t])
           to == IF k.to = Reply THEN caller[t] ELSE k.to
<1>1. /\ pc[t] = "user" /\ At(t, "user") /\ drq[t] = "none"
      /\ pc \in [Thread -> Labels] /\ reg \in [Thread -> Locals]
      /\ partner \in [Thread -> Thread \cup {None, Anyone}] /\ drq' = drq
  BY DEF DoIpc, At, TypeInv, TypeOK, ToOK
<1>2. CASE k.to = Reply /\ to = None
  <2>1. UNCHANGED <<st, chg, partner, caller, senders, drq, pc, reg, sent>>
    BY <1>2 DEF DoIpc
  <2>2. QED
    BY <2>1 DEF Stays
<1>3. CASE ~ (k.to = Reply /\ to = None)
  <2>1. /\ partner' = [partner EXCEPT ![t] = k.from]
        /\ reg' = [reg EXCEPT ![t] =
                          [Idle EXCEPT !.to = to, !.from = k.from,
                              !.items = k.items, !.snd = k.snd, !.rcv = k.rcv]]
        /\ pc' = [pc EXCEPT ![t] = IF to = None THEN "pick" ELSE "send"]
    BY <1>3 DEF DoIpc, Goto
  <2>2. /\ st' = st \/ st' = [st EXCEPT ![t] = @ \cup {"receive_wait"}]
        /\ UNCHANGED <<chg, senders>>
        /\ sent' = [sent EXCEPT ![t] = FALSE]
        /\ caller' = caller \/ caller' = [caller EXCEPT ![t] = None]
    <3>1. /\ st' = [st EXCEPT ![t] = IF to = None THEN @ \cup {"receive_wait"} ELSE @]
          /\ caller' = IF to # None /\ caller[t] = to
                       THEN [caller EXCEPT ![t] = None] ELSE caller
          /\ sent' = [sent EXCEPT ![t] = FALSE]
          /\ UNCHANGED <<chg, senders>>
      BY <1>3 DEF DoIpc
    <3>2. QED
      BY <3>1 DEF TypeInv, TypeOK
  <2> HIDE DEF to, k
  <2>3. /\ reg'[t].next = None /\ partner'[t] = reg'[t].from
        /\ \A u \in Thread \ {t} :
              reg'[u] = reg[u] /\ pc'[u] = pc[u] /\ partner'[u] = partner[u]
    BY <1>1, <2>1 DEF Idle
  <2>4. pc'[t] \in {"pick", "send"}
    BY <1>1, <2>1
  <2>5. QED
    BY <1>1, <2>2, <2>3, <2>4 DEF Stays
<1>4. QED
  BY <1>2, <1>3

LEMMA HandshakeMoves ==
  ASSUME TypeInv, NEW t \in Thread, HandshakeReceiver(t)
  PROVE  /\ \A u \in Thread \ {t} : Stays(u)
         /\ Goes(t, "send", {"end", "sendWait", "copy"})
         /\ reg'[t].next = reg[t].next /\ partner' = partner
<1>1. /\ pc[t] = "send" /\ At(t, "send") /\ reg[t].to \in Thread
      /\ HandshakeCase(t, reg[t].to, CheckSender(reg[t].to, t, st[reg[t].to]))
      /\ UNCHANGED <<chg, partner, caller, drq, calls, events, sent, got, told>>
  BY HandshakeCases
<1>2. PICK r : r = CheckSender(reg[t].to, t, st[reg[t].to])
  OBVIOUS
<1>3. /\ SendFails(t) \/ reg' = reg \/ (r \in {"open", "closed"} /\ reg' = [reg EXCEPT ![t].res = r])
      /\ SendFails(t) \/ \E l \in {"sendWait", "copy"} : pc' = [pc EXCEPT ![t] = l]
  BY <1>1, <1>2 DEF HandshakeCase
<1>4. reg \in [Thread -> Locals] /\ pc \in [Thread -> Labels] /\ drq[t] = "none"
  BY <1>1 DEF TypeInv, TypeOK, ToOK
<1>5. \A u \in Thread : /\ reg'[u].to = reg[u].to /\ reg'[u].from = reg[u].from
                        /\ reg'[u].items = reg[u].items /\ reg'[u].next = reg[u].next
                        /\ u # t => reg'[u].res = reg[u].res
  <2>1. CASE SendFails(t)
    BY <1>4, <2>1, SendFailsEffect
  <2>2. CASE r \in {"open", "closed"} /\ reg' = [reg EXCEPT ![t].res = r]
    BY ONLY <1>4, <2>2, t \in Thread DEF Locals
  <2>3. QED
    BY <1>3, <2>1, <2>2
<1>6. pc'[t] \in {"end", "sendWait", "copy"} /\ \A u \in Thread \ {t} : pc'[u] = pc[u]
  BY <1>3, <1>4, SendFailsEffect
<1>7. QED
  BY <1>1, <1>4, <1>5, <1>6 DEF Stays, Goes

LEMMA RemoteHandshakeMoves ==
  ASSUME TypeInv, NEW t \in Thread, RemoteHandshakeReceiver(t)
  PROVE  /\ \A u \in Thread \ {t} : Stays(u)
         /\ At(t, "send") /\ pc[t] = "send" /\ pc'[t] = "drq" /\ drq[t] = "none"
         /\ drq'[t] = "send"
         /\ ~ Local(t, reg[t].to) /\ reg' = reg /\ partner' = partner
  BY DEF RemoteHandshakeReceiver, At, TypeInv, TypeOK, ToOK, Goto, Stays

LEMMA RemoteAnswerMoves ==
  ASSUME TypeInv, NEW t \in Thread, RemoteAnswer(t)
  PROVE  /\ \A u \in Thread \ {t} : Stays(u)
         /\ Goes(t, "drq", {"end", "sendWait", "pick", "copy"})
         /\ reg'[t].next = reg[t].next /\ reg'[t].res = reg[t].res /\ partner' = partner
         /\ pc'[t] = "sendWait" <=> reg[t].res = "queued"
<1>1. /\ pc[t] = "drq" /\ At(t, "drq") /\ drq[t] = "none" /\ drq' = drq /\ partner' = partner
      /\ reg \in [Thread -> Locals] /\ pc \in [Thread -> Labels]
      /\ \/ SendFails(t) /\ reg[t].res = "failed"
         \/ pc' = [pc EXCEPT ![t] = "sendWait"] /\ reg' = reg /\ reg[t].res = "queued"
         \/ \E l \in {"pick", "copy"} :
               pc' = [pc EXCEPT ![t] = l] /\ reg' = reg /\ reg[t].res # "queued"
  BY DEF RemoteAnswer, At, TypeInv, TypeOK, ToOK, Goto
<1>2. \A u \in Thread : /\ reg'[u].to = reg[u].to /\ reg'[u].from = reg[u].from
                        /\ reg'[u].items = reg[u].items /\ reg'[u].next = reg[u].next
                        /\ reg'[u].res = reg[u].res
  BY <1>1, SendFailsEffect
<1>3. /\ pc'[t] \in {"end", "sendWait", "pick", "copy"} /\ \A u \in Thread \ {t} : pc'[u] = pc[u]
      /\ pc'[t] = "sendWait" <=> reg[t].res = "queued"
  BY <1>1, SendFailsEffect
<1>4. QED
  BY <1>1, <1>2, <1>3 DEF Stays, Goes

\* The locals after the assignments of transfer_msg().
LEMMA CopyLocals ==
  ASSUME TypeInv, NEW t \in Thread, NEW ok \in BOOLEAN, Copy(t, ok)
  PROVE  \A u \in Thread : /\ reg'[u].to = reg[u].to /\ reg'[u].from = reg[u].from
                           /\ reg'[u].items = reg[u].items
                           /\ reg'[u].next = reg[u].next /\ reg'[u].res = reg[u].res
<1>1. pc[t] = "copy" /\ reg[t].to \in Thread /\ reg \in [Thread -> Locals]
  BY ToType DEF Copy, At, TypeInv, TypeOK
<1>2. PICK h : h = reg'
  OBVIOUS
<1>3. PICK w \in {"none", "msg", "error"}, p \in Thread : Copied(h, reg, t, p, ok, w)
  BY <1>1, <1>2 DEF Copied, Copy, Tagged
<1>4. \A u \in Thread : /\ h[u].to = reg[u].to /\ h[u].from = reg[u].from
                        /\ h[u].items = reg[u].items
                        /\ h[u].next = reg[u].next /\ h[u].res = reg[u].res
  BY ONLY <1>1, <1>3, t \in Thread, ok \in BOOLEAN, SetCopied
<1>5. QED
  BY ONLY <1>2, <1>4

LEMMA CopyMoves ==
  ASSUME TypeInv, NEW t \in Thread, NEW ok \in BOOLEAN, Copy(t, ok)
  PROVE  /\ \A u \in Thread \ {t} : Stays(u)
         /\ Goes(t, "copy", {"pick"})
         /\ reg'[t].next = reg[t].next /\ partner' = partner
<1>1. /\ pc[t] = "copy" /\ At(t, "copy") /\ drq[t] = "none" /\ drq' = drq /\ partner' = partner
      /\ pc' = [pc EXCEPT ![t] = "pick"] /\ pc \in [Thread -> Labels]
  BY DEF Copy, At, TypeInv, TypeOK, ToOK, Goto
<1>2. QED
  BY <1>1, CopyLocals DEF Stays, Goes

LEMMA PickMoves ==
  ASSUME TypeInv, NEW t \in Thread, Pick(t)
  PROVE  /\ \A u \in Thread \ {t} : Stays(u)
         /\ Goes(t, "pick", {"activate", "receive"})
         /\ reg'[t].next = IF "receive_wait" \in st[t] /\ reg[t].next = None
                           THEN NextSender(t) ELSE reg[t].next
         /\ partner'[t] = IF reg'[t].next # None /\ reg[t].from = Anyone
                          THEN reg'[t].next ELSE partner[t]
<1>1. /\ pc[t] = "pick" /\ At(t, "pick") /\ drq[t] = "none" /\ drq' = drq
      /\ GetNextSender(t) /\ pc \in [Thread -> Labels]
      /\ \E l \in {"activate", "receive"} : pc' = [pc EXCEPT ![t] = l]
      /\ partner \in [Thread -> Thread \cup {None, Anyone}]
  BY DEF Pick, At, TypeInv, TypeOK, ToOK, Goto, flags
<1>2. QED
  BY <1>1, GetNextSenderEffect DEF Stays, Goes

LEMMA SwitchedMoves ==
  ASSUME TypeInv, NEW t \in Thread, Switched(t)
  PROVE  /\ \A u \in Thread \ {t} : Stays(u)
         /\ Goes(t, "switched", {"receive"})
         /\ reg'[t].next = IF "receive_wait" \in st[t] /\ reg[t].next = None
                           THEN NextSender(t) ELSE reg[t].next
         /\ partner'[t] = IF reg'[t].next # None /\ reg[t].from = Anyone
                          THEN reg'[t].next ELSE partner[t]
<1>1. /\ pc[t] = "switched" /\ At(t, "switched") /\ drq[t] = "none" /\ drq' = drq
      /\ GetNextSender(t) /\ pc \in [Thread -> Labels] /\ pc' = [pc EXCEPT ![t] = "receive"]
      /\ partner \in [Thread -> Thread \cup {None, Anyone}]
  BY DEF Switched, At, TypeInv, TypeOK, ToOK, Goto, flags
<1>2. QED
  BY <1>1, GetNextSenderEffect DEF Stays, Goes

LEMMA ActivateMoves ==
  ASSUME TypeInv, NEW t \in Thread, Activate(t)
  PROVE  /\ \A u \in Thread \ {t} : Stays(u)
         /\ Goes(t, "activate", {"receive", "switched"})
         /\ reg' = reg /\ partner' = partner
  BY DEF Activate, At, TypeInv, TypeOK, ToOK, Goto, Stays, Goes

LEMMA ReceiveMoves ==
  ASSUME TypeInv, NEW t \in Thread, Receive(t)
  PROVE  /\ \A u \in Thread \ {t} : Stays(u)
         /\ Goes(t, "receive", {"pull", "asleep", "end"})
         /\ pc'[t] = "pull" <=> reg[t].next # None
         /\ reg' = reg /\ partner' = partner
  BY DEF Receive, At, TypeInv, TypeOK, ToOK, Goto, Stays, Goes

LEMMA PullMoves ==
  ASSUME TypeInv, NEW t \in Thread, NEW ok \in BOOLEAN, Pull(t, ok)
  PROVE  /\ \A u \in Thread \ {t} : Stays(u)
         /\ Goes(t, "pull", {"end", "pulled"})
         /\ reg'[t].next = reg[t].next /\ partner' = partner
<1>1. /\ pc[t] = "pull" /\ At(t, "pull") /\ drq[t] = "none" /\ drq' = drq /\ partner' = partner
      /\ \E l \in {"end", "pulled"} : pc' = [pc EXCEPT ![t] = l]
      /\ pc \in [Thread -> Labels] /\ reg[t].next \in Thread
  BY ToType DEF Pull, At, TypeInv, TypeOK, ToOK, Goto
<1>2. \A u \in Thread : /\ reg'[u].to = reg[u].to /\ reg'[u].from = reg[u].from
                        /\ reg'[u].items = reg[u].items
                        /\ reg'[u].next = reg[u].next /\ reg'[u].res = reg[u].res
  <2>1. PICK n \in Thread : n = reg[t].next
    BY <1>1
  <2>0. PICK w \in {"msg", "error"} : w = Tagged(ok)
    BY DEF Tagged
  <2>2. PICK g : g = [reg EXCEPT ![t].tag = w]
    OBVIOUS
  <2>3. reg' = [g EXCEPT ![n].ok = ok]
    BY <2>0, <2>1, <2>2 DEF Pull
  <2>4. reg \in [Thread -> Locals]
    BY DEF TypeInv, TypeOK
  <2>5. g \in [Thread -> Locals]
    BY ONLY <2>2, <2>4, t \in Thread, w \in {"msg", "error"} DEF Locals
  <2>6. \A u \in Thread : /\ g[u].to = reg[u].to /\ g[u].from = reg[u].from
                          /\ g[u].items = reg[u].items
                          /\ g[u].next = reg[u].next /\ g[u].res = reg[u].res
    BY ONLY <2>2, <2>4, t \in Thread, w \in {"msg", "error"} DEF Locals
  <2>7. \A u \in Thread : /\ reg'[u].to = g[u].to /\ reg'[u].from = g[u].from
                          /\ reg'[u].items = g[u].items
                          /\ reg'[u].next = g[u].next /\ reg'[u].res = g[u].res
    BY ONLY <2>3, <2>5, n \in Thread, ok \in BOOLEAN DEF Locals
  <2>8. QED
    BY <2>6, <2>7
<1>3. QED
  BY <1>1, <1>2 DEF Stays, Goes

LEMMA PulledMoves ==
  ASSUME TypeInv, NEW t \in Thread, Pulled(t)
  PROVE  /\ \A u \in Thread \ {t} : Stays(u)
         /\ Goes(t, "pulled", {"end"}) /\ reg' = reg /\ partner' = partner
  BY DEF Pulled, At, TypeInv, TypeOK, ToOK, Goto, Stays, Goes

LEMMA WakeUpMoves ==
  ASSUME TypeInv, NEW t \in Thread, WakeUp(t)
  PROVE  /\ \A u \in Thread \ {t} : Stays(u)
         /\ Goes(t, "asleep", {"end"}) /\ reg' = reg /\ partner' = partner
  BY DEF WakeUp, At, TypeInv, TypeOK, ToOK, Goto, Stays, Goes

LEMMA EndMoves ==
  ASSUME TypeInv, NEW t \in Thread, End(t)
  PROVE  /\ \A u \in Thread \ {t} : Stays(u)
         /\ At(t, pc[t]) /\ pc[t] \in {"end", "transfer"} /\ drq[t] = "none" /\ drq'[t] = "none"
         /\ pc'[t] = "user" \/ (pc'[t] = "transfer" /\ reg' = reg)
         /\ partner' = partner
<1>1. /\ At(t, pc[t]) /\ pc[t] \in {"end", "transfer"} /\ drq[t] = "none" /\ drq' = drq
      /\ partner' = partner
  BY DEF End, At, TypeInv, ToOK
<1>2. \/ pc' = [pc EXCEPT ![t] = "transfer"] /\ reg' = reg
      \/ pc' = [pc EXCEPT ![t] = "user"] /\ reg' = [reg EXCEPT ![t] = Idle]
  <2>1. CASE "transfer" \in st[t]
    BY <2>1 DEF End, Goto
  <2>2. CASE "transfer" \notin st[t]
    BY <2>2 DEF End, Goto
  <2>3. QED
    BY <2>1, <2>2
<1>3. pc \in [Thread -> Labels] /\ reg \in [Thread -> Locals]
  BY DEF TypeInv, TypeOK
<1>4. \A u \in Thread \ {t} : pc'[u] = pc[u] /\ reg'[u] = reg[u]
  BY <1>2, <1>3
<1>5. pc'[t] = "user" \/ (pc'[t] = "transfer" /\ reg' = reg)
  BY <1>2, <1>3
<1>6. QED
  BY <1>1, <1>4, <1>5 DEF Stays

LEMMA SendWaitedMoves ==
  ASSUME TypeInv, NEW t \in Thread, SendWaited(t)
  PROVE  /\ \A u \in Thread \ {t} : Stays(u)
         /\ At(t, "sendWait") /\ pc[t] = "sendWait" /\ drq[t] = "none" /\ partner' = partner
         /\ pc'[t] \in {"pick", "end", "abort"}
         /\ reg'[t].to = reg[t].to /\ reg'[t].from = reg[t].from /\ reg'[t].items = reg[t].items
         /\ reg'[t].next = reg[t].next
         /\ drq'[t] = IF pc'[t] = "abort" THEN "abort" ELSE "none"
<1>1. /\ pc[t] = "sendWait" /\ At(t, "sendWait") /\ drq[t] = "none" /\ partner' = partner
      /\ reg \in [Thread -> Locals] /\ pc \in [Thread -> Labels]
      /\ drq \in [Thread -> {"none", "send", "abort", "reply"}]
      /\ \/ SendFails(t) /\ drq' = drq
         \/ pc' = [pc EXCEPT ![t] = "pick"] /\ reg' = reg /\ drq' = drq
         \/ pc' = [pc EXCEPT ![t] = "abort"] /\ reg' = reg /\ drq' = [drq EXCEPT ![t] = "abort"]
  BY DEF SendWaited, At, TypeInv, TypeOK, ToOK, Goto
<1>2. \A u \in Thread : /\ reg'[u].to = reg[u].to /\ reg'[u].from = reg[u].from
                        /\ reg'[u].items = reg[u].items /\ reg'[u].next = reg[u].next
                        /\ reg'[u].res = reg[u].res
  BY <1>1, SendFailsEffect
<1>3. /\ pc'[t] \in {"end", "pick", "abort"} /\ \A u \in Thread \ {t} : pc'[u] = pc[u]
      /\ drq'[t] = IF pc'[t] = "abort" THEN "abort" ELSE "none"
      /\ \A u \in Thread \ {t} : drq'[u] = drq[u]
  BY <1>1, SendFailsEffect
<1>4. QED
  BY <1>1, <1>2, <1>3 DEF Stays

LEMMA AbortedMoves ==
  ASSUME TypeInv, NEW t \in Thread, Aborted(t)
  PROVE  /\ \A u \in Thread \ {t} : Stays(u)
         /\ Goes(t, "abort", {"end", "pick"})
         /\ reg'[t].next = reg[t].next /\ partner' = partner
<1>1. /\ pc[t] = "abort" /\ At(t, "abort") /\ drq[t] = "none" /\ partner' = partner /\ drq' = drq
      /\ reg \in [Thread -> Locals] /\ pc \in [Thread -> Labels]
      /\ SendFails(t) \/ (pc' = [pc EXCEPT ![t] = "pick"] /\ reg' = reg)
  BY DEF Aborted, At, TypeInv, TypeOK, ToOK, Goto, flags
<1>2. \A u \in Thread : /\ reg'[u].to = reg[u].to /\ reg'[u].from = reg[u].from
                        /\ reg'[u].items = reg[u].items /\ reg'[u].next = reg[u].next
                        /\ reg'[u].res = reg[u].res
  BY <1>1, SendFailsEffect
<1>3. pc'[t] \in {"end", "pick"} /\ \A u \in Thread \ {t} : pc'[u] = pc[u]
  BY <1>1, SendFailsEffect
<1>4. QED
  BY <1>1, <1>2, <1>3 DEF Stays, Goes

LEMMA KillMoves ==
  ASSUME TypeInv, NEW t \in Thread,
         DoKill(t) \/ AbortSender(t) \/ NoMoreSenders(t) \/ Dead(t)
  PROVE  /\ \A u \in Thread \ {t} : Stays(u)
         /\ pc[t] \in {"user", "kill", "dying"} /\ pc'[t] \in {"kill", "dying", "dead"}
         /\ At(t, pc[t]) /\ drq[t] = "none" /\ drq' = drq
         /\ reg' = reg /\ partner' = partner
  BY DEF DoKill, AbortSender, NoMoreSenders, Dead, At, TypeInv, TypeOK, ToOK, Goto, flags, Stays

\* What comes from outside, or only touches flags and lists.
Outside(t) == \/ RemoteIpcSend(t) \/ RemoteAbortSend(t) \/ TakeReply(t) \/ TakeChange(t)
              \/ WaitOn(t) \/ Expired(t) \/ Cancel(t) \/ PrepareKill(t)

LEMMA OutsideMoves ==
  ASSUME TypeInv, NEW t \in Thread, Outside(t)
  PROVE  /\ \A u \in Thread \ {t} : Stays(u)
         /\ pc' = pc /\ partner' = partner
         /\ \/ drq'[t] = drq[t] /\ reg' = reg
            \/ drq[t] \in {"send", "abort"} /\ drq'[t] = "reply"
            \/ drq[t] = "reply" /\ drq'[t] = "none" /\ reg' = reg
         /\ reg'[t].to = reg[t].to /\ reg'[t].from = reg[t].from /\ reg'[t].items = reg[t].items
         /\ reg'[t].next = reg[t].next
<1>1. reg \in [Thread -> Locals] /\ drq \in [Thread -> {"none", "send", "abort", "reply"}]
  BY DEF TypeInv, TypeOK
<1>2. CASE RemoteIpcSend(t)
  <2>1. PICK p \in Thread : p = reg[t].to
    BY <1>2, ToType DEF RemoteIpcSend
  <2>2. /\ drq[t] = "send" /\ drq' = [drq EXCEPT ![t] = "reply"] /\ pc' = pc /\ partner' = partner
        /\ \/ \E v \in {"failed", "queued", "open", "closed"} : reg' = [reg EXCEPT ![t].res = v]
           \/ reg' = [reg EXCEPT ![t].res = "done", ![p].tag = "msg"]
    BY <1>2, <2>1 DEF RemoteIpcSend
  <2>3. \A u \in Thread : /\ reg'[u].to = reg[u].to /\ reg'[u].from = reg[u].from
                          /\ reg'[u].items = reg[u].items /\ reg'[u].next = reg[u].next
                          /\ u # t => reg'[u].res = reg[u].res
    <3>1. CASE \E v \in {"failed", "queued", "open", "closed"} : reg' = [reg EXCEPT ![t].res = v]
      <4>1. PICK v \in {"failed", "queued", "open", "closed"} : reg' = [reg EXCEPT ![t].res = v]
        BY <3>1
      <4>2. QED
        BY ONLY <1>1, <4>1, t \in Thread DEF Locals
    <3>2. CASE reg' = [reg EXCEPT ![t].res = "done", ![p].tag = "msg"]
      <4>1. PICK g : g = [reg EXCEPT ![t].res = "done"]
        OBVIOUS
      <4>2. reg' = [g EXCEPT ![p].tag = "msg"]
        BY <3>2, <4>1
      <4>3. g \in [Thread -> Locals]
        BY ONLY <1>1, <4>1, t \in Thread DEF Locals
      <4>4. \A u \in Thread : /\ g[u].to = reg[u].to /\ g[u].from = reg[u].from
                              /\ g[u].items = reg[u].items /\ g[u].next = reg[u].next
                              /\ u # t => g[u].res = reg[u].res
        BY ONLY <1>1, <4>1, t \in Thread DEF Locals
      <4>5. \A u \in Thread : /\ reg'[u].to = g[u].to /\ reg'[u].from = g[u].from
                              /\ reg'[u].items = g[u].items /\ reg'[u].next = g[u].next
                              /\ reg'[u].res = g[u].res
        BY ONLY <4>2, <4>3, p \in Thread DEF Locals
      <4>6. QED
        BY <4>4, <4>5
    <3>3. QED
      BY <2>2, <3>1, <3>2
  <2>4. QED
    BY <1>1, <2>2, <2>3 DEF Stays
<1>3. CASE RemoteAbortSend(t)
  <2>1. PICK v \in {"cancel", "done"} : reg' = [reg EXCEPT ![t].res = v]
    BY <1>3 DEF RemoteAbortSend
  <2>2. drq[t] = "abort" /\ drq' = [drq EXCEPT ![t] = "reply"] /\ pc' = pc /\ partner' = partner
    BY <1>3 DEF RemoteAbortSend
  <2>3. \A u \in Thread : /\ reg'[u].to = reg[u].to /\ reg'[u].from = reg[u].from
                          /\ reg'[u].items = reg[u].items /\ reg'[u].next = reg[u].next
                          /\ u # t => reg'[u].res = reg[u].res
    BY ONLY <1>1, <2>1, t \in Thread DEF Locals
  <2>4. QED
    BY <1>1, <2>2, <2>3 DEF Stays
<1>4. CASE TakeReply(t)
  BY <1>1, <1>4 DEF TakeReply, Stays
<1>5. CASE TakeChange(t) \/ WaitOn(t) \/ Expired(t) \/ Cancel(t) \/ PrepareKill(t)
  BY <1>1, <1>5 DEF TakeChange, WaitOn, Expired, Cancel, PrepareKill, Stays
<1>6. QED
  BY <1>2, <1>3, <1>4, <1>5 DEF Outside

-----------------------------------------------------------------------------
\* Paths.

\* A step of t leaves the paths of the others alone, and begins where t has its
\* CPU or leaves t where it is.
OwnPath(t) ==
    /\ \A u \in Thread \ {t} : Stays(u)
    /\ PathOK(t)'
    /\ At(t, pc[t]) \/ (pc'[t] = pc[t] /\ reg'[t].items = reg[t].items)

LEMMA InitPath == Init => PathInv
<1> SUFFICES ASSUME Init PROVE PathInv
  OBVIOUS
<1>1. \A t \in Thread : PathOK(t)
  BY DEF Init, PathOK, Before, Out
<1>2. QED
  BY <1>1, InitType DEF PathInv

LEMMA StutterPath == PathInv /\ UNCHANGED vars => PathInv'
  BY StutterType DEF PathInv, PathOK, vars, flags, world, history

\* Every step is of one thread, and keeps PathOK of it.
LEMMA StepPath ==
  ASSUME PathInv, NEW t \in Thread, Step(t) \/ DoIpc(t) \/ Outside(t)
  PROVE  OwnPath(t)
<1>1. TypeInv /\ PathOK(t)
  BY DEF PathInv
<1>3. CASE DoIpc(t)
  <2>1. /\ \A u \in Thread \ {t} : Stays(u)
        /\ \/ UNCHANGED <<partner, pc, reg, drq>>
           \/ /\ At(t, "user") /\ pc[t] = "user" /\ pc'[t] \in {"pick", "send"}
              /\ drq[t] = "none" /\ drq' = drq
              /\ reg'[t].next = None /\ partner'[t] = reg'[t].from
    BY <1>1, <1>3, DoIpcMoves
  <2>2. PathOK(t)'
    BY <1>1, <2>1 DEF PathOK, Before
  <2>3. QED
    BY <2>1, <2>2 DEF OwnPath
<1>4. CASE HandshakeReceiver(t)
  <2>1. PathOK(t)'
    BY <1>1, <1>4, HandshakeMoves DEF PathOK, Before, Goes, Out
  <2>2. QED
    BY <1>1, <1>4, <2>1, HandshakeMoves DEF Goes, OwnPath
<1>5. CASE RemoteHandshakeReceiver(t)
  <2>1. PathOK(t)'
    BY <1>1, <1>5, RemoteHandshakeMoves DEF PathOK, Before, Out
  <2>2. QED
    BY <1>1, <1>5, <2>1, RemoteHandshakeMoves DEF OwnPath
<1>6. CASE RemoteAnswer(t)
  <2>1. PathOK(t)'
    BY <1>1, <1>6, RemoteAnswerMoves DEF PathOK, Before, Goes, Out
  <2>2. QED
    BY <1>1, <1>6, <2>1, RemoteAnswerMoves DEF Goes, OwnPath
<1>7. ASSUME NEW ok \in BOOLEAN, Copy(t, ok)
      PROVE  OwnPath(t)
  <2>1. PathOK(t)'
    BY <1>1, <1>7, CopyMoves DEF PathOK, Before, Goes, Out
  <2>2. QED
    BY <1>1, <1>7, <2>1, CopyMoves DEF Goes, OwnPath
<1>8. ASSUME NEW ok \in BOOLEAN, Pull(t, ok)
      PROVE  OwnPath(t)
  <2>1. PathOK(t)'
    BY <1>1, <1>8, PullMoves DEF PathOK, Before, Goes, Out
  <2>2. QED
    BY <1>1, <1>8, <2>1, PullMoves DEF Goes, OwnPath
<1>9. CASE Pick(t) \/ Switched(t)
  <2>1. /\ \A u \in Thread \ {t} : Stays(u)
        /\ \E l \in {"pick", "switched"} : Goes(t, l, {"activate", "receive"})
        /\ partner'[t] = IF reg'[t].next # None /\ reg[t].from = Anyone
                         THEN reg'[t].next ELSE partner[t]
        /\ reg[t].next # None => reg'[t].next = reg[t].next
    BY <1>1, <1>9, PickMoves, SwitchedMoves DEF Goes
  <2>2. PathOK(t)'
    <3>1. /\ pc[t] \notin Out /\ pc'[t] \notin Before \cup {"asleep"}
          /\ reg'[t].from = reg[t].from /\ drq'[t] = "none"
      BY <2>1 DEF Goes, Out, Before
    <3>2. \/ partner[t] = reg[t].from
          \/ reg[t].from = Anyone /\ reg[t].next # None
      BY <1>1, <3>1 DEF PathOK
    <3>3. \/ partner'[t] = reg'[t].from
          \/ reg'[t].from = Anyone /\ reg'[t].next # None
      BY <2>1, <3>1, <3>2
    <3>4. QED
      BY <3>1, <3>3 DEF PathOK
  <2>3. QED
    BY <2>1, <2>2 DEF Goes, OwnPath
<1>10. CASE Activate(t)
  <2>1. PathOK(t)'
    BY <1>1, <1>10, ActivateMoves DEF PathOK, Before, Goes, Out
  <2>2. QED
    BY <1>1, <1>10, <2>1, ActivateMoves DEF Goes, OwnPath
<1>11. CASE Receive(t)
  <2>1. PathOK(t)'
    BY <1>1, <1>11, ReceiveMoves DEF PathOK, Before, Goes, Out
  <2>2. QED
    BY <1>1, <1>11, <2>1, ReceiveMoves DEF Goes, OwnPath
<1>12. CASE Pulled(t) \/ WakeUp(t)
  <2>1. /\ \A u \in Thread \ {t} : Stays(u)
        /\ \E l \in {"pulled", "asleep"} : Goes(t, l, {"end"})
        /\ reg' = reg /\ partner' = partner
    BY <1>1, <1>12, PulledMoves, WakeUpMoves
  <2>2. PathOK(t)'
    BY <1>1, <2>1 DEF PathOK, Before, Goes, Out
  <2>3. QED
    BY <2>1, <2>2 DEF Goes, OwnPath
<1>13. CASE End(t)
  <2>1. PathOK(t)'
    BY <1>1, <1>13, EndMoves DEF PathOK, Before, Out
  <2>2. QED
    BY <1>1, <1>13, <2>1, EndMoves DEF OwnPath
<1>14. CASE SendWaited(t)
  <2>1. PathOK(t)'
    BY <1>1, <1>14, SendWaitedMoves DEF PathOK, Before, Out
  <2>2. QED
    BY <1>1, <1>14, <2>1, SendWaitedMoves DEF OwnPath
<1>15. CASE Aborted(t)
  <2>1. PathOK(t)'
    BY <1>1, <1>15, AbortedMoves DEF PathOK, Before, Goes, Out
  <2>2. QED
    BY <1>1, <1>15, <2>1, AbortedMoves DEF Goes, OwnPath
<1>16. CASE DoKill(t) \/ AbortSender(t) \/ NoMoreSenders(t) \/ Dead(t)
  <2>1. PathOK(t)'
    BY <1>1, <1>16, KillMoves DEF PathOK, Before, Out
  <2>2. QED
    BY <1>1, <1>16, <2>1, KillMoves DEF OwnPath
<1>17. CASE WaitOn(t)
  <2>1. PathOK(t)'
    BY <1>1, <1>17, OutsideMoves DEF PathOK, Before, Out, Outside
  <2>2. QED
    BY <1>1, <1>17, <2>1, OutsideMoves DEF Outside, OwnPath
<1>18. CASE Outside(t)
  <2>1. PathOK(t)'
    BY <1>1, <1>18, OutsideMoves DEF PathOK
  <2>2. QED
    BY <1>1, <1>18, <2>1, OutsideMoves DEF OwnPath, Stays
<1>19. QED
  BY <1>3, <1>4, <1>5, <1>6, <1>7, <1>8, <1>9, <1>10, <1>11, <1>12, <1>13, <1>14, <1>15,
     <1>16, <1>17, <1>18 DEF Step

\* PathInv is inductive.
LEMMA NextPath == PathInv /\ [Next]_vars => PathInv'
<1> SUFFICES ASSUME PathInv, [Next]_vars PROVE PathInv'
  OBVIOUS
<1>1. TypeInv'
  BY NextType DEF PathInv
<1>2. CASE UNCHANGED vars
  BY <1>2, StutterPath
<1>3. CASE Next
  <2>1. PICK t \in Thread : Step(t) \/ DoIpc(t) \/ Outside(t)
    BY <1>3 DEF Next, Drq, Outside
  <2>2. OwnPath(t)
    BY <2>1, StepPath
  <2>3. \A u \in Thread \ {t} : PathOK(u)'
    BY <2>2 DEF OwnPath, PathInv, PathOK, Stays
  <2>4. QED
    BY <1>1, <2>2, <2>3 DEF PathInv, OwnPath
<1>4. QED
  BY <1>2, <1>3

-----------------------------------------------------------------------------
\* The lists of senders, as sets.

On(p, s) == Contains(senders[p], s)
Once(p) == \A i, j \in DOMAIN senders[p] : senders[p][i] = senders[p][j] => i = j

SameLists == \A p, s \in Thread : On(p, s)' <=> On(p, s)
Joins(r, t) == \A p, s \in Thread : On(p, s)' <=> On(p, s) \/ (p = r /\ s = t)
Leaves(t) == \A p, s \in Thread : On(p, s)' <=> On(p, s) /\ s # t

\* What the operations on lists of senders do to them as sets.
LEMMA ListsSame ==
  ASSUME senders' = senders
  PROVE  SameLists /\ \A p \in Thread : Once(p)' <=> Once(p)
  BY DEF SameLists, On, Once

\* Who is appended is in the list, once.
LEMMA AppendOne ==
  ASSUME NEW s \in Seq(Thread), NEW t \in Thread
  PROVE  /\ \A u \in Thread : Contains(Append(s, t), u) <=> Contains(s, u) \/ u = t
         /\ ~ Contains(s, t) /\ (\A i, j \in DOMAIN s : s[i] = s[j] => i = j) =>
               \A i, j \in DOMAIN Append(s, t) : Append(s, t)[i] = Append(s, t)[j] => i = j
<1> DEFINE q == Append(s, t)
<1>1. /\ Len(s) \in Nat /\ DOMAIN s = 1..Len(s) /\ Len(q) = Len(s) + 1 /\ DOMAIN q = 1..Len(q)
      /\ q[Len(s) + 1] = t /\ \A i \in 1..Len(s) : q[i] = s[i]
  OBVIOUS
<1> HIDE DEF q
<1>2. \A u \in Thread : Contains(q, u) <=> Contains(s, u) \/ u = t
  <2>1. ASSUME NEW u \in Thread, Contains(q, u) PROVE Contains(s, u) \/ u = t
    BY <1>1, <2>1 DEF Contains
  <2>2. ASSUME NEW u \in Thread, Contains(s, u) PROVE Contains(q, u)
    BY <1>1, <2>2 DEF Contains
  <2>3. Contains(q, t)
    <3>1. Len(s) + 1 \in 1..Len(q)
      BY <1>1
    <3>2. QED
      BY <1>1, <3>1 DEF Contains
  <2>4. QED
    BY <2>1, <2>2, <2>3
<1>3. ASSUME ~ Contains(s, t), \A i, j \in DOMAIN s : s[i] = s[j] => i = j,
             NEW i \in DOMAIN q, NEW j \in DOMAIN q, q[i] = q[j]
      PROVE  i = j
  <2>1. \A k \in 1..Len(s) : s[k] # t
    BY <1>3 DEF Contains
  <2>2. i \in 1..Len(s) \/ i = Len(s) + 1
    BY <1>1
  <2>3. j \in 1..Len(s) \/ j = Len(s) + 1
    BY <1>1
  <2>4. QED
    BY <1>1, <1>3, <2>1, <2>2, <2>3
<1>4. QED
  BY <1>2, <1>3 DEF q

LEMMA ListsJoined ==
  ASSUME TypeOK, NEW r \in Thread, NEW t \in Thread,
         senders' = [senders EXCEPT ![r] = Append(@, t)]
  PROVE  /\ Joins(r, t)
         /\ \A p \in Thread : Once(p) /\ ~ On(r, t) => Once(p)'
<1>1. /\ senders \in [Thread -> Seq(Thread)]
      /\ senders'[r] = Append(senders[r], t)
      /\ \A p \in Thread \ {r} : senders'[p] = senders[p]
  BY DEF TypeOK
<1>2. senders[r] \in Seq(Thread)
  BY <1>1
<1>3. ASSUME NEW p \in Thread, NEW s \in Thread
      PROVE  On(p, s)' <=> On(p, s) \/ (p = r /\ s = t)
  BY <1>1, <1>2, AppendOne DEF On
<1>4. ASSUME NEW p \in Thread, Once(p), ~ On(r, t)
      PROVE  Once(p)'
  <2>1. CASE p = r
    <3>1. /\ ~ Contains(senders[r], t)
          /\ \A i, j \in DOMAIN senders[r] : senders[r][i] = senders[r][j] => i = j
      BY <1>4, <2>1 DEF On, Once
    <3>2. PICK s \in Seq(Thread) : s = senders[r]
      BY <1>2
    <3>3. \A i, j \in DOMAIN Append(s, t) : Append(s, t)[i] = Append(s, t)[j] => i = j
      BY ONLY <3>1, <3>2, t \in Thread, AppendOne
    <3>4. QED
      BY <1>1, <2>1, <3>2, <3>3 DEF Once
  <2>2. CASE p # r
    BY <1>1, <1>4, <2>2 DEF Once
  <2>3. QED
    BY <2>1, <2>2
<1>5. QED
  BY <1>3, <1>4 DEF Joins

\* Who is in a list once is in it no more.
LEMMA RemoveOne ==
  ASSUME NEW s \in Seq(Thread), NEW k \in 1..Len(s),
         \A i, j \in DOMAIN s : s[i] = s[j] => i = j
  PROVE  /\ \A u \in Thread : Contains(RemoveAt(s, k), u) <=> Contains(s, u) /\ u # s[k]
         /\ \A i, j \in DOMAIN RemoveAt(s, k) : RemoveAt(s, k)[i] = RemoveAt(s, k)[j] => i = j
<1> DEFINE q == RemoveAt(s, k)
<1>1. /\ q \in Seq(Thread) /\ Len(q) = Len(s) - 1
      /\ \A i \in 1..(Len(s) - 1) : q[i] = s[IF i < k THEN i ELSE i + 1]
  BY SkipOne
<1>2. Len(s) \in Nat /\ DOMAIN s = 1..Len(s) /\ DOMAIN q = 1..(Len(s) - 1)
  BY <1>1
<1> HIDE DEF q
<1>3. ASSUME NEW u \in Thread, Contains(q, u)
      PROVE  Contains(s, u) /\ u # s[k]
  <2>1. PICK i \in 1..(Len(s) - 1) : q[i] = u
    BY <1>1, <1>3 DEF Contains
  <2>2. PICK j \in 1..Len(s) : j # k /\ s[j] = u
    BY <1>1, <1>2, <2>1
  <2>3. QED
    BY <1>2, <2>2 DEF Contains
<1>4. ASSUME NEW u \in Thread, Contains(s, u), u # s[k]
      PROVE  Contains(q, u)
  <2>1. PICK j \in 1..Len(s) : s[j] = u
    BY <1>4 DEF Contains
  <2>2. PICK i \in 1..(Len(s) - 1) : j = IF i < k THEN i ELSE i + 1
    <3>1. CASE j < k
      <4>1. j \in 1..(Len(s) - 1)
        BY <1>2, <3>1
      <4>2. QED
        BY <3>1, <4>1
    <3>2. CASE j > k
      <4>1. j - 1 \in 1..(Len(s) - 1) /\ ~ (j - 1 < k) /\ j = (j - 1) + 1
        BY <1>2, <3>2
      <4>2. QED
        BY <4>1
    <3>3. QED
      BY <1>2, <1>4, <2>1, <3>1, <3>2
  <2>3. QED
    BY <1>1, <2>1, <2>2 DEF Contains
<1>5. ASSUME NEW i \in DOMAIN q, NEW j \in DOMAIN q, q[i] = q[j]
      PROVE  i = j
  BY <1>1, <1>2, <1>5
<1>6. QED
  BY <1>3, <1>4, <1>5 DEF q

\* sender_dequeue() takes out one sender, and no other.
LEMMA ListsLeft ==
  ASSUME TypeOK, NEW t \in Thread, \A p \in Thread : Once(p), senders' = Unlisted(t)
  PROVE  Leaves(t) /\ \A p \in Thread : Once(p)'
<1>1. ASSUME NEW p \in Thread
      PROVE  /\ \A u \in Thread : On(p, u)' <=> On(p, u) /\ u # t
             /\ Once(p)'
  <2>1. senders[p] \in Seq(Thread)
    BY DEF TypeOK
  <2>2. CASE Contains(senders[p], t)
    <3> DEFINE k == CHOOSE i \in DOMAIN senders[p] : senders[p][i] = t
    <3>1. k \in 1..Len(senders[p]) /\ senders[p][k] = t
      BY <2>1, <2>2 DEF Contains
    <3>2. senders'[p] = RemoveAt(senders[p], k)
      BY <2>2 DEF Unlisted
    <3> HIDE DEF k
    <3>3. \A i, j \in DOMAIN senders[p] : senders[p][i] = senders[p][j] => i = j
      BY DEF Once
    <3>4. QED
      BY <2>1, <3>1, <3>2, <3>3, RemoveOne DEF On, Once
  <2>3. CASE ~ Contains(senders[p], t)
    BY <2>1, <2>3 DEF Unlisted, On, Once
  <2>4. QED
    BY <2>2, <2>3
<1>2. QED
  BY <1>1 DEF Leaves

\* An empty list has no sender, and the first of another list is one.
LEMMA ListEmpty ==
  ASSUME TypeOK, NEW p \in Thread
  PROVE  /\ senders[p] = <<>> <=> \A s \in Thread : ~ On(p, s)
         /\ senders[p] # <<>> => Head(senders[p]) \in Thread /\ On(p, Head(senders[p]))
<1>1. senders[p] \in Seq(Thread)
  BY DEF TypeOK
<1>2. CASE senders[p] = <<>>
  BY <1>2 DEF On, Contains
<1>3. CASE senders[p] # <<>>
  <2>1. 1 \in 1..Len(senders[p]) /\ senders[p][1] \in Thread /\ Head(senders[p]) = senders[p][1]
    BY <1>1, <1>3
  <2>2. On(p, senders[p][1])
    BY <2>1 DEF On, Contains
  <2>3. QED
    BY <1>3, <2>1, <2>2
<1>4. QED
  BY <1>2, <1>3

-----------------------------------------------------------------------------
\* The flags a sender waits for, and who waits where.

Sw(t) == "send_wait" \in st[t]
Tf(t) == "transfer_failed" \in st[t]
Rw(t) == st[t] \cap IpcMask = {"receive_wait"}
Dd(t) == "dead" \in st[t]

\* Another CPU has taken or refused the message of t, and t has not seen it.
Pending(t) == (chg[t].del \cup chg[t].add) \cap (IpcMask \cup {"transfer_failed"}) # {}

PendingOK(t) ==
    Pending(t) =>
       /\ ~ Tf(t) /\ ~ Local(t, reg[t].to)
       /\ \/ pc[t] = "drq" /\ drq[t] = "reply"
          \/ pc[t] = "drq" /\ drq[t] = "none" /\ reg[t].res = "queued" /\ Sw(t)
          \/ pc[t] = "sendWait" /\ Sw(t)
          \/ pc[t] = "abort" /\ drq[t] = "abort"
          \/ pc[t] = "abort" /\ drq[t] = "reply" /\ reg[t].res = "done"

FailedOK(t) == /\ Tf(t) => pc[t] \notin {"user", "send"} /\ drq[t] # "send"
               /\ drq[t] = "send" => Sw(t)
               /\ Dd(t) => pc[t] = "dead"

ListedOK(p, s) ==
    On(p, s) =>
       /\ reg[s].to = p /\ ~ Pending(s) /\ ~ Tf(s)
       /\ \/ pc[s] = "drq" /\ drq[s] # "send" /\ reg[s].res = "queued" /\ Sw(s)
          \/ pc[s] = "sendWait" /\ Sw(s)
          \/ pc[s] = "abort" /\ drq[s] = "abort"

SenderInv(t) == PendingOK(t) /\ FailedOK(t) /\ \A p \in Thread : ListedOK(p, t)

\* u goes on as it was, or its CPU makes the changes that others asked for.
Kept(u) ==
    /\ Stays(u)
    /\ Pending(u)' => Pending(u)
    /\ ~ Pending(u) \/ Pending(u)' => (Sw(u)' <=> Sw(u)) /\ (Tf(u)' <=> Tf(u))
    /\ ~ Pending(u) => (Rw(u)' => Rw(u))
    /\ Dd(u)' => Dd(u)

Waiting == {"drq", "sendWait", "abort"}

\* SenderInv of one who is Kept, whose list may have lost it.
LEMMA KeptSender ==
  ASSUME NEW u \in Thread, PathOK(u), SenderInv(u), Kept(u), \A p \in Thread : On(p, u)' => On(p, u)
  PROVE  SenderInv(u)'
<1>1. PendingOK(u)'
  BY DEF SenderInv, Kept, Stays, PendingOK, Local
<1>2. FailedOK(u)'
  BY DEF SenderInv, Kept, Stays, PendingOK, FailedOK, PathOK
<1>3. ASSUME NEW p \in Thread PROVE ListedOK(p, u)'
  BY <1>3 DEF SenderInv, Kept, Stays, PendingOK, ListedOK
<1>4. QED
  BY <1>1, <1>2, <1>3 DEF SenderInv

\* Who does not wait for its message to be taken is nobody's sender.
LEMMA FreeSender ==
  ASSUME NEW t \in Thread, SenderInv(t), pc[t] \notin Waiting
  PROVE  ~ Pending(t) /\ \A p \in Thread : ~ On(p, t)
  BY DEF SenderInv, PendingOK, ListedOK, Waiting

\* SenderInv of one who waits for nothing any more.
LEMMA FreeKept ==
  ASSUME NEW t \in Thread, ~ Pending(t)', \A p \in Thread : ~ On(p, t)',
         drq'[t] # "send", Tf(t)' => pc'[t] \notin {"user", "send"}, Dd(t)' => pc'[t] = "dead"
  PROVE  SenderInv(t)'
  BY DEF SenderInv, PendingOK, FailedOK, ListedOK

\* An assignment to the flags of t.
LEMMA OneKept ==
  ASSUME TypeInv, NEW t \in Thread, NEW F, chg' = chg,
         st' = st \/ st' = [st EXCEPT ![t] = F],
         \A u \in Thread \ {t} : Stays(u)
  PROVE  /\ \A u \in Thread \ {t} : Kept(u)
         /\ Pending(t)' <=> Pending(t)
         /\ st'[t] = st[t] \/ st'[t] = F
<1>1. st \in [Thread -> SUBSET Flag]
  BY DEF TypeInv, TypeOK
<1>2. \A u \in Thread \ {t} : st'[u] = st[u]
  BY <1>1
<1>3. \A u \in Thread : Pending(u)' <=> Pending(u)
  BY DEF Pending
<1>4. \A u \in Thread \ {t} :
         /\ Sw(u)' <=> Sw(u)
         /\ Tf(u)' <=> Tf(u)
         /\ Rw(u)' <=> Rw(u)
         /\ Dd(u)' <=> Dd(u)
  BY <1>2 DEF Sw, Tf, Rw, Dd
<1>5. QED
  BY <1>1, <1>3, <1>4 DEF Kept

\* The changes that wait for x are made.
LEMMA ChangeMade ==
  ASSUME TypeInv, NEW x \in Thread, NEW f \in SUBSET Flag
  PROVE  /\ ~ Pending(x) => /\ "send_wait" \in Change(f, x) <=> "send_wait" \in f
                            /\ "transfer_failed" \in Change(f, x) <=> "transfer_failed" \in f
                            /\ Change(f, x) \cap IpcMask = f \cap IpcMask
         /\ "dead" \in Change(f, x) <=> "dead" \in f
         /\ ChangeTaken(x)[x].del = {} /\ ChangeTaken(x)[x].add = {}
         /\ \A u \in Thread \ {x} : ChangeTaken(x)[u] = chg[u]
<1>1. chg \in [Thread -> Changes]
  BY DEF TypeInv, TypeOK
<1>2. ASSUME ~ Pending(x)
      PROVE  /\ Change(f, x) \cap IpcMask = f \cap IpcMask
             /\ "send_wait" \in Change(f, x) <=> "send_wait" \in f
             /\ "transfer_failed" \in Change(f, x) <=> "transfer_failed" \in f
  BY <1>1, <1>2 DEF Pending, Change, IpcMask
<1>3. "dead" \in Change(f, x) <=> "dead" \in f
  BY ChangeFlags DEF TypeInv
<1>4. /\ ChangeTaken(x)[x].del = {} /\ ChangeTaken(x)[x].add = {}
      /\ \A u \in Thread \ {x} : ChangeTaken(x)[u] = chg[u]
  BY <1>1 DEF ChangeTaken, NoChange
<1>5. QED
  BY <1>2, <1>3, <1>4

\* What xcpu_state_change() does to the flags of x, or leaves for its CPU.
LEMMA XcpuMade ==
  ASSUME NEW f \in [Thread -> SUBSET Flag], NEW g \in [Thread -> Changes],
         NEW t, NEW x \in Thread, NEW del, NEW add,
         XcpuStateChange(t, x, del, add, f, g)
  PROVE  /\ \A u \in Thread \ {x} : st'[u] = f[u] /\ chg'[u] = g[u]
         /\ Local(t, x) => st'[x] = (f[x] \ del) \cup add /\ chg'[x] = g[x]
         /\ ~ Local(t, x) => /\ st'[x] = f[x]
                             /\ chg'[x].del \cup chg'[x].add =
                                   (g[x].del \cup g[x].add) \cup del \cup add
<1>1. CASE Local(t, x)
  BY <1>1 DEF XcpuStateChange
<1>2. CASE ~ Local(t, x)
  <2>1. /\ st' = f /\ \A u \in Thread \ {x} : chg'[u] = g[u]
        /\ chg'[x] = [del |-> (g[x].del \ add) \cup del, add |-> (g[x].add \ del) \cup add]
    BY <1>2 DEF XcpuStateChange
  <2>2. QED
    BY <1>2, <2>1
<1>3. QED
  BY <1>1, <1>2

-----------------------------------------------------------------------------
\* Each action, seen by those who wait.

SendersInv == \A t \in Thread : SenderInv(t) /\ Once(t)
SendInv == PathInv /\ SendersInv

\* A step of t who is nobody's sender.
LEMMA FreeActs ==
  ASSUME SendInv, NEW t \in Thread, NEW F,
         pc[t] \notin Waiting \cup {"dead"}, chg' = chg,
         st' = st \/ st' = [st EXCEPT ![t] = F],
         F \cap {"transfer_failed", "dead"} \subseteq st[t],
         \A u \in Thread \ {t} : Stays(u),
         drq'[t] = "none", senders' = senders,
         pc'[t] \in {"user", "send"} => ~ Tf(t)'
  PROVE  /\ \A u \in Thread \ {t} : Kept(u)
         /\ SenderInv(t)'
         /\ SameLists /\ \A p \in Thread : Once(p)'
<1>1. TypeInv /\ SenderInv(t) /\ \A p \in Thread : Once(p)
  BY DEF SendInv, SendersInv, PathInv
<1>2. SameLists /\ \A p \in Thread : Once(p)'
  BY <1>1, ListsSame
<1>3. ~ Pending(t) /\ \A p \in Thread : ~ On(p, t)
  BY <1>1, FreeSender
<1>4. /\ \A u \in Thread \ {t} : Kept(u)
      /\ Pending(t)' <=> Pending(t)
      /\ st'[t] = st[t] \/ st'[t] = F
  BY <1>1, OneKept
<1>5. ~ Dd(t)'
  BY <1>1, <1>4 DEF Dd, SenderInv, FailedOK
<1>6. SenderInv(t)'
  BY <1>2, <1>3, <1>4, <1>5, FreeKept DEF SameLists
<1>7. QED
  BY <1>2, <1>4, <1>6

Settled(t) == /\ \A u \in Thread \ {t} : Kept(u)
              /\ SenderInv(t)'
              /\ SameLists /\ \A p \in Thread : Once(p)'

\* SendInv, for one thread.
LEMMA SendInvParts ==
  ASSUME SendInv, NEW t \in Thread
  PROVE  /\ TypeInv /\ TypeOK /\ SenderInv(t) /\ PathOK(t) /\ Once(t)
         /\ drq[t] = "none" \/ pc[t] \in {"drq", "abort"}
  BY DEF SendInv, SendersInv, PathInv, TypeInv, ToOK

\* Steps that touch no list, action by action.
LEMMA DoIpcSettles ==
  ASSUME SendInv, NEW t \in Thread, DoIpc(t)
  PROVE  Settled(t)
<1>1. /\ \A u \in Thread \ {t} : Stays(u)
      /\ \/ UNCHANGED <<st, chg, senders, pc, drq>>
         \/ /\ st' = st \/ st' = [st EXCEPT ![t] = @ \cup {"receive_wait"}]
            /\ UNCHANGED <<chg, senders, drq>>
  BY SendInvParts, DoIpcMoves
<1>2. pc[t] = "user" /\ drq[t] = "none" /\ ~ Tf(t) /\ TypeInv
  BY SendInvParts DEF DoIpc, At, SenderInv, FailedOK
<1>3. PICK F : F = st[t] \cup {"receive_wait"}
  OBVIOUS
<1>4. ~ Tf(t)'
  BY <1>1, <1>2 DEF Tf, TypeInv, TypeOK
<1>5. F \cap {"transfer_failed", "dead"} \subseteq st[t]
  BY <1>3
<1>6. st' = st \/ st' = [st EXCEPT ![t] = F]
  BY <1>1, <1>3
<1>7. QED
  BY <1>1, <1>2, <1>4, <1>5, <1>6, FreeActs DEF Settled, Waiting

LEMMA CopySettles ==
  ASSUME SendInv, NEW t \in Thread, NEW ok \in BOOLEAN, Copy(t, ok)
  PROVE  Settled(t)
<1>1. /\ \A u \in Thread \ {t} : Stays(u)
      /\ pc[t] = "copy" /\ pc'[t] = "pick" /\ drq'[t] = "none"
  BY SendInvParts, CopyMoves DEF Goes
<1>2. PICK F : /\ F = (st[t] \ IpcMask) \cup
                        (IF ok /\ reg[t].from # None THEN {"receive_wait"} ELSE {})
               /\ st' = [st EXCEPT ![t] = F]
  BY DEF Copy
<1>3. F \cap {"transfer_failed", "dead"} \subseteq st[t]
  BY <1>2
<1>4. UNCHANGED <<chg, senders>>
  BY DEF Copy
<1>5. QED
  BY <1>1, <1>2, <1>3, <1>4, FreeActs DEF Settled, Waiting

LEMMA PickSettles ==
  ASSUME SendInv, NEW t \in Thread, Pick(t) \/ Switched(t)
  PROVE  Settled(t)
<1>1. /\ \A u \in Thread \ {t} : Stays(u)
      /\ pc[t] \in {"pick", "switched"} /\ pc'[t] \in {"activate", "receive"}
      /\ drq'[t] = "none"
  BY SendInvParts, PickMoves, SwitchedMoves DEF Goes
<1>2. UNCHANGED <<st, chg, senders>>
  BY DEF Pick, Switched, flags
<1>3. PICK F : F = {}
  OBVIOUS
<1>4. F \cap {"transfer_failed", "dead"} \subseteq st[t]
  BY <1>3
<1>5. QED
  BY <1>1, <1>2, <1>4, FreeActs DEF Settled, Waiting

LEMMA ReceiveSettles ==
  ASSUME SendInv, NEW t \in Thread, Receive(t)
  PROVE  Settled(t) /\ (pc'[t] = "asleep" => (Rw(t)' => Rw(t)))
<1>1. /\ \A u \in Thread \ {t} : Stays(u)
      /\ pc[t] = "receive" /\ pc'[t] \in {"pull", "asleep", "end"} /\ drq'[t] = "none"
  BY SendInvParts, ReceiveMoves DEF Goes
<1>2. PICK F \in {(st[t] \ IpcMask) \cup {"receive_in_progress"}, st[t] \cup {"timeout"},
                  st[t] \ {"ready"}} :
         st' = st \/ st' = [st EXCEPT ![t] = F]
  BY DEF Receive
<1>3. F \cap {"transfer_failed", "dead"} \subseteq st[t]
  BY <1>2
<1>4. UNCHANGED <<chg, senders>>
  BY DEF Receive
<1>5. ASSUME pc'[t] = "asleep" PROVE Rw(t)' => Rw(t)
  <2>1. pc \in [Thread -> Labels] /\ st \in [Thread -> SUBSET Flag]
    BY SendInvParts DEF TypeOK
  <2>2. st' = [st EXCEPT ![t] = IF reg[t].rcv = "zero" THEN @ \cup {"timeout"} ELSE @ \ {"ready"}]
    BY <1>5, <2>1 DEF Receive, Goto
  <2>3. st'[t] = st[t] \cup {"timeout"} \/ st'[t] = st[t] \ {"ready"}
    BY <2>1, <2>2
  <2>4. QED
    BY <2>3 DEF Rw, IpcMask
<1>6. QED
  BY <1>1, <1>2, <1>3, <1>4, <1>5, FreeActs DEF Settled, Waiting

LEMMA PulledSettles ==
  ASSUME SendInv, NEW t \in Thread, Pulled(t) \/ WakeUp(t)
  PROVE  Settled(t)
<1>1. /\ \A u \in Thread \ {t} : Stays(u)
      /\ pc[t] \in {"pulled", "asleep"} /\ pc'[t] = "end" /\ drq'[t] = "none"
  BY SendInvParts, PulledMoves, WakeUpMoves DEF Goes
<1>2. PICK F : F = st[t] \ IpcMask
  OBVIOUS
<1>3. st' = st \/ st' = [st EXCEPT ![t] = F]
  BY <1>2 DEF Pulled, WakeUp, flags
<1>4. F \cap {"transfer_failed", "dead"} \subseteq st[t]
  BY <1>2
<1>5. UNCHANGED <<chg, senders>>
  BY DEF Pulled, WakeUp, flags
<1>6. QED
  BY <1>1, <1>3, <1>4, <1>5, FreeActs DEF Settled, Waiting

LEMMA EndSettles ==
  ASSUME SendInv, NEW t \in Thread, End(t)
  PROVE  Settled(t)
<1>1. /\ \A u \in Thread \ {t} : Stays(u)
      /\ pc[t] \in {"end", "transfer"} /\ pc'[t] \in {"user", "transfer"} /\ drq'[t] = "none"
  BY SendInvParts, EndMoves
<1>2. UNCHANGED <<chg, senders>>
  BY DEF End
<1>3. /\ st \in [Thread -> SUBSET Flag] /\ pc \in [Thread -> Labels]
  BY SendInvParts DEF TypeOK
<1>4. PICK F \in {st[t] \ {"ready"}, st[t] \ FullMask} :
         /\ st' = [st EXCEPT ![t] = F]
         /\ pc'[t] = "user" => F = st[t] \ FullMask
  BY <1>3 DEF End, Goto
<1>5. F \cap {"transfer_failed", "dead"} \subseteq st[t]
  BY <1>4
<1>6. pc'[t] = "user" => ~ Tf(t)'
  BY <1>3, <1>4 DEF Tf, FullMask, Abort
<1>7. QED
  BY <1>1, <1>2, <1>4, <1>5, <1>6, FreeActs DEF Settled, Waiting

LEMMA KillSettles ==
  ASSUME SendInv, NEW t \in Thread, DoKill(t) \/ NoMoreSenders(t)
  PROVE  Settled(t)
<1>1. /\ \A u \in Thread \ {t} : Stays(u)
      /\ pc[t] \in {"user", "kill"} /\ pc'[t] \in {"kill", "dying", "dead"} /\ drq'[t] = "none"
  BY SendInvParts, KillMoves DEF DoKill, NoMoreSenders, At
<1>2. UNCHANGED <<st, chg, senders>>
  BY DEF DoKill, NoMoreSenders, flags
<1>3. PICK F : F = {}
  OBVIOUS
<1>4. F \cap {"transfer_failed", "dead"} \subseteq st[t]
  BY <1>3
<1>5. QED
  BY <1>1, <1>2, <1>4, FreeActs DEF Settled, Waiting

LEMMA DeadSettles ==
  ASSUME SendInv, NEW t \in Thread, Dead(t)
  PROVE  Settled(t)
<1>1. /\ TypeInv /\ TypeOK /\ SenderInv(t) /\ \A p \in Thread : Once(p)
      /\ drq[t] = "none"
  BY SendInvParts DEF Dead, At
<1>2. /\ \A u \in Thread \ {t} : Stays(u)
      /\ pc[t] = "dying" /\ pc'[t] = "dead" /\ drq'[t] = "none"
  BY <1>1, KillMoves DEF Dead, At, Goto, TypeOK
<1>3. st' = [st EXCEPT ![t] = {"dead"}] /\ UNCHANGED <<chg, senders>>
  BY DEF Dead
<1>4. SameLists /\ \A p \in Thread : Once(p)'
  BY <1>1, <1>3, ListsSame
<1>5. ~ Pending(t) /\ \A p \in Thread : ~ On(p, t)
  BY <1>1, <1>2, FreeSender DEF Waiting
<1>6. /\ \A u \in Thread \ {t} : Kept(u)
      /\ Pending(t)' <=> Pending(t)
  BY <1>1, <1>2, <1>3, OneKept
<1>7. SenderInv(t)'
  BY <1>2, <1>4, <1>5, <1>6, FreeKept DEF SameLists
<1>8. QED
  BY <1>4, <1>6, <1>7 DEF Settled

-----------------------------------------------------------------------------
\* Those who wait, and what comes from outside.

LEMMA RemoteHandshakeSettles ==
  ASSUME SendInv, NEW t \in Thread, RemoteHandshakeReceiver(t)
  PROVE  Settled(t)
<1>1. /\ TypeInv /\ TypeOK /\ SenderInv(t) /\ \A p \in Thread : Once(p)
  BY SendInvParts
<1>2. /\ \A u \in Thread \ {t} : Stays(u)
      /\ pc[t] = "send" /\ pc'[t] = "drq" /\ drq'[t] = "send"
  BY <1>1, RemoteHandshakeMoves
<1>3. PICK F : F = (st[t] \cup {"send_wait", "drq_wait"}) \ {"ready"}
  OBVIOUS
<1>4. st' = [st EXCEPT ![t] = F] /\ UNCHANGED <<chg, senders>>
  BY <1>3 DEF RemoteHandshakeReceiver
<1>5. SameLists /\ \A p \in Thread : Once(p)'
  BY <1>1, <1>4, ListsSame
<1>6. ~ Pending(t) /\ \A p \in Thread : ~ On(p, t)
  BY <1>1, <1>2, FreeSender DEF Waiting
<1>7. /\ \A u \in Thread \ {t} : Kept(u)
      /\ Pending(t)' <=> Pending(t)
  BY <1>1, <1>2, <1>4, OneKept
<1>8. Sw(t)' /\ (Tf(t)' <=> Tf(t)) /\ (Dd(t)' <=> Dd(t))
  BY <1>1, <1>3, <1>4 DEF Sw, Tf, Dd, TypeOK
<1>9. ~ Tf(t) /\ ~ Dd(t)
  BY <1>1, <1>2 DEF SenderInv, FailedOK
<1>10. SenderInv(t)'
  BY <1>2, <1>5, <1>6, <1>7, <1>8, <1>9 DEF SenderInv, PendingOK, FailedOK, ListedOK, SameLists
<1>11. QED
  BY <1>5, <1>7, <1>10 DEF Settled

LEMMA RemoteAnswerSettles ==
  ASSUME SendInv, NEW t \in Thread, RemoteAnswer(t)
  PROVE  Settled(t)
<1>1. /\ TypeInv /\ TypeOK /\ SenderInv(t) /\ \A p \in Thread : Once(p)
  BY SendInvParts
<1>2. /\ \A u \in Thread \ {t} : Stays(u)
      /\ pc[t] = "drq" /\ pc'[t] \in {"end", "sendWait", "pick", "copy"}
      /\ drq[t] = "none" /\ drq'[t] = "none"
      /\ reg'[t].to = reg[t].to /\ reg'[t].res = reg[t].res
      /\ pc'[t] = "sendWait" <=> reg[t].res = "queued"
  BY <1>1, RemoteAnswerMoves DEF Goes
<1>3. PICK F : F = st[t] \ IpcMask
  OBVIOUS
<1>4. /\ st' = st \/ st' = [st EXCEPT ![t] = F]
      /\ reg[t].res = "queued" => st' = st
      /\ UNCHANGED <<chg, senders>>
  BY <1>3 DEF RemoteAnswer
<1>5. SameLists /\ \A p \in Thread : Once(p)'
  BY <1>1, <1>4, ListsSame
<1>6. /\ \A u \in Thread \ {t} : Kept(u)
      /\ Pending(t)' <=> Pending(t)
      /\ st'[t] = st[t] \/ st'[t] = F
  BY <1>1, <1>2, <1>4, OneKept
<1>7. (Tf(t)' => Tf(t)) /\ (Dd(t)' => Dd(t))
  BY <1>3, <1>6 DEF Tf, Dd
<1>8. SenderInv(t)'
  <2>1. CASE reg[t].res = "queued"
    <3>1. (Sw(t)' <=> Sw(t)) /\ (Tf(t)' <=> Tf(t)) /\ pc'[t] = "sendWait"
      BY <1>2, <1>4, <2>1 DEF Sw, Tf
    <3>2. PendingOK(t)'
      BY <1>1, <1>2, <1>6, <3>1 DEF SenderInv, PendingOK, Local
    <3>3. FailedOK(t)'
      BY <1>1, <1>2, <1>7, <3>1 DEF SenderInv, FailedOK
    <3>4. ASSUME NEW p \in Thread PROVE ListedOK(p, t)'
      BY <1>1, <1>2, <1>5, <1>6, <3>1 DEF SenderInv, ListedOK, SameLists
    <3>5. QED
      BY <3>2, <3>3, <3>4 DEF SenderInv
  <2>2. CASE reg[t].res # "queued"
    <3>1. ~ Pending(t) /\ \A p \in Thread : ~ On(p, t)
      BY <1>1, <1>2, <2>2 DEF SenderInv, PendingOK, ListedOK
    <3>2. ~ Dd(t)
      BY <1>1, <1>2 DEF SenderInv, FailedOK
    <3>3. QED
      BY <1>2, <1>5, <1>6, <1>7, <3>1, <3>2, FreeKept DEF SameLists
  <2>3. QED
    BY <2>1, <2>2
<1>9. QED
  BY <1>5, <1>6, <1>8 DEF Settled

LEMMA AbortedSettles ==
  ASSUME SendInv, NEW t \in Thread, Aborted(t)
  PROVE  Settled(t)
<1>1. /\ TypeInv /\ TypeOK /\ SenderInv(t) /\ \A p \in Thread : Once(p)
  BY SendInvParts
<1>2. /\ \A u \in Thread \ {t} : Stays(u)
      /\ pc[t] = "abort" /\ pc'[t] \in {"end", "pick"}
      /\ drq[t] = "none" /\ drq'[t] = "none"
  BY <1>1, AbortedMoves DEF Goes
<1>3. UNCHANGED <<st, chg, senders>>
  BY DEF Aborted, flags
<1>4. SameLists /\ \A p \in Thread : Once(p)'
  BY <1>1, <1>3, ListsSame
<1>5. PICK F : F = {}
  OBVIOUS
<1>6. /\ \A u \in Thread \ {t} : Kept(u)
      /\ Pending(t)' <=> Pending(t)
  BY <1>1, <1>2, <1>3, OneKept
<1>7. (Tf(t)' => Tf(t)) /\ (Dd(t)' => Dd(t))
  BY <1>3 DEF Tf, Dd
<1>8. ~ Pending(t) /\ \A p \in Thread : ~ On(p, t)
  BY <1>1, <1>2 DEF SenderInv, PendingOK, ListedOK
<1>9. ~ Dd(t)
  BY <1>1, <1>2 DEF SenderInv, FailedOK
<1>10. SenderInv(t)'
  BY <1>2, <1>4, <1>6, <1>7, <1>8, <1>9, FreeKept DEF SameLists
<1>11. QED
  BY <1>4, <1>6, <1>10 DEF Settled

\* Flags that no sender looks at.
LEMMA OtherFlags ==
  ASSUME TypeInv, NEW t \in Thread, NEW F, chg' = chg,
         st' = st \/ st' = [st EXCEPT ![t] = F],
         F \cap (IpcMask \cup {"transfer_failed", "dead"}) =
            st[t] \cap (IpcMask \cup {"transfer_failed", "dead"}),
         \A u \in Thread : Stays(u)
  PROVE  \A u \in Thread : Kept(u)
<1>1. /\ \A u \in Thread \ {t} : Kept(u)
      /\ Pending(t)' <=> Pending(t)
      /\ st'[t] = st[t] \/ st'[t] = F
  BY OneKept
<1>2. /\ Sw(t)' <=> Sw(t)
      /\ Tf(t)' <=> Tf(t)
      /\ Rw(t)' <=> Rw(t)
      /\ Dd(t)' <=> Dd(t)
  BY <1>1 DEF Sw, Tf, Rw, Dd, IpcMask
<1>3. QED
  BY <1>1, <1>2 DEF Kept

LEMMA KeptSettles ==
  ASSUME SendInv, NEW t \in Thread, \A u \in Thread : Kept(u), senders' = senders
  PROVE  Settled(t)
<1>1. SenderInv(t) /\ PathOK(t) /\ \A p \in Thread : Once(p)
  BY SendInvParts
<1>2. SameLists /\ \A p \in Thread : Once(p)'
  BY <1>1, ListsSame
<1>3. SenderInv(t)'
  BY <1>1, <1>2, KeptSender DEF SameLists
<1>4. QED
  BY <1>2, <1>3 DEF Settled

LEMMA WaitOnSettles ==
  ASSUME SendInv, NEW t \in Thread,
         WaitOn(t) \/ Expired(t) \/ Cancel(t) \/ PrepareKill(t)
  PROVE  Settled(t) /\ Kept(t)
<1>1. TypeInv
  BY SendInvParts
<1>2. UNCHANGED <<chg, pc, drq, partner, reg, senders>>
  BY DEF WaitOn, Expired, Cancel, PrepareKill
<1>3. \A u \in Thread : Stays(u)
  BY <1>2 DEF Stays
<1>4. PICK F \in {st[t] \ {"ready"}, st[t] \cup {"ready", "timeout"}, st[t] \cup {"cancel", "ready"},
                  st[t] \cup {"dying", "cancel", "ready"}} :
         st' = st \/ st' = [st EXCEPT ![t] = F]
  BY DEF WaitOn, Expired, Cancel, PrepareKill
<1>5. F \cap (IpcMask \cup {"transfer_failed", "dead"}) =
            st[t] \cap (IpcMask \cup {"transfer_failed", "dead"})
  BY <1>4 DEF IpcMask
<1>6. QED
  BY <1>1, <1>2, <1>3, <1>4, <1>5, OtherFlags, KeptSettles

LEMMA TakeChangeSettles ==
  ASSUME SendInv, NEW t \in Thread, TakeChange(t)
  PROVE  Settled(t) /\ Kept(t)
<1>1. TypeInv /\ st \in [Thread -> SUBSET Flag] /\ st[t] \in SUBSET Flag
  BY SendInvParts DEF TypeOK
<1>2. /\ st' = [st EXCEPT ![t] = Change(st[t], t)] /\ chg' = ChangeTaken(t)
      /\ UNCHANGED <<pc, drq, partner, reg, senders>>
  BY DEF TakeChange
<1>3. PICK F : F = Change(st[t], t)
  OBVIOUS
<1>4. st'[t] = F /\ \A u \in Thread \ {t} : st'[u] = st[u]
  BY <1>1, <1>2, <1>3
<1>5. /\ ~ Pending(t) => /\ "send_wait" \in F <=> "send_wait" \in st[t]
                         /\ "transfer_failed" \in F <=> "transfer_failed" \in st[t]
                         /\ F \cap IpcMask = st[t] \cap IpcMask
      /\ "dead" \in F <=> "dead" \in st[t]
      /\ chg'[t].del = {} /\ chg'[t].add = {}
      /\ \A u \in Thread \ {t} : chg'[u] = chg[u]
  BY <1>1, <1>2, <1>3, ChangeMade
<1>6. ASSUME NEW u \in Thread PROVE Kept(u)
  <2>1. Stays(u)
    BY <1>2 DEF Stays
  <2>2. CASE u = t
    BY <1>4, <1>5, <2>1, <2>2 DEF Kept, Pending, Sw, Tf, Rw, Dd
  <2>3. CASE u # t
    BY <1>4, <1>5, <2>1, <2>3 DEF Kept, Pending, Sw, Tf, Rw, Dd
  <2>4. QED
    BY <2>2, <2>3
<1>7. QED
  BY <1>2, <1>6, KeptSettles

\* The answer comes with the changes that were made before it.
LEMMA TakeReplySettles ==
  ASSUME SendInv, NEW t \in Thread, TakeReply(t)
  PROVE  Settled(t)
<1>1. /\ TypeInv /\ TypeOK /\ SenderInv(t) /\ PathOK(t) /\ \A p \in Thread : Once(p)
      /\ drq[t] = "reply" /\ pc[t] \in {"drq", "abort"}
      /\ st \in [Thread -> SUBSET Flag] /\ st[t] \in SUBSET Flag
      /\ drq \in [Thread -> {"none", "send", "abort", "reply"}]
  BY SendInvParts DEF TypeOK, TakeReply
<1>2. /\ st' = [st EXCEPT ![t] = Change((st[t] \ {"drq_wait"}) \cup {"ready"}, t)]
      /\ chg' = ChangeTaken(t) /\ drq' = [drq EXCEPT ![t] = "none"]
      /\ UNCHANGED <<pc, partner, reg, senders>>
  BY DEF TakeReply
<1>3. PICK f : f = (st[t] \ {"drq_wait"}) \cup {"ready"}
  OBVIOUS
<1>4. PICK F : F = Change(f, t)
  OBVIOUS
<1>5. st'[t] = F /\ \A u \in Thread \ {t} : st'[u] = st[u]
  BY <1>1, <1>2, <1>3, <1>4
<1>6. f \in SUBSET Flag
  BY <1>1, <1>3 DEF Flag
<1>7. /\ ~ Pending(t) => /\ "send_wait" \in F <=> "send_wait" \in f
                         /\ "transfer_failed" \in F <=> "transfer_failed" \in f
      /\ "dead" \in F <=> "dead" \in f
      /\ chg'[t].del = {} /\ chg'[t].add = {}
      /\ \A u \in Thread \ {t} : chg'[u] = chg[u]
  BY <1>1, <1>2, <1>4, <1>6, ChangeMade
<1>8. ASSUME NEW u \in Thread \ {t} PROVE Kept(u)
  <2>1. Stays(u)
    BY <1>1, <1>2 DEF Stays
  <2>2. QED
    BY <1>5, <1>7, <2>1 DEF Kept, Pending, Sw, Tf, Rw, Dd
<1>9. SameLists /\ \A p \in Thread : Once(p)'
  BY <1>1, <1>2, ListsSame
<1>10. /\ ~ Pending(t) => (Sw(t)' <=> Sw(t)) /\ (Tf(t)' <=> Tf(t))
       /\ Dd(t)' <=> Dd(t)
       /\ ~ Pending(t)'
  BY <1>3, <1>5, <1>7 DEF Pending, Sw, Tf, Dd
<1>11. SenderInv(t)'
  <2>1. PendingOK(t)'
    BY <1>10 DEF PendingOK
  <2>2. FailedOK(t)'
    BY <1>1, <1>2, <1>10 DEF SenderInv, FailedOK
  <2>3. ASSUME NEW p \in Thread PROVE ListedOK(p, t)'
    <3>1. SUFFICES ASSUME On(p, t)'
                   PROVE  ListedOK(p, t)'
      BY DEF ListedOK
    <3>2. On(p, t)
      BY <1>9, <3>1 DEF SameLists
    <3>3. /\ reg[t].to = p /\ ~ Pending(t) /\ ~ Tf(t)
          /\ pc[t] = "drq" /\ reg[t].res = "queued" /\ Sw(t)
      BY <1>1, <3>2 DEF SenderInv, ListedOK
    <3>4. QED
      BY <1>1, <1>2, <1>10, <3>3 DEF ListedOK
  <2>4. QED
    BY <2>1, <2>2, <2>3 DEF SenderInv
<1>12. QED
  BY <1>8, <1>9, <1>11 DEF Settled

-----------------------------------------------------------------------------
\* The steps that move a sender into a list, or out of it.

\* Who is enqueued could not hand over its message.
LEMMA CheckedSender ==
  ASSUME NEW p, NEW t, NEW f
  PROVE  /\ CheckSender(p, t, f) \in {"open", "closed"} => f \cap IpcMask = {"receive_wait"}
         /\ CheckSender(p, t, f) = "queued" => /\ f \cap IpcMask = {"receive_wait"} =>
                                                    ~ (partner[p] = Anyone /\ senders[p] = <<>>)
                                               /\ f \cap IpcMask = {"receive_wait"} => partner[p] # t
  BY DEF CheckSender, SenderOk

\* Who gives up on its own CPU leaves the list at once.
LEMMA SendWaitedSettles ==
  ASSUME SendInv, NEW t \in Thread, SendWaited(t)
  PROVE  /\ \A u \in Thread \ {t} : Kept(u)
         /\ SenderInv(t)'
         /\ \/ SameLists
            \/ Leaves(t) /\ Local(t, reg[t].to) /\ At(t, "sendWait") /\ pc[t] = "sendWait"
         /\ \A p \in Thread : Once(p)'
<1>1. /\ TypeInv /\ TypeOK /\ SenderInv(t) /\ PathOK(t) /\ \A p \in Thread : Once(p)
  BY SendInvParts
<1>2. /\ \A u \in Thread \ {t} : Stays(u)
      /\ pc[t] = "sendWait" /\ pc'[t] \in {"end", "pick", "abort"} /\ At(t, "sendWait")
      /\ drq[t] = "none" /\ drq'[t] = IF pc'[t] = "abort" THEN "abort" ELSE "none"
      /\ reg'[t].to = reg[t].to
  BY <1>1, SendWaitedMoves
<1>3. /\ st \in [Thread -> SUBSET Flag] /\ pc \in [Thread -> Labels] /\ reg \in [Thread -> Locals]
      /\ chg' = chg
  BY <1>1 DEF SendWaited, TypeOK
<1>4. \/ ~ Sw(t) /\ UNCHANGED <<st, senders>> /\ pc'[t] = "pick"
      \/ /\ Sw(t) /\ Tf(t) /\ st' = [st EXCEPT ![t] = @ \ FullMask] /\ pc'[t] = "end"
         /\ senders' = senders
      \/ /\ ~ Tf(t) /\ Local(t, reg[t].to) /\ st' = [st EXCEPT ![t] = @ \ FullMask]
         /\ senders' = Unlisted(t) /\ pc'[t] = "end"
      \/ /\ ~ Tf(t) /\ ~ Local(t, reg[t].to) /\ pc'[t] = "abort"
         /\ st' = [st EXCEPT ![t] = (@ \ (FullMask \cup {"ready"})) \cup {"drq_wait"}]
         /\ senders' = senders
  BY <1>3, SendFailsEffect DEF SendWaited, Sw, Tf, Goto
<1>5. PICK F \in {st[t] \ FullMask, (st[t] \ (FullMask \cup {"ready"})) \cup {"drq_wait"}} :
         st' = st \/ st' = [st EXCEPT ![t] = F]
  BY <1>4
<1>6. /\ \A u \in Thread \ {t} : Kept(u)
      /\ Pending(t)' <=> Pending(t)
      /\ st'[t] = st[t] \/ st'[t] = F
  BY <1>1, <1>2, <1>3, <1>5, OneKept
<1>7. /\ Tf(t)' => Tf(t) /\ st' = st
      /\ Dd(t)' => Dd(t)
  BY <1>5, <1>3 DEF Tf, Dd, FullMask, Abort
<1>8. ~ Dd(t)
  BY <1>1, <1>2 DEF SenderInv, FailedOK
<1>9. CASE senders' = Unlisted(t) /\ Local(t, reg[t].to) /\ pc'[t] = "end"
  <2>1. Leaves(t) /\ \A p \in Thread : Once(p)'
    BY <1>1, <1>9, ListsLeft
  <2>2. ~ Pending(t)
    BY <1>1, <1>9 DEF SenderInv, PendingOK
  <2>3. SenderInv(t)'
    BY <1>2, <1>6, <1>7, <1>8, <1>9, <2>1, <2>2, FreeKept DEF Leaves
  <2>4. QED
    BY <1>2, <1>6, <1>9, <2>1, <2>3
<1>10. CASE senders' = senders
  <2>1. SameLists /\ \A p \in Thread : Once(p)'
    BY <1>1, <1>10, ListsSame
  <2>2. CASE pc'[t] # "abort"
    <3>1. ~ Sw(t) \/ Tf(t) \/ (Local(t, reg[t].to) /\ senders' = Unlisted(t))
      BY <1>4, <2>2
    <3>2. CASE ~ Sw(t) \/ Tf(t)
      <4>1. ~ Pending(t) /\ \A p \in Thread : ~ On(p, t)
        BY <1>1, <1>2, <3>2 DEF SenderInv, PendingOK, ListedOK
      <4>2. SenderInv(t)'
        BY <1>2, <1>6, <1>7, <1>8, <2>1, <2>2, <4>1, FreeKept DEF SameLists
      <4>3. QED
        BY <1>6, <2>1, <4>2
    <3>3. CASE Local(t, reg[t].to) /\ senders' = Unlisted(t)
      BY <1>2, <1>9, <1>4, <3>2, <3>3, <2>2
    <3>4. QED
      BY <3>1, <3>2, <3>3
  <2>3. CASE pc'[t] = "abort"
    <3>1. ~ Tf(t)' /\ ~ Local(t, reg[t].to) /\ drq'[t] = "abort"
      BY <1>2, <1>4, <1>7, <2>3
    <3>2. PendingOK(t)'
      BY <1>2, <2>3, <3>1 DEF PendingOK, Local
    <3>3. FailedOK(t)'
      BY <1>2, <1>7, <1>8, <2>3, <3>1 DEF FailedOK
    <3>4. ASSUME NEW p \in Thread PROVE ListedOK(p, t)'
      BY <1>1, <1>2, <1>6, <2>1, <2>3, <3>1 DEF SenderInv, ListedOK, SameLists
    <3>5. SenderInv(t)'
      BY <3>2, <3>3, <3>4 DEF SenderInv
    <3>6. QED
      BY <1>6, <2>1, <3>5
  <2>4. QED
    BY <2>2, <2>3
<1>11. QED
  BY <1>4, <1>9, <1>10

\* The handshake on one CPU hands over, fails or enqueues.
LEMMA HandshakeSettles ==
  ASSUME SendInv, NEW t \in Thread, HandshakeReceiver(t)
  PROVE  /\ \A u \in Thread \ {t} : Kept(u)
         /\ SenderInv(t)'
         /\ \/ SameLists
            \/ /\ Joins(reg[t].to, t) /\ reg[t].to \in Thread
               /\ Rw(reg[t].to) => /\ ~ (partner[reg[t].to] = Anyone /\ senders[reg[t].to] = <<>>)
                                   /\ partner[reg[t].to] # t
         /\ \A p \in Thread : Once(p)'
<1>1. /\ TypeInv /\ TypeOK /\ SenderInv(t) /\ PathOK(t) /\ \A p \in Thread : Once(p)
      /\ st \in [Thread -> SUBSET Flag] /\ pc \in [Thread -> Labels]
  BY SendInvParts DEF TypeOK
<1>2. /\ \A u \in Thread \ {t} : Stays(u)
      /\ pc[t] = "send" /\ pc'[t] \in {"end", "sendWait", "copy"}
      /\ drq'[t] = "none" /\ reg'[t].to = reg[t].to
  BY <1>1, HandshakeMoves DEF Goes
<1>3. /\ reg[t].to \in Thread
      /\ HandshakeCase(t, reg[t].to, CheckSender(reg[t].to, t, st[reg[t].to]))
      /\ chg' = chg
  BY <1>1, HandshakeCases
<1>4. PICK p \in Thread : p = reg[t].to
  BY <1>3
<1>5. PICK r : r = CheckSender(p, t, st[p])
  OBVIOUS
<1>6. /\ ~ Pending(t) /\ (\A q \in Thread : ~ On(q, t)) /\ ~ Tf(t) /\ ~ Dd(t)
  BY <1>1, <1>2, FreeSender DEF Waiting, SenderInv, FailedOK
<1>7. CASE /\ r = "failed" /\ st' = [st EXCEPT ![t] = @ \ IpcMask] /\ senders' = senders
  <2>1. PICK F : F = st[t] \ IpcMask
    OBVIOUS
  <2>2. F \cap {"transfer_failed", "dead"} \subseteq st[t] /\ st' = [st EXCEPT ![t] = F]
    BY <1>7, <2>1
  <2>3. QED
    BY <1>2, <1>3, <1>7, <2>2, FreeActs DEF Waiting
<1>8. CASE /\ r = "queued" /\ pc'[t] = "sendWait"
           /\ senders' = [senders EXCEPT ![p] = Append(@, t)]
           /\ \E b \in SUBSET {"ready"} : st' = [st EXCEPT ![t] = (st[t] \cup {"send_wait"}) \ b]
  <2>1. PICK b \in SUBSET {"ready"} : st' = [st EXCEPT ![t] = (st[t] \cup {"send_wait"}) \ b]
    BY <1>8
  <2>2. PICK F : F = (st[t] \cup {"send_wait"}) \ b
    OBVIOUS
  <2>3. /\ \A u \in Thread \ {t} : Kept(u)
        /\ Pending(t)' <=> Pending(t)
    BY <1>1, <1>2, <1>3, <2>1, <2>2, OneKept
  <2>4. Sw(t)' /\ (Tf(t)' <=> Tf(t)) /\ (Dd(t)' <=> Dd(t))
    BY <1>1, <2>1 DEF Sw, Tf, Dd
  <2>5. Joins(p, t) /\ \A q \in Thread : Once(q)'
    BY <1>1, <1>6, <1>8, ListsJoined
  <2>6. /\ PendingOK(t)' /\ FailedOK(t)'
    BY <1>2, <1>6, <1>8, <2>3, <2>4 DEF PendingOK, FailedOK
  <2>7. ASSUME NEW q \in Thread PROVE ListedOK(q, t)'
    BY <1>2, <1>4, <1>6, <1>8, <2>3, <2>4, <2>5 DEF ListedOK, Joins
  <2>8. Rw(p) => ~ (partner[p] = Anyone /\ senders[p] = <<>>) /\ partner[p] # t
    <3>1. CheckSender(p, t, st[p]) = "queued"
      BY <1>5, <1>8
    <3>2. QED
      BY <3>1 DEF Rw, CheckSender, SenderOk
  <2>9. QED
    BY <1>4, <2>3, <2>5, <2>6, <2>7, <2>8 DEF SenderInv
<1>9. CASE /\ r \in {"open", "closed"} /\ pc'[t] = "copy" /\ senders' = senders
           /\ st' = [st EXCEPT ![p] = (st[p] \ (IpcMask \cup {"ready"})) \cup {"transfer"}]
  <2>1. SameLists /\ \A q \in Thread : Once(q)'
    BY <1>1, <1>9, ListsSame
  <2>2. st[p] \cap IpcMask = {"receive_wait"}
    BY <1>5, <1>9, CheckedSender
  <2>3. /\ \A u \in Thread \ {p} : st'[u] = st[u]
        /\ st'[p] = (st[p] \ (IpcMask \cup {"ready"})) \cup {"transfer"}
    BY <1>1, <1>9
  <2>4. \A u \in Thread : /\ Pending(u)' <=> Pending(u)
                          /\ Sw(u)' <=> Sw(u)
                          /\ Tf(u)' <=> Tf(u)
                          /\ Rw(u)' => Rw(u)
                          /\ Dd(u)' <=> Dd(u)
    <3>1. \A u \in Thread \ {p} : /\ Sw(u)' <=> Sw(u)
                                  /\ Tf(u)' <=> Tf(u)
                                  /\ Rw(u)' <=> Rw(u)
                                  /\ Dd(u)' <=> Dd(u)
      BY <2>3 DEF Sw, Tf, Rw, Dd
    <3>2. /\ Sw(p)' <=> Sw(p)
          /\ Tf(p)' <=> Tf(p)
          /\ Rw(p)' => Rw(p)
          /\ Dd(p)' <=> Dd(p)
      BY <2>2, <2>3 DEF Sw, Tf, Rw, Dd, IpcMask
    <3>3. \A u \in Thread : Pending(u)' <=> Pending(u)
      BY <1>3 DEF Pending
    <3>4. QED
      BY <3>1, <3>2, <3>3
  <2>5. \A u \in Thread \ {t} : Kept(u)
    BY <1>2, <2>4 DEF Kept
  <2>6. SenderInv(t)'
    BY <1>2, <1>6, <1>9, <2>1, <2>4, FreeKept DEF SameLists
  <2>7. QED
    BY <2>1, <2>5, <2>6
<1>10. \/ /\ r = "failed" /\ st' = [st EXCEPT ![t] = @ \ IpcMask] /\ senders' = senders
       \/ /\ r = "queued" /\ pc'[t] = "sendWait"
          /\ senders' = [senders EXCEPT ![p] = Append(@, t)]
          /\ \E b \in SUBSET {"ready"} : st' = [st EXCEPT ![t] = (st[t] \cup {"send_wait"}) \ b]
       \/ /\ r \in {"open", "closed"} /\ pc'[t] = "copy" /\ senders' = senders
          /\ st' = [st EXCEPT ![p] = (st[p] \ (IpcMask \cup {"ready"})) \cup {"transfer"}]
  BY <1>1, <1>3, <1>4, <1>5 DEF HandshakeCase
<1>11. QED
  BY <1>7, <1>8, <1>9, <1>10

LEMMA ActivateSettles ==
  ASSUME SendInv, NEW t \in Thread, Activate(t)
  PROVE  Settled(t) /\ (Rw(t)' => Rw(t))
<1>1. /\ TypeInv /\ TypeOK /\ SenderInv(t) /\ PathOK(t) /\ (\A p \in Thread : Once(p))
      /\ st \in [Thread -> SUBSET Flag] /\ chg \in [Thread -> Changes]
  BY SendInvParts DEF TypeOK
<1>2. /\ \A u \in Thread \ {t} : Stays(u)
      /\ pc[t] = "activate" /\ pc'[t] \in {"receive", "switched"} /\ drq'[t] = "none"
  BY <1>1, ActivateMoves DEF Goes
<1>3. PICK p \in Thread : p = reg[t].to
  BY <1>1, <1>2, ToType
<1>4. XcpuStateChange(t, p, {"transfer"}, {"ready"}, st, chg) /\ senders' = senders
  BY <1>3 DEF Activate
<1>5. /\ \A u \in Thread \ {p} : st'[u] = st[u] /\ chg'[u] = chg[u]
      /\ Local(t, p) => st'[p] = (st[p] \ {"transfer"}) \cup {"ready"} /\ chg'[p] = chg[p]
      /\ ~ Local(t, p) => /\ st'[p] = st[p]
                          /\ chg'[p].del \cup chg'[p].add =
                                (chg[p].del \cup chg[p].add) \cup {"transfer"} \cup {"ready"}
  BY <1>1, <1>4, XcpuMade
<1>6. /\ (Pending(p)' <=> Pending(p)) /\ (Sw(p)' <=> Sw(p)) /\ (Tf(p)' <=> Tf(p))
      /\ (Rw(p)' <=> Rw(p)) /\ (Dd(p)' <=> Dd(p))
  <2>1. CASE Local(t, p)
    BY <1>5, <2>1 DEF Pending, Sw, Tf, Rw, Dd, IpcMask
  <2>2. CASE ~ Local(t, p)
    BY <1>5, <2>2 DEF Pending, Sw, Tf, Rw, Dd, IpcMask
  <2>3. QED
    BY <2>1, <2>2
<1>7. ASSUME NEW u \in Thread
      PROVE  /\ (Pending(u)' <=> Pending(u)) /\ (Sw(u)' <=> Sw(u)) /\ (Tf(u)' <=> Tf(u))
             /\ (Rw(u)' <=> Rw(u)) /\ (Dd(u)' <=> Dd(u))
  <2>1. CASE u # p
    BY <1>5, <2>1 DEF Pending, Sw, Tf, Rw, Dd
  <2>2. QED
    BY <1>6, <2>1
<1>8. SameLists /\ \A q \in Thread : Once(q)'
  BY <1>1, <1>4, ListsSame
<1>9. ~ Pending(t) /\ (\A q \in Thread : ~ On(q, t)) /\ ~ Dd(t)
  BY <1>1, <1>2, FreeSender DEF Waiting, SenderInv, FailedOK
<1>10. SenderInv(t)'
  BY <1>2, <1>7, <1>8, <1>9, FreeKept DEF SameLists
<1>11. \A u \in Thread \ {t} : Kept(u)
  BY <1>2, <1>7 DEF Kept
<1>12. QED
  BY <1>7, <1>8, <1>10, <1>11 DEF Settled

\* The message of a listed sender n is taken by t, or refused.
Answered(t, n) == /\ n \in Thread \ {t} /\ On(t, n) /\ Leaves(n) /\ \A p \in Thread : Once(p)'
                  /\ pc[n] \in Waiting /\ Stays(n)
                  /\ \A u \in Thread \ {t, n} : Kept(u)
                  /\ SenderInv(t)' /\ SenderInv(n)'

\* A listed sender is answered: it leaves the list, and has been told or will be.
LEMMA AnswerSettles ==
  ASSUME SendInv, NEW t \in Thread, NEW n \in Thread, On(t, n),
         NEW f \in [Thread -> SUBSET Flag], f = st \/ f = [st EXCEPT ![t] = @ \ IpcMask],
         NEW del, NEW add, "dead" \notin add,
         XcpuStateChange(t, n, del, add, f, chg), senders' = Unlisted(n),
         \A u \in Thread \ {t} : Stays(u),
         pc[t] \in {"pull", "kill"}, pc'[t] \in {"end", "pulled", "kill"}, drq'[t] = "none"
  PROVE  Answered(t, n)
<1>1. /\ TypeInv /\ TypeOK /\ SenderInv(t) /\ SenderInv(n) /\ PathOK(n)
      /\ (\A p \in Thread : Once(p))
      /\ st \in [Thread -> SUBSET Flag] /\ chg \in [Thread -> Changes]
  BY SendInvParts DEF TypeOK
<1>2. /\ reg[n].to = t /\ ~ Pending(n) /\ ~ Tf(n)
      /\ \/ pc[n] = "drq" /\ drq[n] # "send" /\ reg[n].res = "queued" /\ Sw(n)
         \/ pc[n] = "sendWait" /\ Sw(n)
         \/ pc[n] = "abort" /\ drq[n] = "abort"
  BY <1>1 DEF SenderInv, ListedOK
<1>3. n # t /\ Stays(n)
  BY <1>2
<1>4. Leaves(n) /\ \A p \in Thread : Once(p)'
  BY <1>1, ListsLeft
<1>5. /\ \A u \in Thread \ {n} : st'[u] = f[u] /\ chg'[u] = chg[u]
      /\ Local(t, n) => st'[n] = (f[n] \ del) \cup add /\ chg'[n] = chg[n]
      /\ ~ Local(t, n) => st'[n] = f[n]
  BY <1>1, XcpuMade
<1>6. /\ \A u \in Thread \ {t} : f[u] = st[u]
      /\ f[t] = st[t] \/ f[t] = st[t] \ IpcMask
  BY <1>1
<1>7. ASSUME NEW u \in Thread \ {t, n} PROVE Kept(u)
  BY <1>5, <1>6 DEF Kept, Pending, Sw, Tf, Rw, Dd
<1>8. SenderInv(t)'
  <2>1. ~ Pending(t) /\ (\A p \in Thread : ~ On(p, t)) /\ ~ Dd(t)
    BY <1>1, FreeSender DEF Waiting, SenderInv, FailedOK
  <2>2. ~ Pending(t)' /\ ~ Dd(t)'
    BY <1>3, <1>5, <1>6, <2>1 DEF Pending, Dd
  <2>3. QED
    BY <1>4, <2>1, <2>2, FreeKept DEF Leaves
<1>9. SenderInv(n)'
  <2>1. \A p \in Thread : ~ On(p, n)'
    BY <1>4 DEF Leaves
  <2>2. ~ Dd(n)'
    <3>1. ~ Dd(n)
      BY <1>1, <1>2 DEF SenderInv, FailedOK
    <3>2. QED
      BY <1>3, <1>5, <1>6, <3>1 DEF Dd
  <2>3. drq[n] # "send"
    BY <1>1, <1>2 DEF PathOK
  <2>4. PendingOK(n)'
    <3>1. CASE Local(t, n)
      <4>1. ~ Pending(n)'
        BY <1>2, <1>5, <3>1 DEF Pending
      <4>2. QED
        BY <4>1 DEF PendingOK
    <3>2. CASE ~ Local(t, n)
      <4>1. (Sw(n)' <=> Sw(n)) /\ (Tf(n)' <=> Tf(n))
        BY <1>3, <1>5, <1>6, <3>2 DEF Sw, Tf
      <4>2. drq[n] \in {"none", "reply", "abort"}
        BY <1>1, <2>3 DEF TypeOK
      <4>3. QED
        BY <1>1, <1>2, <1>3, <3>2, <4>1, <4>2 DEF PendingOK, Stays, Local, PathOK
    <3>3. QED
      BY <3>1, <3>2
  <2>5. FailedOK(n)'
    BY <1>2, <1>3, <2>2, <2>3 DEF FailedOK, Stays
  <2>6. QED
    BY <2>1, <2>4, <2>5 DEF SenderInv, ListedOK
<1>10. pc[n] \in Waiting
  BY <1>2 DEF Waiting
<1>11. QED
  BY <1>3, <1>4, <1>7, <1>8, <1>9, <1>10 DEF Answered

LEMMA PullSettles ==
  ASSUME SendInv, NEW t \in Thread, NEW ok \in BOOLEAN, Pull(t, ok), On(t, reg[t].next)
  PROVE  Answered(t, reg[t].next)
<1>1. TypeInv /\ TypeOK
  BY SendInvParts
<1>2. /\ \A u \in Thread \ {t} : Stays(u)
      /\ pc[t] = "pull" /\ pc'[t] \in {"end", "pulled"} /\ drq'[t] = "none"
  BY <1>1, PullMoves DEF Goes
<1>3. PICK n \in Thread : n = reg[t].next
  BY <1>1, <1>2, ToType
<1>4. PICK f : /\ f = st \/ f = [st EXCEPT ![t] = @ \ IpcMask]
               /\ IF ok
                  THEN XcpuStateChange(t, n, IpcMask \cup {"transfer"}, SentFlags(n), f, chg)
                  ELSE XcpuStateChange(t, n, {}, {"transfer_failed", "ready"}, f, chg)
  BY <1>3 DEF Pull
<1>5. f \in [Thread -> SUBSET Flag]
  <2>1. st \in [Thread -> SUBSET Flag] /\ st[t] \ IpcMask \in SUBSET Flag
    BY <1>1 DEF TypeOK
  <2>2. QED
    BY <1>4, <2>1
<1>6. senders' = Unlisted(n) /\ On(t, n)
  BY <1>3 DEF Pull
<1>7. "dead" \notin SentFlags(n) /\ "dead" \notin {"transfer_failed", "ready"}
  BY DEF SentFlags
<1>8. Answered(t, n)
  BY <1>2, <1>4, <1>5, <1>6, <1>7, AnswerSettles
<1>9. QED
  BY <1>3, <1>8

LEMMA AbortSenderSettles ==
  ASSUME SendInv, NEW t \in Thread, AbortSender(t)
  PROVE  Answered(t, Head(senders[t]))
<1>1. TypeInv /\ TypeOK
  BY SendInvParts
<1>2. /\ \A u \in Thread \ {t} : Stays(u)
      /\ pc[t] = "kill" /\ pc'[t] = "kill" /\ drq'[t] = "none"
  BY <1>1, KillMoves DEF AbortSender, At
<1>3. PICK n \in Thread : n = Head(senders[t]) /\ On(t, n)
  BY <1>1, ListEmpty DEF AbortSender
<1>4. /\ XcpuStateChange(t, n, {}, {"transfer_failed", "ready"}, st, chg)
      /\ senders' = Unlisted(n)
  BY <1>3 DEF AbortSender
<1>5. PICK f : f = st
  OBVIOUS
<1>6. f \in [Thread -> SUBSET Flag] /\ XcpuStateChange(t, n, {}, {"transfer_failed", "ready"}, f, chg)
  BY <1>1, <1>4, <1>5 DEF TypeOK
<1>7. Answered(t, n)
  BY <1>2, <1>3, <1>4, <1>5, <1>6, AnswerSettles
<1>8. QED
  BY <1>3, <1>7

\* r: what the CPU of p found; f: the flags with the changes of p made.
LEMMA RemoteIpcSendSettles ==
  ASSUME SendInv, NEW t \in Thread, RemoteIpcSend(t)
  PROVE  /\ \A u \in Thread \ {t} : Kept(u)
         /\ SenderInv(t)'
         /\ \/ SameLists
            \/ /\ Joins(reg[t].to, t) /\ reg[t].to \in Thread /\ reg[t].to # t
               /\ ~ Pending(reg[t].to) /\ Rw(reg[t].to) =>
                     /\ ~ (partner[reg[t].to] = Anyone /\ senders[reg[t].to] = <<>>)
                     /\ partner[reg[t].to] # t
         /\ \A q \in Thread : Once(q)'
<1>1. /\ TypeInv /\ TypeOK /\ SenderInv(t) /\ PathOK(t) /\ (\A p \in Thread : Once(p))
      /\ st \in [Thread -> SUBSET Flag] /\ chg \in [Thread -> Changes]
      /\ drq \in [Thread -> {"none", "send", "abort", "reply"}]
  BY SendInvParts DEF TypeOK
<1>2. /\ \A u \in Thread \ {t} : Stays(u)
      /\ pc' = pc /\ reg'[t].to = reg[t].to
  BY <1>1, OutsideMoves DEF Outside
<1>3. /\ drq[t] = "send" /\ drq'[t] = "reply" /\ pc[t] = "drq" /\ ~ Local(t, reg[t].to)
      /\ Sw(t)
  BY <1>1 DEF RemoteIpcSend, PathOK, SenderInv, FailedOK
<1>4. PICK p \in Thread : p = reg[t].to /\ p # t
  BY <1>1, <1>3, ToType DEF Local
<1>5. PICK f, F : /\ F = Change(st[p], p)
                  /\ f = [st EXCEPT ![p] = F]
  OBVIOUS
<1>6. PICK g : g = ChangeTaken(p)
  OBVIOUS
<1>7. st[p] \in SUBSET Flag
  BY <1>1
<1>8. /\ ~ Pending(p) => /\ "send_wait" \in F <=> "send_wait" \in st[p]
                         /\ "transfer_failed" \in F <=> "transfer_failed" \in st[p]
                         /\ F \cap IpcMask = st[p] \cap IpcMask
      /\ "dead" \in F <=> "dead" \in st[p]
      /\ g[p].del = {} /\ g[p].add = {}
      /\ \A u \in Thread \ {p} : g[u] = chg[u]
      /\ F \in SUBSET Flag /\ g \in [Thread -> Changes]
  BY <1>1, <1>5, <1>6, <1>7, ChangeMade, ChangeType
<1>9. f[p] = F /\ (\A u \in Thread \ {p} : f[u] = st[u]) /\ f \in [Thread -> SUBSET Flag]
  BY <1>1, <1>5, <1>8
<1>10. PICK r : r = CheckSender(p, t, f[p])
  OBVIOUS
<1>11. ~ Pending(t) /\ ~ Tf(t) /\ ~ Dd(t) /\ \A q \in Thread : ~ On(q, t)
  BY <1>1, <1>3 DEF SenderInv, PendingOK, FailedOK, ListedOK
\* The three ways the flags of p may end.
<1>12. ASSUME NEW h, h \in {F, (F \ IpcMask) \cup {"ready"},
                            (F \ (IpcMask \cup {"ready"})) \cup {"transfer"}},
              h # F => F \cap IpcMask = {"receive_wait"},
              st'[p] = h, \A u \in Thread \ {p} : st'[u] = st[u],
              chg'[p] = g[p], \A u \in Thread \ {p, t} : chg'[u] = chg[u]
       PROVE  /\ \A u \in Thread \ {t} : Kept(u)
              /\ (Sw(t)' <=> Sw(t)) /\ (Tf(t)' <=> Tf(t)) /\ (Dd(t)' <=> Dd(t))
  <2>1. /\ ~ Pending(p)'
        /\ ~ Pending(p) => (Sw(p)' <=> Sw(p)) /\ (Tf(p)' <=> Tf(p)) /\ (Rw(p)' => Rw(p))
        /\ Dd(p)' => Dd(p)
    <3>1. ~ Pending(p)'
      BY <1>8, <1>12 DEF Pending
    <3>2. Dd(p)' => Dd(p)
      BY <1>8, <1>12 DEF Dd
    <3>3. ASSUME ~ Pending(p)
          PROVE  (Sw(p)' <=> Sw(p)) /\ (Tf(p)' <=> Tf(p)) /\ (Rw(p)' => Rw(p))
      <4>1. CASE h = F
        BY <1>8, <1>12, <3>3, <4>1 DEF Sw, Tf, Rw
      <4>2. CASE h # F
        <5>1. F \cap IpcMask = {"receive_wait"} /\ st[p] \cap IpcMask = {"receive_wait"}
          BY <1>8, <1>12, <3>3, <4>2
        <5>2. "send_wait" \notin F /\ "send_wait" \notin st[p] /\ "send_wait" \notin h
          BY <1>12, <4>2, <5>1 DEF IpcMask
        <5>3. "transfer_failed" \in h <=> "transfer_failed" \in F
          BY <1>12, <4>2 DEF IpcMask
        <5>4. QED
          BY <1>8, <1>12, <3>3, <5>1, <5>2, <5>3 DEF Sw, Tf, Rw
      <4>3. QED
        BY <4>1, <4>2
    <3>4. QED
      BY <3>1, <3>2, <3>3
  <2>2. ASSUME NEW u \in Thread \ {t} PROVE Kept(u)
    <3>1. CASE u = p
      BY <1>2, <2>1, <3>1 DEF Kept
    <3>2. CASE u # p
      BY <1>2, <1>12, <3>2 DEF Kept, Pending, Sw, Tf, Rw, Dd
    <3>3. QED
      BY <3>1, <3>2
  <2>3. (Sw(t)' <=> Sw(t)) /\ (Tf(t)' <=> Tf(t)) /\ (Dd(t)' <=> Dd(t))
    BY <1>4, <1>12 DEF Sw, Tf, Dd
  <2>4. QED
    BY <2>2, <2>3
<1>13. CASE r = "queued" /\ senders' = [senders EXCEPT ![p] = Append(@, t)] /\ st' = f
            /\ chg' = g /\ reg'[t].res = "queued"
  <2>1. /\ \A u \in Thread \ {t} : Kept(u)
        /\ (Sw(t)' <=> Sw(t)) /\ (Tf(t)' <=> Tf(t)) /\ (Dd(t)' <=> Dd(t))
    BY <1>8, <1>9, <1>12, <1>13
  <2>2. ~ Pending(t)'
    BY <1>4, <1>8, <1>11, <1>13 DEF Pending
  <2>3. Joins(p, t) /\ \A q \in Thread : Once(q)'
    BY <1>1, <1>11, <1>13, ListsJoined
  <2>4. SenderInv(t)'
    <3>1. PendingOK(t)' /\ FailedOK(t)'
      BY <1>2, <1>3, <1>11, <2>1, <2>2 DEF PendingOK, FailedOK
    <3>2. ASSUME NEW q \in Thread PROVE ListedOK(q, t)'
      BY <1>2, <1>3, <1>4, <1>11, <1>13, <2>1, <2>2, <2>3 DEF ListedOK, Joins
    <3>3. QED
      BY <3>1, <3>2 DEF SenderInv
  <2>5. ~ Pending(p) /\ Rw(p) => ~ (partner[p] = Anyone /\ senders[p] = <<>>) /\ partner[p] # t
    <3>1. SUFFICES ASSUME ~ Pending(p), Rw(p)
                   PROVE  ~ (partner[p] = Anyone /\ senders[p] = <<>>) /\ partner[p] # t
      OBVIOUS
    <3>2. F \cap IpcMask = {"receive_wait"}
      BY <1>8, <3>1 DEF Rw
    <3>3. CheckSender(p, t, F) = "queued"
      BY <1>9, <1>10, <1>13
    <3>4. QED
      BY <3>2, <3>3 DEF CheckSender, SenderOk
  <2>6. QED
    BY <1>4, <2>1, <2>3, <2>4, <2>5
<1>14. ASSUME NEW h, h \in {F, (F \ IpcMask) \cup {"ready"},
                            (F \ (IpcMask \cup {"ready"})) \cup {"transfer"}},
              h # F => F \cap IpcMask = {"receive_wait"},
              st'[p] = h, \A u \in Thread \ {p} : st'[u] = st[u],
              chg'[p] = g[p], \A u \in Thread \ {p, t} : chg'[u] = chg[u],
              senders' = senders
       PROVE  /\ \A u \in Thread \ {t} : Kept(u)
              /\ SenderInv(t)' /\ SameLists /\ \A q \in Thread : Once(q)'
  <2>1. /\ \A u \in Thread \ {t} : Kept(u)
        /\ (Sw(t)' <=> Sw(t)) /\ (Tf(t)' <=> Tf(t)) /\ (Dd(t)' <=> Dd(t))
    BY <1>12, <1>14
  <2>2. SameLists /\ \A q \in Thread : Once(q)'
    BY <1>1, <1>14, ListsSame
  <2>3. SenderInv(t)'
    <3>1. ~ Tf(t)' /\ ~ Dd(t)' /\ \A q \in Thread : ~ On(q, t)'
      BY <1>11, <2>1, <2>2 DEF SameLists
    <3>2. PendingOK(t)'
      BY <1>2, <1>3, <3>1 DEF PendingOK, Local
    <3>3. QED
      BY <1>3, <3>1, <3>2 DEF SenderInv, FailedOK, ListedOK
  <2>4. QED
    BY <2>1, <2>2, <2>3
<1>15. ASSUME NEW h, h \in {F, (F \ IpcMask) \cup {"ready"},
                            (F \ (IpcMask \cup {"ready"})) \cup {"transfer"}},
              h # F => r \in {"open", "closed"},
              NEW del, NEW add, XcpuStateChange(p, t, del, add, [f EXCEPT ![p] = h], g),
              senders' = senders
       PROVE  /\ \A u \in Thread \ {t} : Kept(u)
              /\ SenderInv(t)' /\ SameLists /\ \A q \in Thread : Once(q)'
  <2>1. /\ st' = [f EXCEPT ![p] = h]
        /\ \A u \in Thread \ {t} : chg'[u] = g[u]
    <3>1. ~ Local(p, t)
      BY <1>3, <1>4 DEF Local
    <3>2. QED
      BY <1>8, <1>15, <3>1 DEF XcpuStateChange
  <2>2. st'[p] = h /\ \A u \in Thread \ {p} : st'[u] = st[u]
    BY <1>9, <2>1
  <2>3. h # F => F \cap IpcMask = {"receive_wait"}
    <3>1. CASE h # F
      <4>1. CheckSender(p, t, F) \in {"open", "closed"}
        BY <1>9, <1>10, <1>15, <3>1
      <4>2. QED
        BY <4>1 DEF CheckSender, SenderOk
    <3>2. QED
      BY <3>1
  <2>4. chg'[p] = g[p] /\ \A u \in Thread \ {p, t} : chg'[u] = chg[u]
    BY <1>4, <1>8, <2>1
  <2>5. QED
    BY <1>14, <1>15, <2>2, <2>3, <2>4
<1>16. \/ /\ r = "queued" /\ senders' = [senders EXCEPT ![p] = Append(@, t)] /\ st' = f
          /\ chg' = g /\ reg'[t].res = "queued"
       \/ /\ senders' = senders
          /\ \E h \in {F, (F \ IpcMask) \cup {"ready"},
                       (F \ (IpcMask \cup {"ready"})) \cup {"transfer"}} : \E del, add :
                /\ h # F => r \in {"open", "closed"}
                /\ XcpuStateChange(p, t, del, add, [f EXCEPT ![p] = h], g)
  <2>1. \/ /\ r = "failed"
           /\ XcpuStateChange(p, t, IpcMask, {}, f, g)
           /\ senders' = senders
        \/ /\ r = "queued"
           /\ senders' = [senders EXCEPT ![p] = Append(@, t)]
           /\ st' = f /\ chg' = g
           /\ reg' = [reg EXCEPT ![t].res = r]
        \/ /\ r \in {"open", "closed"}
           /\ XcpuStateChange(p, t, {"send_wait"}, {"ready"},
                 [f EXCEPT ![p] = (@ \ (IpcMask \cup {"ready"})) \cup {"transfer"}], g)
           /\ senders' = senders
        \/ /\ r \in {"open", "closed"}
           /\ \/ XcpuStateChange(p, t, {"send_wait"}, {"receive_wait"},
                    [f EXCEPT ![p] = (@ \ IpcMask) \cup {"ready"}], g)
              \/ XcpuStateChange(p, t, IpcMask, {},
                    [f EXCEPT ![p] = (@ \ IpcMask) \cup {"ready"}], g)
           /\ senders' = senders
    BY <1>4, <1>5, <1>6, <1>10 DEF RemoteIpcSend
  <2>2. /\ f = [f EXCEPT ![p] = F]
        /\ [f EXCEPT ![p] = (@ \ (IpcMask \cup {"ready"})) \cup {"transfer"}] =
              [f EXCEPT ![p] = (F \ (IpcMask \cup {"ready"})) \cup {"transfer"}]
        /\ [f EXCEPT ![p] = (@ \ IpcMask) \cup {"ready"}] =
              [f EXCEPT ![p] = (F \ IpcMask) \cup {"ready"}]
    BY <1>9
  <2>3. CASE r = "failed" /\ XcpuStateChange(p, t, IpcMask, {}, f, g) /\ senders' = senders
    BY <2>2, <2>3
  <2>4. CASE /\ r = "queued"
             /\ senders' = [senders EXCEPT ![p] = Append(@, t)]
             /\ st' = f /\ chg' = g
             /\ reg' = [reg EXCEPT ![t].res = r]
    <3>1. reg'[t].res = "queued"
      <4>1. reg \in [Thread -> Locals]
        BY <1>1 DEF TypeOK
      <4>2. QED
        BY <2>4, <4>1 DEF Locals
    <3>2. QED
      BY <2>4, <3>1
  <2>5. CASE /\ r \in {"open", "closed"}
             /\ XcpuStateChange(p, t, {"send_wait"}, {"ready"},
                 [f EXCEPT ![p] = (@ \ (IpcMask \cup {"ready"})) \cup {"transfer"}], g)
             /\ senders' = senders
    BY <2>2, <2>5
  <2>6. CASE /\ r \in {"open", "closed"}
             /\ \/ XcpuStateChange(p, t, {"send_wait"}, {"receive_wait"},
                    [f EXCEPT ![p] = (@ \ IpcMask) \cup {"ready"}], g)
                \/ XcpuStateChange(p, t, IpcMask, {},
                    [f EXCEPT ![p] = (@ \ IpcMask) \cup {"ready"}], g)
             /\ senders' = senders
    BY <2>2, <2>6
  <2>7. QED
    BY <2>1, <2>3, <2>4, <2>5, <2>6
<1>17. QED
  BY <1>13, <1>15, <1>16

\* A remote sender that gives up leaves the list, or has had its answer.
LEMMA RemoteAbortSettles ==
  ASSUME SendInv, NEW t \in Thread, RemoteAbortSend(t)
  PROVE  /\ \A u \in Thread \ {t} : Kept(u)
         /\ SenderInv(t)'
         /\ pc[t] = "abort" /\ Handles(reg[t].to) /\ Leaves(t)
         /\ \A q \in Thread : Once(q)'
<1>1. /\ TypeInv /\ TypeOK /\ SenderInv(t) /\ PathOK(t) /\ (\A p \in Thread : Once(p))
      /\ st \in [Thread -> SUBSET Flag] /\ chg \in [Thread -> Changes]
      /\ drq \in [Thread -> {"none", "send", "abort", "reply"}]
  BY SendInvParts DEF TypeOK
<1>2. /\ \A u \in Thread \ {t} : Stays(u)
      /\ pc' = pc /\ reg'[t].to = reg[t].to
  BY <1>1, OutsideMoves DEF Outside
<1>3. /\ drq[t] = "abort" /\ drq'[t] = "reply" /\ pc[t] = "abort"
  BY <1>1 DEF RemoteAbortSend, PathOK
<1>4. PICK p \in Thread : p = reg[t].to
  BY <1>1, <1>3, ToType
<1>5. PICK F : F = Change(st[p], p)
  OBVIOUS
<1>6. /\ st' = [st EXCEPT ![p] = F] /\ chg' = ChangeTaken(p) /\ senders' = Unlisted(t)
      /\ Handles(p)
  BY <1>4, <1>5 DEF RemoteAbortSend
<1>7. st[p] \in SUBSET Flag
  BY <1>1
<1>8. /\ ~ Pending(p) => /\ "send_wait" \in F <=> "send_wait" \in st[p]
                         /\ "transfer_failed" \in F <=> "transfer_failed" \in st[p]
                         /\ F \cap IpcMask = st[p] \cap IpcMask
      /\ "dead" \in F <=> "dead" \in st[p]
      /\ chg'[p].del = {} /\ chg'[p].add = {}
      /\ \A u \in Thread \ {p} : chg'[u] = chg[u]
  BY <1>1, <1>5, <1>6, <1>7, ChangeMade
<1>9. st'[p] = F /\ \A u \in Thread \ {p} : st'[u] = st[u]
  BY <1>1, <1>6
<1>10. /\ ~ Pending(p)' /\ (Dd(p)' <=> Dd(p))
       /\ ~ Pending(p) => (Sw(p)' <=> Sw(p)) /\ (Tf(p)' <=> Tf(p)) /\ (Rw(p)' <=> Rw(p))
  BY <1>8, <1>9 DEF Pending, Sw, Tf, Rw, Dd
<1>11. ASSUME NEW u \in Thread \ {t} PROVE Kept(u)
  <2>1. CASE u = p
    BY <1>2, <1>10, <2>1 DEF Kept
  <2>2. CASE u # p
    BY <1>2, <1>8, <1>9, <2>2 DEF Kept, Pending, Sw, Tf, Rw, Dd
  <2>3. QED
    BY <2>1, <2>2
<1>12. Leaves(t) /\ \A q \in Thread : Once(q)'
  BY <1>1, <1>6, ListsLeft
<1>13. SenderInv(t)'
  <2>1. ASSUME Pending(t)' PROVE PendingOK(t)'
    <3>1. t # p
      BY <1>10, <2>1
    <3>2. Pending(t) /\ (Tf(t)' <=> Tf(t))
      BY <1>8, <1>9, <2>1, <3>1 DEF Pending, Tf
    <3>3. ~ Tf(t) /\ ~ Local(t, reg[t].to) /\ \A q \in Thread : ~ On(q, t)
      BY <1>1, <3>2 DEF SenderInv, PendingOK, ListedOK
    <3>4. ~ Listed(t)
      BY <3>3 DEF Listed, On
    <3>5. reg' = [reg EXCEPT ![t].res = "done"] /\ reg \in [Thread -> Locals]
      BY <1>1, <3>4 DEF RemoteAbortSend, TypeOK
    <3>6. reg'[t].res = "done"
      BY <3>5 DEF Locals
    <3>7. QED
      BY <1>2, <1>3, <3>2, <3>3, <3>6 DEF PendingOK, Local
  <2>2. FailedOK(t)'
    <3>1. Dd(t)' => Dd(t)
      BY <1>9, <1>10 DEF Dd
    <3>2. ~ Dd(t)
      BY <1>1, <1>3 DEF SenderInv, FailedOK
    <3>3. QED
      BY <1>2, <1>3, <3>1, <3>2 DEF FailedOK
  <2>3. ASSUME NEW q \in Thread PROVE ListedOK(q, t)'
    BY <1>12 DEF Leaves, ListedOK
  <2>4. PendingOK(t)'
    BY <2>1 DEF PendingOK
  <2>5. QED
    BY <2>2, <2>3, <2>4 DEF SenderInv
<1>14. QED
  BY <1>3, <1>4, <1>6, <1>11, <1>12, <1>13

-----------------------------------------------------------------------------
\* Receivers: nobody waits whose message they would have taken.

\* Who has looked and goes to sleep, or sleeps, and could take a message: no
\* sender whose message it would take is in its list.
NoneWaits(p) ==
    pc[p] \in {"activate", "receive", "asleep"} /\ reg[p].next = None /\ Rw(p) =>
        /\ partner[p] = Anyone => \A s \in Thread : ~ On(p, s)
        /\ partner[p] \in Thread => ~ On(p, partner[p])

QueueInv == SendInv /\ \A t \in Thread : NoneWaits(t)

\* t joins the list of a receiver that cannot take its message.
Joined(t) == \E r \in Thread :
                /\ Joins(r, t)
                /\ ~ Pending(r) /\ Rw(r) => /\ ~ (partner[r] = Anyone /\ senders[r] = <<>>)
                                            /\ partner[r] # t
\* s leaves a list, that of t or of a receiver whose CPU handles it.
Left(t) == \E s \in Thread : Leaves(s) /\ \A u \in Thread \ {t} : On(u, s) => Handles(u)

\* What a step of t means to the others and to the lists.
Summary(t) == /\ \A u \in Thread \ {t} : Kept(u) \/ (Stays(u) /\ pc[u] \in Waiting)
              /\ \A u \in Thread : SenderInv(u)' /\ Once(u)'
              /\ SameLists \/ Joined(t) \/ Left(t)

\* All but one are kept.
LEMMA AllSenders ==
  ASSUME SendInv, NEW t \in Thread, SenderInv(t)', \A u \in Thread \ {t} : Kept(u),
         SameLists \/ (\E r \in Thread : Joins(r, t)) \/ (\E s \in Thread : Leaves(s))
  PROVE  \A u \in Thread : SenderInv(u)'
<1>1. ASSUME NEW u \in Thread \ {t}
      PROVE  SenderInv(u)'
  <2>1. SenderInv(u) /\ PathOK(u) /\ Kept(u)
    BY SendInvParts
  <2>2. \A p \in Thread : On(p, u)' => On(p, u)
    BY DEF SameLists, Joins, Leaves
  <2>3. QED
    BY <2>1, <2>2, KeptSender
<1>2. QED
  BY <1>1

\* From what each action does to the summary.
LEMMA SettledSummary ==
  ASSUME SendInv, NEW t \in Thread, Settled(t)
  PROVE  Summary(t) /\ SameLists
<1>1. \A u \in Thread : SenderInv(u)'
  BY AllSenders DEF Settled
<1>2. QED
  BY <1>1 DEF Settled, Summary

LEMMA AnsweredSummary ==
  ASSUME SendInv, NEW t \in Thread, NEW n, Answered(t, n)
  PROVE  Summary(t)
<1>1. n \in Thread /\ SenderInv(n)
  BY SendInvParts DEF Answered
<1>2. ASSUME NEW u \in Thread \ {t, n}
      PROVE  SenderInv(u)'
  <2>1. SenderInv(u) /\ PathOK(u) /\ Kept(u)
    BY SendInvParts DEF Answered
  <2>2. \A p \in Thread : On(p, u)' => On(p, u)
    BY <1>1 DEF Answered, Leaves
  <2>3. QED
    BY <2>1, <2>2, KeptSender
<1>3. \A u \in Thread : SenderInv(u)' /\ Once(u)'
  BY <1>2 DEF Answered
<1>4. \A u \in Thread \ {t} : ~ On(u, n)
  BY <1>1 DEF Answered, SenderInv, ListedOK
<1>5. Left(t)
  BY <1>1, <1>4 DEF Answered, Left
<1>6. \A u \in Thread \ {t} : Kept(u) \/ (Stays(u) /\ pc[u] \in Waiting)
  BY DEF Answered
<1>7. QED
  BY <1>3, <1>5, <1>6 DEF Summary

LEMMA SendWaitedSummary ==
  ASSUME SendInv, NEW t \in Thread, SendWaited(t)
  PROVE  Summary(t)
<1>1. /\ \A u \in Thread \ {t} : Kept(u)
      /\ SenderInv(t)'
      /\ \/ SameLists
         \/ Leaves(t) /\ Local(t, reg[t].to) /\ At(t, "sendWait") /\ pc[t] = "sendWait"
      /\ \A p \in Thread : Once(p)'
  BY SendWaitedSettles
<1>2. \A u \in Thread : SenderInv(u)'
  BY <1>1, AllSenders
<1>3. SameLists \/ Left(t)
  <2>1. ASSUME Leaves(t), Local(t, reg[t].to), At(t, "sendWait"), pc[t] = "sendWait"
        PROVE  Left(t)
    <3>1. TypeInv /\ SenderInv(t)
      BY SendInvParts
    <3>2. Preemptible(Home[t])
      BY <2>1 DEF At, InSection
    <3>3. ASSUME NEW u \in Thread, On(u, t) PROVE Handles(u)
      BY <2>1, <3>1, <3>2, <3>3 DEF SenderInv, ListedOK, Local, Handles
    <3>4. QED
      BY <2>1, <3>3 DEF Left
  <2>2. QED
    BY <1>1, <2>1
<1>4. QED
  BY <1>1, <1>2, <1>3 DEF Summary

LEMMA RemoteAbortSummary ==
  ASSUME SendInv, NEW t \in Thread, RemoteAbortSend(t)
  PROVE  Summary(t)
<1>1. /\ \A u \in Thread \ {t} : Kept(u)
      /\ SenderInv(t)'
      /\ pc[t] = "abort" /\ Handles(reg[t].to) /\ Leaves(t)
      /\ \A q \in Thread : Once(q)'
  BY RemoteAbortSettles
<1>2. \A u \in Thread : SenderInv(u)'
  BY <1>1, AllSenders
<1>3. TypeInv /\ SenderInv(t)
  BY SendInvParts
<1>4. ASSUME NEW u \in Thread, On(u, t) PROVE Handles(u)
  BY <1>1, <1>3, <1>4 DEF SenderInv, ListedOK
<1>5. Left(t)
  BY <1>1, <1>4 DEF Left
<1>6. QED
  BY <1>1, <1>2, <1>5 DEF Summary

LEMMA JoinSummary ==
  ASSUME SendInv, NEW t \in Thread, HandshakeReceiver(t) \/ RemoteIpcSend(t)
  PROVE  Summary(t)
<1>1. /\ \A u \in Thread \ {t} : Kept(u)
      /\ SenderInv(t)'
      /\ SameLists \/ Joined(t)
      /\ \A q \in Thread : Once(q)'
  BY HandshakeSettles, RemoteIpcSendSettles DEF Joined
<1>2. \A u \in Thread : SenderInv(u)'
  BY <1>1, AllSenders DEF Joined
<1>3. QED
  BY <1>1, <1>2 DEF Summary

\* A receiver that has nobody to wait for has nobody after a step of another.
LEMMA ReceiverKept ==
  ASSUME SendInv, NEW u \in Thread, NoneWaits(u),
         Kept(u) \/ (Stays(u) /\ pc[u] \in Waiting), NEW t \in Thread,
         SameLists \/ Joined(t) \/ \E s \in Thread : Leaves(s)
  PROVE  NoneWaits(u)'
<1>0. TypeInv /\ TypeOK /\ SenderInv(u) /\ Stays(u)
  BY SendInvParts DEF Kept
<1>1. SUFFICES ASSUME pc[u] \in {"activate", "receive", "asleep"}, reg[u].next = None, Rw(u)'
               PROVE  /\ partner[u] = Anyone => \A s \in Thread : ~ On(u, s)'
                      /\ partner[u] \in Thread => ~ On(u, partner[u])'
  <2>1. ASSUME /\ partner[u] = Anyone => \A s \in Thread : ~ On(u, s)'
               /\ partner[u] \in Thread => ~ On(u, partner[u])'
        PROVE  /\ partner'[u] = Anyone => \A s \in Thread : ~ On(u, s)'
               /\ partner'[u] \in Thread => ~ On(u, partner[u])'
    BY <1>0, <2>1 DEF Stays
  <2>2. QED
    BY <1>0, <2>1 DEF NoneWaits, Stays
<1>2. Kept(u) /\ ~ Pending(u) /\ Rw(u)
  <2>1. pc[u] \notin Waiting
    BY <1>1 DEF Waiting
  <2>2. QED
    BY <1>0, <1>1, <2>1, FreeSender DEF Kept
<1>3. /\ partner[u] = Anyone => \A s \in Thread : ~ On(u, s)
      /\ partner[u] \in Thread => ~ On(u, partner[u])
  BY <1>1, <1>2 DEF NoneWaits
<1>4. CASE Joined(t)
  <2>1. PICK r \in Thread :
           /\ Joins(r, t)
           /\ ~ Pending(r) /\ Rw(r) => /\ ~ (partner[r] = Anyone /\ senders[r] = <<>>)
                                       /\ partner[r] # t
    BY <1>4 DEF Joined
  <2>2. CASE r = u
    <3>1. partner[u] # Anyone /\ partner[u] # t
      BY <1>0, <1>2, <1>3, <2>1, <2>2, ListEmpty
    <3>2. QED
      <4>1. ASSUME NEW w \in Thread, w = partner[u] PROVE ~ On(u, w)'
        BY <1>3, <2>1, <3>1, <4>1 DEF Joins
      <4>2. ASSUME partner[u] \in Thread PROVE ~ On(u, partner[u])'
        <5>1. PICK w \in Thread : w = partner[u]
          BY <4>2
        <5>2. ~ On(u, w)'
          BY <4>1, <5>1
        <5>3. partner'[u] = partner[u]
          BY <1>0 DEF Stays
        <5>4. QED
          BY <5>1, <5>2, <5>3 DEF On
      <4>3. QED
        BY <3>1, <4>2
  <2>3. CASE r # u
    <3>1. \A s \in Thread : On(u, s)' <=> On(u, s)
      BY <2>1, <2>3 DEF Joins
    <3>2. partner'[u] = partner[u]
      BY <1>0 DEF Stays
    <3>3. QED
      BY <1>3, <3>1, <3>2 DEF On
  <2>4. QED
    BY <2>2, <2>3
<1>5. CASE SameLists \/ \E s \in Thread : Leaves(s)
  <2>1. \A s \in Thread : On(u, s)' => On(u, s)
    BY <1>5 DEF SameLists, Leaves
  <2>2. partner'[u] = partner[u]
    BY <1>0 DEF Stays
  <2>3. QED
    BY <1>3, <2>1, <2>2 DEF On
<1>6. QED
  BY <1>4, <1>5

\* Who looks for a sender finds one that waits, or there is none.
LEMMA Looks ==
  ASSUME QueueInv, NEW t \in Thread, Pick(t) \/ Switched(t)
  PROVE  NoneWaits(t)'
<1>1. TypeInv /\ TypeOK /\ SendInv /\ PathOK(t)
  BY SendInvParts DEF QueueInv
<1>2. /\ pc[t] \in {"pick", "switched"}
      /\ reg'[t].from = reg[t].from
      /\ reg'[t].next = IF "receive_wait" \in st[t] /\ reg[t].next = None
                           THEN NextSender(t) ELSE reg[t].next
      /\ partner'[t] = IF reg'[t].next # None /\ reg[t].from = Anyone
                          THEN reg'[t].next ELSE partner[t]
  BY <1>1, PickMoves, SwitchedMoves DEF Goes
<1>3. reg[t].next = None => partner[t] = reg[t].from
  BY <1>1, <1>2 DEF PathOK, Before, Out
<1>4. UNCHANGED <<st, senders>>
  BY DEF Pick, Switched, flags
<1>5. /\ NextSender(t) # None => NextSender(t) \in Thread /\ On(t, NextSender(t))
      /\ NextSender(t) = None => /\ reg[t].from = Anyone => \A s \in Thread : ~ On(t, s)
                                 /\ reg[t].from \in Thread => ~ On(t, reg[t].from)
  <2>1. CASE reg[t].from = Anyone
    <3>1. senders[t] = <<>> <=> \A s \in Thread : ~ On(t, s)
      BY <1>1, ListEmpty
    <3>2. senders[t] # <<>> => Head(senders[t]) \in Thread /\ On(t, Head(senders[t]))
      BY <1>1, ListEmpty
    <3>3. NextSender(t) = IF senders[t] = <<>> THEN None ELSE Head(senders[t])
      BY <2>1 DEF NextSender
    <3>4. Anyone \notin Thread /\ None \notin Thread
      BY IpcAssumption
    <3>5. QED
      BY <2>1, <3>1, <3>2, <3>3, <3>4
  <2>2. CASE reg[t].from # Anyone
    <3>1. NextSender(t) = IF On(t, reg[t].from) THEN reg[t].from ELSE None
      BY <2>2 DEF NextSender, On
    <3>2. None \notin Thread
      BY IpcAssumption
    <3>3. NextSender(t) \in Thread \cup {None}
      BY <1>1, NextSenderType
    <3>4. QED
      BY <2>2, <3>1, <3>2, <3>3
  <2>3. QED
    BY <2>1, <2>2
<1>6. SUFFICES ASSUME reg'[t].next = None, Rw(t)'
               PROVE  /\ partner'[t] = Anyone => \A s \in Thread : ~ On(t, s)'
                      /\ partner'[t] \in Thread => ~ On(t, partner[t])'
  BY DEF NoneWaits
<1>7. "receive_wait" \in st[t]
  BY <1>4, <1>6 DEF Rw
<1>8. reg[t].next = None /\ NextSender(t) = None /\ partner'[t] = partner[t]
  BY <1>2, <1>6, <1>7
<1>9. /\ partner[t] = Anyone => \A s \in Thread : ~ On(t, s)
      /\ partner[t] \in Thread => ~ On(t, partner[t])
  BY <1>3, <1>5, <1>8
<1>10. QED
  BY <1>4, <1>8, <1>9 DEF On

\* ... and goes on with what it has found.
LEMMA GoesOn ==
  ASSUME QueueInv, NEW t \in Thread, Activate(t) \/ Receive(t)
  PROVE  NoneWaits(t)'
<1>1. TypeInv /\ SendInv /\ PathOK(t) /\ NoneWaits(t)
  BY SendInvParts DEF QueueInv
<1>2. /\ pc[t] \in {"activate", "receive"} /\ reg' = reg /\ partner' = partner
      /\ pc'[t] \in {"receive", "switched", "pull", "asleep", "end"}
      /\ pc'[t] = "pull" => reg[t].next # None
  BY <1>1, ActivateMoves, ReceiveMoves DEF Goes
<1>3. /\ Settled(t)
      /\ pc'[t] \in {"receive", "asleep"} => (Rw(t)' => Rw(t))
  <2>1. CASE Activate(t)
    BY <1>1, <2>1, ActivateSettles
  <2>2. CASE Receive(t)
    BY <1>1, <2>2, ReceiveSettles, ReceiveMoves DEF Goes
  <2>3. QED
    BY <2>1, <2>2
<1>4. UNCHANGED senders
  BY DEF Activate, Receive
<1>5. QED
  BY <1>1, <1>2, <1>3, <1>4 DEF NoneWaits, On

\* Who is elsewhere does not wait for a message.
LEMMA Elsewhere ==
  ASSUME NEW t \in Thread, pc'[t] \notin {"activate", "receive", "asleep"}
  PROVE  NoneWaits(t)'
  BY DEF NoneWaits

\* What the DRQ of t is about, and what it does to capabilities.
LEMMA DrqSteps ==
  ASSUME NEW t \in Thread
  PROVE  /\ RemoteIpcSend(t) => /\ drq[t] = "send"
                               /\ \/ UNCHANGED <<caller, sent>>
                                  \/ \E open : TransferMsg(t, reg[t].to, open, TRUE)
         /\ RemoteAbortSend(t) => drq[t] = "abort" /\ UNCHANGED <<caller, sent>>
         /\ TakeReply(t) => drq[t] = "reply" /\ UNCHANGED <<caller, sent>>
<1>1. ASSUME RemoteIpcSend(t)
      PROVE  /\ drq[t] = "send"
             /\ \/ UNCHANGED <<caller, sent>>
                \/ \E open : TransferMsg(t, reg[t].to, open, TRUE)
  BY <1>1, Zenon DEF RemoteIpcSend, history
<1>2. ASSUME RemoteAbortSend(t) PROVE drq[t] = "abort" /\ UNCHANGED <<caller, sent>>
  BY <1>2, Zenon DEF RemoteAbortSend, history
<1>3. ASSUME TakeReply(t) PROVE drq[t] = "reply" /\ UNCHANGED <<caller, sent>>
  BY <1>3, Zenon DEF TakeReply, history
<1>4. QED
  BY <1>1, <1>2, <1>3

\* What a step of t does to lists and senders, and that t still is right.
LEMMA StepQueue ==
  ASSUME QueueInv, PickedStillWaits, NEW t \in Thread, Step(t) \/ DoIpc(t) \/ Outside(t)
  PROVE  Summary(t) /\ NoneWaits(t)'
<1>1. TypeInv /\ SendInv /\ NoneWaits(t)
  BY SendInvParts DEF QueueInv
<1>2. CASE DoIpc(t)
  <2>1. Summary(t) /\ SameLists
    BY <1>1, <1>2, DoIpcSettles, SettledSummary
  <2>2. pc[t] = "user"
    BY <1>2 DEF DoIpc, At
  <2>3. pc'[t] \in {"user", "pick", "send"}
    BY <1>1, <1>2, <2>2, DoIpcMoves
  <2>4. QED
    BY <2>1, <2>3, Elsewhere
<1>3. CASE HandshakeReceiver(t)
  <2>1. pc'[t] \in {"end", "sendWait", "copy"}
    BY <1>1, <1>3, HandshakeMoves DEF Goes
  <2>2. QED
    BY <1>1, <1>3, <2>1, JoinSummary, Elsewhere
<1>4. CASE RemoteHandshakeReceiver(t)
  <2>1. pc'[t] = "drq"
    BY <1>1, <1>4, RemoteHandshakeMoves
  <2>2. QED
    BY <1>1, <1>4, <2>1, RemoteHandshakeSettles, SettledSummary, Elsewhere
<1>5. CASE RemoteAnswer(t)
  <2>1. pc'[t] \in {"end", "sendWait", "pick", "copy"}
    BY <1>1, <1>5, RemoteAnswerMoves DEF Goes
  <2>2. QED
    BY <1>1, <1>5, <2>1, RemoteAnswerSettles, SettledSummary, Elsewhere
<1>6. ASSUME NEW ok \in BOOLEAN, Copy(t, ok)
      PROVE  Summary(t) /\ NoneWaits(t)'
  <2>1. pc'[t] = "pick"
    BY <1>1, <1>6, CopyMoves DEF Goes
  <2>2. QED
    BY <1>1, <1>6, <2>1, CopySettles, SettledSummary, Elsewhere
<1>7. ASSUME NEW ok \in BOOLEAN, Pull(t, ok)
      PROVE  Summary(t) /\ NoneWaits(t)'
  <2>1. pc[t] = "pull" /\ pc'[t] \in {"end", "pulled"}
    BY <1>1, <1>7, PullMoves DEF Goes
  <2>2. On(t, reg[t].next)
    BY <2>1 DEF PickedStillWaits, On
  <2>3. QED
    BY <1>1, <1>7, <2>1, <2>2, PullSettles, AnsweredSummary, Elsewhere
<1>8. CASE Pick(t) \/ Switched(t)
  BY <1>1, <1>8, PickSettles, SettledSummary, Looks
<1>9. CASE Activate(t) \/ Receive(t)
  BY <1>1, <1>9, ActivateSettles, ReceiveSettles, SettledSummary, GoesOn
<1>10. CASE Pulled(t) \/ WakeUp(t)
  <2>1. pc'[t] = "end"
    BY <1>1, <1>10, PulledMoves, WakeUpMoves DEF Goes
  <2>2. QED
    BY <1>1, <1>10, <2>1, PulledSettles, SettledSummary, Elsewhere
<1>11. CASE End(t)
  <2>1. pc'[t] \in {"user", "transfer"}
    BY <1>1, <1>11, EndMoves
  <2>2. QED
    BY <1>1, <1>11, <2>1, EndSettles, SettledSummary, Elsewhere
<1>12. CASE SendWaited(t)
  <2>1. pc'[t] \in {"pick", "end", "abort"}
    BY <1>1, <1>12, SendWaitedMoves
  <2>2. QED
    BY <1>1, <1>12, <2>1, SendWaitedSummary, Elsewhere
<1>13. CASE Aborted(t)
  <2>1. pc'[t] \in {"end", "pick"}
    BY <1>1, <1>13, AbortedMoves DEF Goes
  <2>2. QED
    BY <1>1, <1>13, <2>1, AbortedSettles, SettledSummary, Elsewhere
<1>14. CASE DoKill(t) \/ AbortSender(t) \/ NoMoreSenders(t) \/ Dead(t)
  <2>1. pc'[t] \in {"kill", "dying", "dead"}
    BY <1>1, <1>14, KillMoves
  <2>2. Summary(t)
    BY <1>1, <1>14, KillSettles, DeadSettles, SettledSummary, AbortSenderSettles,
       AnsweredSummary
  <2>3. QED
    BY <2>1, <2>2, Elsewhere
<1>15. CASE WaitOn(t) \/ Expired(t) \/ Cancel(t) \/ PrepareKill(t) \/ TakeChange(t)
  <2>1. Settled(t) /\ Kept(t)
    BY <1>1, <1>15, WaitOnSettles, TakeChangeSettles
  <2>2. Summary(t) /\ SameLists
    BY <1>1, <2>1, SettledSummary
  <2>3. QED
    BY <1>1, <2>1, <2>2, ReceiverKept
<1>16. CASE RemoteIpcSend(t) \/ RemoteAbortSend(t) \/ TakeReply(t)
  <2>1. Summary(t)
    BY <1>1, <1>16, JoinSummary, RemoteAbortSummary, TakeReplySettles, SettledSummary
  <2>2. pc[t] \in {"drq", "abort"} /\ pc' = pc
    <3>1. drq[t] # "none" /\ Outside(t)
      BY <1>16, DrqSteps DEF Outside
    <3>2. QED
      BY <1>1, <3>1, OutsideMoves DEF TypeInv, ToOK
  <2>3. QED
    BY <2>1, <2>2, Elsewhere
<1>17. QED
  BY <1>2, <1>3, <1>4, <1>5, <1>6, <1>7, <1>8, <1>9, <1>10, <1>11, <1>12, <1>13, <1>14, <1>15,
     <1>16 DEF Step, Outside

\* Nobody sends and nobody sleeps.
LEMMA InitQueue == Init => QueueInv
<1> SUFFICES ASSUME Init PROVE QueueInv
  OBVIOUS
<1>1. PathInv
  BY InitPath
<1>2. ASSUME NEW t \in Thread PROVE SenderInv(t) /\ Once(t) /\ NoneWaits(t)
  <2>1. /\ st[t] = {"ready"} /\ chg[t] = NoChange /\ senders[t] = <<>> /\ pc[t] = "user"
        /\ drq[t] = "none"
    BY DEF Init
  <2>2. \A p \in Thread : ~ On(p, t)
    BY DEF Init, On, Contains
  <2>3. ~ Pending(t) /\ ~ Tf(t) /\ ~ Dd(t)
    BY <2>1 DEF Pending, Tf, Dd, NoChange
  <2>4. SenderInv(t)
    BY <2>1, <2>2, <2>3 DEF SenderInv, PendingOK, FailedOK, ListedOK
  <2>5. Once(t)
    BY <2>1 DEF Once
  <2>6. NoneWaits(t)
    BY <2>1 DEF NoneWaits
  <2>7. QED
    BY <2>4, <2>5, <2>6
<1>3. QED
  BY <1>1, <1>2 DEF QueueInv, SendInv, SendersInv

LEMMA StutterQueue == QueueInv /\ UNCHANGED vars => QueueInv'
<1> SUFFICES ASSUME QueueInv, UNCHANGED vars PROVE QueueInv'
  OBVIOUS
<1>1. PathInv'
  BY StutterPath DEF QueueInv, SendInv
<1>2. UNCHANGED <<st, chg, partner, senders, drq, pc, reg>>
  BY DEF vars, flags
<1>3. ASSUME NEW t \in Thread PROVE (SenderInv(t) /\ Once(t) /\ NoneWaits(t))'
  <2>1. SenderInv(t) /\ Once(t) /\ NoneWaits(t)
    BY DEF QueueInv, SendInv, SendersInv
  <2>2. (SenderInv(t) /\ Once(t))'
    BY <1>2, <2>1 DEF SenderInv, PendingOK, FailedOK, ListedOK, On, Once, Pending, Sw,
       Tf, Dd, Local
  <2>3. NoneWaits(t)'
    BY <1>2, <2>1 DEF NoneWaits, On, Rw
  <2>4. QED
    BY <2>2, <2>3
<1>4. QED
  BY <1>1, <1>3 DEF QueueInv, SendInv, SendersInv

\* QueueInv is inductive as long as senders that were picked wait.
LEMMA NextQueue == QueueInv /\ PickedStillWaits /\ [Next]_vars => QueueInv'
<1> SUFFICES ASSUME QueueInv, PickedStillWaits, [Next]_vars PROVE QueueInv'
  OBVIOUS
<1>1. PathInv' /\ SendInv
  BY NextPath DEF QueueInv, SendInv
<1>2. CASE UNCHANGED vars
  BY <1>2, StutterQueue
<1>3. CASE Next
  <2>1. PICK t \in Thread : Step(t) \/ DoIpc(t) \/ Outside(t)
    BY <1>3 DEF Next, Drq, Outside
  <2>2. Summary(t) /\ NoneWaits(t)'
    BY <2>1, StepQueue
  <2>3. ASSUME NEW u \in Thread \ {t} PROVE NoneWaits(u)'
    <3>1. NoneWaits(u)
      BY DEF QueueInv
    <3>2. Kept(u) \/ (Stays(u) /\ pc[u] \in Waiting)
      BY <2>2 DEF Summary
    <3>3. SameLists \/ Joined(t) \/ \E s \in Thread : Leaves(s)
      BY <2>2 DEF Summary, Left
    <3>4. QED
      BY <1>1, <3>1, <3>2, <3>3, ReceiverKept
  <2>4. \A u \in Thread : SenderInv(u)' /\ Once(u)' /\ NoneWaits(u)'
    BY <2>2, <2>3 DEF Summary
  <2>5. QED
    BY <1>1, <2>4 DEF QueueInv, SendInv, SendersInv
<1>4. QED
  BY <1>2, <1>3

-----------------------------------------------------------------------------
\* Reply capabilities.

\* The caller is in its call to p, whose message p has, and wants the reply of p.
CapOK(p, t) == caller[p] = t => /\ pc[t] \notin Out /\ reg[t].to = p /\ reg[t].from = p
                                /\ sent[t] = TRUE
CapInv == \A p, t \in Thread : CapOK(p, t)

\* t stays in the call it is in.
SameCall(t) == pc[t] \notin Out => /\ pc'[t] \notin Out
                                   /\ reg'[t].to = reg[t].to /\ reg'[t].from = reg[t].from

\* A step that gives no capability and ends no call.
LEMMA CapKept ==
  ASSUME CapInv, NEW t \in Thread, \A u \in Thread \ {t} : Stays(u), SameCall(t),
         caller' = caller, sent' = sent
  PROVE  CapInv'
<1>1. \A u \in Thread : SameCall(u)
  BY DEF Stays, SameCall
<1>2. ASSUME NEW p \in Thread, NEW u \in Thread PROVE CapOK(p, u)'
  BY <1>1 DEF CapInv, CapOK, SameCall
<1>3. QED
  BY <1>2 DEF CapInv

\* A message from s to r has been handed over, and perhaps a capability.
HandedOver(s, r) ==
    /\ \A u \in Thread : sent[u] = TRUE => sent'[u] = TRUE
    /\ \A p \in Thread \ {r} : caller'[p] = caller[p]
    /\ caller'[r] = caller[r] \/ (caller'[r] = s /\ partner[s] = r /\ sent'[s] = TRUE)

\* transfer_msg() gives one capability, to the receiver, for the sender.
LEMMA TransferCap ==
  ASSUME TypeOK, NEW s \in Thread, NEW r \in Thread, NEW open, NEW ok \in BOOLEAN,
         TransferMsg(s, r, open, ok)
  PROVE  HandedOver(s, r)
<1>1. caller \in [Thread -> Thread \cup {None}] /\ sent \in [Thread -> BOOLEAN]
  BY DEF TypeOK
<1>2. sent' = [sent EXCEPT ![s] = @ \/ ok]
  BY DEF TransferMsg
<1>3. \A u \in Thread : sent[u] = TRUE => sent'[u] = TRUE
  BY <1>1, <1>2
<1>4. CASE ok /\ open /\ partner[s] = r
  <2>1. caller' = [caller EXCEPT ![r] = s]
    BY <1>4 DEF TransferMsg
  <2>2. sent'[s] = TRUE
    BY <1>1, <1>2, <1>4
  <2>3. QED
    BY <1>1, <1>3, <1>4, <2>1, <2>2 DEF HandedOver
<1>5. CASE ~ (ok /\ open /\ partner[s] = r)
  BY <1>3, <1>5 DEF TransferMsg, HandedOver
<1>6. QED
  BY <1>4, <1>5

\* The sender s of a transfer to r is in a call to r; if it takes r for its
\* partner, it waits for the reply of r.
LEMMA CapGiven ==
  ASSUME TypeOK, CapInv, NEW t \in Thread, \A u \in Thread \ {t} : Stays(u), SameCall(t),
         NEW s \in Thread, NEW r \in Thread, NEW open, NEW ok \in BOOLEAN,
         TransferMsg(s, r, open, ok),
         pc[s] \notin Out, reg[s].to = r, partner[s] = reg[s].from
  PROVE  CapInv'
<1>1. \A u \in Thread : SameCall(u)
  BY DEF Stays, SameCall
<1>2. /\ \A u \in Thread : sent[u] = TRUE => sent'[u] = TRUE
      /\ \A p \in Thread \ {r} : caller'[p] = caller[p]
      /\ caller'[r] = caller[r] \/ (caller'[r] = s /\ partner[s] = r /\ sent'[s] = TRUE)
  <2>1. HandedOver(s, r)
    BY TransferCap
  <2>2. QED
    BY <2>1 DEF HandedOver
<1>3. ASSUME NEW p \in Thread, NEW u \in Thread PROVE CapOK(p, u)'
  <2>1. CASE caller'[p] = caller[p]
    BY <1>1, <1>2, <2>1 DEF CapInv, CapOK, SameCall
  <2>2. CASE p = r /\ caller'[p] = s /\ partner[s] = r /\ sent'[s] = TRUE
    BY <1>1, <2>2 DEF CapOK, SameCall
  <2>3. QED
    BY <1>2, <2>1, <2>2
<1>4. QED
  BY <1>3 DEF CapInv

\* Who makes a new call has no caller's capability out, and gives up that of
\* the one it sends to.
LEMMA DoIpcCap ==
  ASSUME TypeInv, CapInv, NEW t \in Thread, DoIpc(t)
  PROVE  CapInv'
<1>1. /\ \A u \in Thread \ {t} : Stays(u)
      /\ \/ UNCHANGED <<caller, pc, reg, sent>>
         \/ /\ pc[t] = "user"
            /\ sent' = [sent EXCEPT ![t] = FALSE]
            /\ caller' = caller \/ caller' = [caller EXCEPT ![t] = None]
  BY DoIpcMoves
<1>2. CASE UNCHANGED <<caller, pc, reg, sent>>
  BY <1>2 DEF CapInv, CapOK
<1>3. CASE /\ pc[t] = "user"
           /\ sent' = [sent EXCEPT ![t] = FALSE]
           /\ caller' = caller \/ caller' = [caller EXCEPT ![t] = None]
  <2>1. caller \in [Thread -> Thread \cup {None}] /\ sent \in [Thread -> BOOLEAN]
        /\ None \notin Thread
    BY IpcAssumption DEF TypeInv, TypeOK
  <2>2. \A p \in Thread : caller'[p] = caller[p] \/ caller'[p] = None
    BY <1>3, <2>1
  <2>3. \A u \in Thread \ {t} : sent'[u] = sent[u]
    BY <1>3, <2>1
  <2>4. ASSUME NEW p \in Thread, NEW u \in Thread PROVE CapOK(p, u)'
    <3>1. SUFFICES ASSUME caller'[p] = u PROVE CapOK(p, u)'
      BY DEF CapOK
    <3>2. caller[p] = u
      BY <2>1, <2>2, <3>1
    <3>3. u # t
      BY <1>3, <3>2 DEF CapInv, CapOK, Out
    <3>4. QED
      BY <1>1, <2>3, <3>2, <3>3 DEF CapInv, CapOK, Stays
  <2>5. QED
    BY <2>4 DEF CapInv
<1>4. QED
  BY <1>1, <1>2, <1>3

\* reset_caller() takes back the only capability for t before the call ends.
LEMMA EndCap ==
  ASSUME TypeInv, CapInv, NEW t \in Thread, End(t)
  PROVE  CapInv'
<1>1. /\ \A u \in Thread \ {t} : Stays(u)
      /\ pc[t] \in {"end", "transfer"}
  BY EndMoves
<1>2. sent' = sent /\ caller' = ResetCaller(t)
  BY DEF End
<1>3. caller \in [Thread -> Thread \cup {None}] /\ None \notin Thread
  BY IpcAssumption DEF TypeInv, TypeOK
<1>4. \A p \in Thread : caller'[p] = caller[p] \/ caller'[p] = None
  BY <1>2, <1>3 DEF ResetCaller
<1>5. ASSUME NEW p \in Thread PROVE caller'[p] # t
  <2>1. SUFFICES ASSUME caller[p] = t PROVE caller'[p] = None
    BY <1>3, <1>4
  <2>2. reg[t].to = p /\ reg[t].from = p
    BY <2>1 DEF CapInv, CapOK
  <2>3. p # None
    BY <1>3
  <2>4. caller' = [caller EXCEPT ![p] = None]
    BY <1>2, <2>1, <2>2, <2>3 DEF ResetCaller
  <2>5. QED
    BY <1>3, <2>4
<1>6. ASSUME NEW p \in Thread, NEW u \in Thread PROVE CapOK(p, u)'
  <2>1. SUFFICES ASSUME caller'[p] = u PROVE CapOK(p, u)'
    BY DEF CapOK
  <2>2. caller[p] = u /\ u # t
    BY <1>3, <1>4, <1>5, <2>1
  <2>3. QED
    BY <1>1, <1>2, <2>2 DEF CapInv, CapOK, Stays
<1>7. QED
  BY <1>6 DEF CapInv

\* CapInv, action by action; only two transfers and remote_ipc_send() give capabilities.
LEMMA StepCap ==
  ASSUME QueueInv, CapInv, PickedStillWaits, NEW t \in Thread, Step(t) \/ DoIpc(t) \/ Outside(t)
  PROVE  CapInv'
<1>1. TypeInv /\ TypeOK /\ SendInv /\ PathOK(t)
  BY SendInvParts DEF QueueInv
<1>2. ASSUME NEW ok \in BOOLEAN, Copy(t, ok) PROVE CapInv'
  <2>1. /\ \A u \in Thread \ {t} : Stays(u)
        /\ pc[t] = "copy" /\ SameCall(t)
    BY <1>1, <1>2, CopyMoves DEF Goes, SameCall, Out
  <2>2. PICK p \in Thread : p = reg[t].to
    BY <1>1, <2>1, ToType
  <2>3. TransferMsg(t, p, reg[t].res = "open", ok)
    BY <1>2, <2>2 DEF Copy
  <2>4. pc[t] \notin Out /\ partner[t] = reg[t].from
    BY <1>1, <2>1 DEF PathOK, Before, Out
  <2>5. QED
    BY <1>1, <2>1, <2>2, <2>3, <2>4, CapGiven
<1>3. ASSUME NEW ok \in BOOLEAN, Pull(t, ok) PROVE CapInv'
  <2>1. /\ \A u \in Thread \ {t} : Stays(u)
        /\ pc[t] = "pull" /\ SameCall(t)
    BY <1>1, <1>3, PullMoves DEF Goes, SameCall, Out
  <2>2. PICK n \in Thread : n = reg[t].next
    BY <1>1, <2>1, ToType
  <2>3. TransferMsg(n, t, reg[t].from = Anyone, ok)
    BY <1>3, <2>2 DEF Pull
  <2>4. On(t, n)
    BY <2>1, <2>2 DEF PickedStillWaits, On
  <2>5. reg[n].to = t /\ pc[n] \in Waiting /\ PathOK(n)
    <3>1. SenderInv(n) /\ PathOK(n)
      BY <1>1, SendInvParts
    <3>2. QED
      BY <2>4, <3>1 DEF SenderInv, ListedOK, Waiting
  <2>6. pc[n] \notin Out /\ partner[n] = reg[n].from
    BY <2>5 DEF PathOK, Before, Out, Waiting
  <2>7. QED
    BY <1>1, <2>1, <2>3, <2>5, <2>6, CapGiven
<1>4. CASE RemoteIpcSend(t)
  <2>1. /\ \A u \in Thread \ {t} : Stays(u)
        /\ pc[t] = "drq" /\ SameCall(t) /\ drq[t] = "send"
    <3>1. drq[t] = "send" /\ Outside(t)
      BY <1>4, DrqSteps DEF Outside
    <3>2. pc[t] = "drq"
      BY <1>1, <3>1 DEF PathOK
    <3>3. QED
      BY <1>1, <3>1, <3>2, OutsideMoves DEF SameCall
  <2>2. PICK p \in Thread : p = reg[t].to
    BY <1>1, <2>1, ToType
  <2>3. CASE UNCHANGED <<caller, sent>>
    BY <1>1, <2>1, <2>3, CapKept
  <2>4. CASE \E open : TransferMsg(t, p, open, TRUE)
    <3>1. pc[t] \notin Out /\ partner[t] = reg[t].from
      BY <1>1, <2>1 DEF PathOK, Before, Out
    <3>2. QED
      BY <1>1, <2>1, <2>2, <2>4, <3>1, CapGiven
  <2>5. QED
    BY <1>4, <2>2, <2>3, <2>4, DrqSteps
<1>5. CASE \/ RemoteAbortSend(t) \/ TakeReply(t) \/ TakeChange(t)
           \/ WaitOn(t) \/ Expired(t) \/ Cancel(t) \/ PrepareKill(t)
  <2>1. (\A u \in Thread \ {t} : Stays(u)) /\ SameCall(t)
    BY <1>1, <1>5, OutsideMoves DEF Outside, SameCall
  <2>2. caller' = caller /\ sent' = sent
    BY <1>5 DEF RemoteAbortSend, TakeReply, TakeChange, WaitOn, Expired, Cancel,
       PrepareKill, history
  <2>3. QED
    BY <2>1, <2>2, CapKept
<1>6. CASE \/ HandshakeReceiver(t) \/ RemoteHandshakeReceiver(t) \/ RemoteAnswer(t)
           \/ Pick(t) \/ Activate(t) \/ Switched(t) \/ Receive(t) \/ Pulled(t) \/ WakeUp(t)
           \/ SendWaited(t) \/ Aborted(t)
  <2>1. (\A u \in Thread \ {t} : Stays(u)) /\ SameCall(t)
    <3>1. CASE HandshakeReceiver(t) \/ RemoteAnswer(t) \/ Pick(t) \/ Activate(t) \/ Switched(t)
      BY <1>1, <3>1, HandshakeMoves, RemoteAnswerMoves, PickMoves, ActivateMoves, SwitchedMoves
         DEF Goes, SameCall, Out
    <3>2. CASE Receive(t) \/ Pulled(t) \/ WakeUp(t) \/ Aborted(t)
      BY <1>1, <3>2, ReceiveMoves, PulledMoves, WakeUpMoves, AbortedMoves DEF Goes,
         SameCall, Out
    <3>3. CASE SendWaited(t) \/ RemoteHandshakeReceiver(t)
      BY <1>1, <3>3, SendWaitedMoves, RemoteHandshakeMoves DEF SameCall, Out
    <3>4. QED
      BY <1>6, <3>1, <3>2, <3>3
  <2>2. caller' = caller /\ sent' = sent
    BY <1>6 DEF HandshakeReceiver, RemoteHandshakeReceiver, RemoteAnswer, Pick, Activate,
                Switched, Receive, Pulled, WakeUp, SendWaited, Aborted, history
  <2>3. QED
    BY <2>1, <2>2, CapKept
<1>7. CASE DoKill(t) \/ AbortSender(t) \/ NoMoreSenders(t) \/ Dead(t)
  <2>1. (\A u \in Thread \ {t} : Stays(u)) /\ SameCall(t)
    BY <1>1, <1>7, KillMoves DEF SameCall, Out
  <2>2. caller' = caller /\ sent' = sent
    BY <1>7 DEF DoKill, AbortSender, NoMoreSenders, Dead, history
  <2>3. QED
    BY <2>1, <2>2, CapKept
<1>8. CASE DoIpc(t) \/ End(t)
  BY <1>1, <1>8, DoIpcCap, EndCap
<1>9. QED
  BY <1>2, <1>3, <1>4, <1>5, <1>6, <1>7, <1>8 DEF Step, Outside

-----------------------------------------------------------------------------
IpcInv == QueueInv /\ CapInv

LEMMA InitIpc == Init => IpcInv
<1>1. Init => CapInv
  BY IpcAssumption DEF Init, CapInv, CapOK
<1>2. QED
  BY <1>1, InitQueue DEF IpcInv

LEMMA NextIpc == IpcInv /\ PickedStillWaits /\ [Next]_vars => IpcInv'
<1> SUFFICES ASSUME IpcInv, PickedStillWaits, [Next]_vars PROVE IpcInv'
  OBVIOUS
<1>1. QueueInv'
  BY NextQueue DEF IpcInv
<1>2. CapInv'
  <2>1. CASE UNCHANGED vars
    BY <2>1 DEF IpcInv, CapInv, CapOK, vars, history
  <2>2. CASE Next
    <3>1. PICK t \in Thread : Step(t) \/ DoIpc(t) \/ Outside(t)
      BY <2>2 DEF Next, Drq, Outside
    <3>2. QED
      BY <3>1, StepCap DEF IpcInv
  <2>3. QED
    BY <2>1, <2>2
<1>3. QED
  BY <1>1, <1>2 DEF IpcInv

\* The invariant of the two theorems.
LEMMA IpcInvHolds == Spec /\ []PickedStillWaits => []IpcInv
<1>1. Init => IpcInv
  BY InitIpc
<1>2. IpcInv /\ PickedStillWaits /\ [Next]_vars => IpcInv'
  BY NextIpc
<1>3. QED
  BY <1>1, <1>2, PTL DEF Spec

\* Who sleeps in its receive phase alone has NoneWaits.
LEMMA NoneMissed == IpcInv => NoMissedRendezvous
<1> SUFFICES ASSUME IpcInv, NEW p \in Thread,
                    pc[p] = "asleep", st[p] \cap FullMask = {"receive_wait"}
             PROVE  /\ partner[p] = Anyone => senders[p] = <<>>
                    /\ partner[p] # Anyone => ~ Contains(senders[p], partner[p])
  BY DEF NoMissedRendezvous
<1>1. TypeOK /\ PathOK(p) /\ NoneWaits(p)
  BY SendInvParts DEF IpcInv, QueueInv
<1>2. Rw(p)
  BY DEF Rw, FullMask, IpcMask
<1>3. reg[p].next = None
  BY <1>1 DEF PathOK
<1>4. /\ partner[p] = Anyone => \A s \in Thread : ~ On(p, s)
      /\ partner[p] \in Thread => ~ On(p, partner[p])
  BY <1>1, <1>2, <1>3 DEF NoneWaits
<1>5. partner[p] = Anyone => senders[p] = <<>>
  BY <1>1, <1>4, ListEmpty
<1>6. ASSUME Contains(senders[p], partner[p]) PROVE partner[p] \in Thread
  <2>1. senders[p] \in Seq(Thread)
    BY <1>1 DEF TypeOK
  <2>2. QED
    BY <1>6, <2>1 DEF Contains
<1>7. QED
  BY <1>4, <1>5, <1>6 DEF On

\* One call of t is to one partner: one capability at most leads to t.
LEMMA CapsLive == IpcInv => ReplyCapIsLive
<1> SUFFICES ASSUME IpcInv, NEW p \in Thread, NEW t \in Thread, caller[p] = t
             PROVE  /\ pc[t] # "user" /\ reg[t].to = p /\ reg[t].from = p /\ sent[t]
                    /\ \A q \in Thread : caller[q] = t => q = p
  BY DEF ReplyCapIsLive
<1>1. pc[t] \notin Out /\ reg[t].to = p /\ reg[t].from = p /\ sent[t] = TRUE
  BY DEF IpcInv, CapInv, CapOK
<1>2. \A q \in Thread : caller[q] = t => reg[t].to = q
  BY DEF IpcInv, CapInv, CapOK
<1>3. QED
  BY <1>1, <1>2 DEF Out

(* get_next_sender() and goto_sleep() of a receiver, check_sender() and the   *)
(* enqueue of its senders: whatever the CPUs do in between, no receiver       *)
(* sleeps while a sender it would accept waits in its list, in every          *)
(* behaviour in which nobody takes the message of a sender that has gone.     *)
THEOREM RendezvousNotMissed == Spec /\ []PickedStillWaits => []NoMissedRendezvous
  BY IpcInvHolds, NoneMissed, PTL

-----------------------------------------------------------------------------
(* What a thread has sent and received at each place of do_ipc(), and what a *)
(* sender in the middle of a transfer owes to its receiver.                  *)

\* Flags once the changes that wait for t are made.

Eff(t) == Change(st[t], t)

\* What t is in, whether it has been refused, and whether its call waits for a
\* transfer that goes on.
Ph(t) == Eff(t) \cap IpcMask
Refused(t) == "transfer_failed" \in Eff(t)
Tr(t) == "transfer" \in st[t]
TrEnds(t) == "transfer" \in chg[t].del
RwIn(t) == "receive_wait" \in st[t]
Listed1(t) == \E p \in Thread : On(p, t)

Received == {"receive_wait"}
Sending == {"send_wait"}
Taking == {"receive_in_progress"}

\* The send phase of t is over, and its receive phase has begun.
After == {"pick", "activate", "switched", "receive", "pull", "pulled", "asleep", "transfer", "end"}
Past(t) == pc[t] \in After \/ (pc[t] \in Waiting /\ sent[t] = TRUE)

\* s is in the middle of a transfer to p; and p does not leave its call before
\* s lets it go.
Transfers(s, p) ==
    /\ reg[s].to = p
    /\ \/ pc[s] = "copy"
       \/ pc[s] = "drq" /\ drq[s] # "send" /\ reg[s].res \in {"open", "closed"}
Owes(s, p) == \/ Transfers(s, p)
              \/ reg[s].to = p /\ pc[s] \in {"pick", "activate"} /\ reg[s].activate = TRUE
Busy(p) == \E s \in Thread : Transfers(s, p)

CanTake(t) == reg[t].from # None /\ reg[t].ok = TRUE

OutOK(t) == pc[t] \in Out => Ph(t) = {} /\ ~ Pending(t) /\ ~ Tr(t)

StillWaits(t) == Refused(t) \/ (Listed1(t) /\ reg[t].ok = TRUE)

UnsentOK(t) ==
    pc[t] \notin Out /\ ~ Past(t) =>
    /\ sent[t] = FALSE /\ got[t] = FALSE /\ ~ Tr(t)
    /\ Ph(t) = {} \/ Ph(t) = Sending
    /\ pc[t] \in {"send", "copy"} => Ph(t) = {} /\ reg[t].ok = TRUE
    /\ pc[t] = "drq" /\ drq[t] = "send" => reg[t].ok = TRUE /\ Ph(t) = Sending
    /\ pc[t] = "drq" /\ drq[t] # "send" =>
          \/ reg[t].res = "failed"
          \/ reg[t].res \in {"open", "closed"} /\ reg[t].ok = TRUE /\ Ph(t) = {}
          \/ reg[t].res = "queued" /\ Ph(t) = Sending /\ StillWaits(t)
    /\ pc[t] = "sendWait" => Ph(t) = Sending /\ StillWaits(t)
    /\ pc[t] = "abort" => /\ Ph(t) = {}
                          /\ \/ drq[t] = "abort" /\ StillWaits(t)
                             \/ drq[t] # "abort" /\ reg[t].res = "cancel"

SentOK(t) ==
    pc[t] \in Waiting /\ sent[t] = TRUE =>
    /\ reg[t].ok = TRUE /\ ~ Refused(t)
    /\ pc[t] = "drq" => drq[t] # "send" /\ reg[t].res \in {"done", "queued"}
    /\ pc[t] = "abort" => drq[t] = "abort" \/ reg[t].res = "done"

ReceiveOK(t) ==
    Past(t) =>
    /\ Ph(t) = {} \/ Ph(t) = Received \/ Ph(t) = Taking
    /\ Ph(t) = Received => CanTake(t) /\ got[t] = FALSE
    /\ Ph(t) = Taking => CanTake(t)
    /\ pc[t] \in {"pull", "pulled"} <=> Ph(t) = Taking
    /\ pc[t] = "pull" => got[t] = FALSE
    /\ pc[t] = "pulled" => (got[t] = TRUE <=> reg[t].tag # "error")
    /\ Ph(t) = {} /\ CanTake(t) => Busy(t) \/ (got[t] = TRUE <=> reg[t].tag # "error")
    /\ ~ CanTake(t) => got[t] = FALSE

Picked == {"activate", "switched", "receive", "pull"}

AfterOK(t) ==
    pc[t] \in After =>
    /\ ~ Pending(t)
    /\ reg[t].to # None => sent[t] = reg[t].ok
    /\ reg[t].to = None => sent[t] = FALSE /\ reg[t].ok = TRUE
    /\ pc[t] \in Picked /\ reg[t].next # None =>
          partner[t] = reg[t].next /\ (pc[t] # "pull" => Ph(t) = Received)

TransferOK(t) ==
    /\ Tr(t) => Past(t) /\ Ph(t) = {}
    /\ TrEnds(t) => Pending(t) \/ Tr(t)
    /\ Pending(t) => ~ RwIn(t)
    /\ pc[t] \in {"send", "copy"} \cup Waiting => reg[t].activate # TRUE
    /\ drq[t] = "abort" => reg[t].to # t
    /\ Listed1(t) => sent[t] = FALSE

OwesOK(s, t) ==
    Owes(s, t) =>
    /\ s # t /\ Past(t) /\ Ph(t) = {} /\ ~ Pending(t) /\ Tr(t) /\ ~ TrEnds(t)
    /\ CanTake(t) /\ reg[t].from \in {s, Anyone}
    /\ Transfers(s, t) => got[t] = FALSE
    /\ \A u \in Thread : Owes(u, t) => u = s

ThreadOK(t) == OutOK(t) /\ UnsentOK(t) /\ SentOK(t) /\ ReceiveOK(t) /\ AfterOK(t) /\ TransferOK(t)

\* A call that does not send receives.
CallsOK == \A t \in Thread : \A i \in DOMAIN calls[t] :
              {calls[t][i].to, calls[t][i].from} # {None}

MeetInv == QueueInv /\ CallsOK /\ \A t \in Thread : ThreadOK(t) /\ \A s \in Thread : OwesOK(s, t)

\* Flags that are about IPC, now and once the changes are made.
LEMMA EffIs ==
  ASSUME TypeOK, NEW t \in Thread
  PROVE  /\ ~ Pending(t) => Ph(t) = st[t] \cap IpcMask /\ (Refused(t) <=> Tf(t))
         /\ "send_wait" \in Ph(t) => Sw(t)
         /\ Refused(t) <=> Tf(t) \/ "transfer_failed" \in chg[t].add
         /\ st[t] \in SUBSET Flag /\ chg[t] \in Changes
<1>1. chg[t] \in Changes /\ st[t] \in SUBSET Flag
  BY DEF TypeOK
<1>2. chg[t].del \subseteq IpcMask \cup {"transfer"}
      /\ chg[t].add \subseteq {"ready", "receive_wait", "transfer_failed"}
  BY <1>1 DEF Changes
<1>3. Refused(t) <=> Tf(t) \/ "transfer_failed" \in chg[t].add
  BY <1>2 DEF Refused, Eff, Change, Tf, IpcMask
<1>4. "send_wait" \in Ph(t) => Sw(t)
  BY <1>2 DEF Ph, Eff, Change, Sw
<1>5. ASSUME ~ Pending(t) PROVE Ph(t) = st[t] \cap IpcMask /\ (Refused(t) <=> Tf(t))
  BY <1>2, <1>3, <1>5 DEF Ph, Eff, Change, Pending
<1>6. QED
  BY <1>1, <1>3, <1>4, <1>5

\* u is where it was; the answer to its DRQ may have been taken.
Remains(u) ==
    /\ pc'[u] = pc[u] /\ partner'[u] = partner[u]
    /\ drq'[u] = "send" <=> drq[u] = "send"
    /\ drq'[u] = "abort" <=> drq[u] = "abort"
    /\ reg'[u].to = reg[u].to /\ reg'[u].from = reg[u].from
    /\ reg'[u].next = reg[u].next /\ reg'[u].res = reg[u].res

\* What a thread has done and is about to do is not touched.
Steady(u) ==
    /\ Remains(u) /\ sent'[u] = sent[u] /\ got'[u] = got[u]
    /\ reg'[u].ok = reg[u].ok /\ reg'[u].tag = reg[u].tag /\ reg'[u].activate = reg[u].activate
    /\ Ph(u)' = Ph(u) /\ (Refused(u)' <=> Refused(u))
    /\ Pending(u)' => Pending(u) /\ (RwIn(u)' => RwIn(u))
    /\ Tr(u)' => Tr(u)
    /\ TrEnds(u)' => \/ Tr(u)'
                     \/ TrEnds(u) /\ (Pending(u)' <=> Pending(u)) /\ (Tr(u)' <=> Tr(u))

\* ... and it is not let go.
Calm(u) == Steady(u) /\ (Tr(u) /\ ~ TrEnds(u) => Tr(u)' /\ ~ TrEnds(u)')

LEMMA StaysRemains ==
  ASSUME NEW u \in Thread, Stays(u)
  PROVE  Remains(u)
  BY DEF Stays, Remains

LEMMA SteadyThread ==
  ASSUME NEW u \in Thread, ThreadOK(u), Steady(u), Listed1(u)' <=> Listed1(u), Busy(u) => Busy(u)'
  PROVE  ThreadOK(u)'
<1>1. Past(u)' <=> Past(u)
  BY DEF Past, Steady, Remains
<1>2. OutOK(u)'
  BY DEF ThreadOK, OutOK, Steady, Remains
<1>3. UnsentOK(u)'
  BY <1>1 DEF ThreadOK, UnsentOK, Steady, Remains, StillWaits
<1>4. SentOK(u)'
  BY DEF ThreadOK, SentOK, Steady, Remains
<1>5. ReceiveOK(u)'
  BY <1>1 DEF ThreadOK, ReceiveOK, Steady, Remains, CanTake
<1>6. AfterOK(u)'
  BY DEF ThreadOK, AfterOK, Steady, Remains
<1>7. TransferOK(u)'
  BY <1>1 DEF ThreadOK, TransferOK, Steady, Remains
<1>8. QED
  BY <1>2, <1>3, <1>4, <1>5, <1>6, <1>7 DEF ThreadOK

LEMMA CalmOwes ==
  ASSUME NEW u \in Thread, \A s \in Thread : OwesOK(s, u), Calm(u),
         \A s \in Thread : (Owes(s, u)' => Owes(s, u)) /\ (Transfers(s, u)' => Transfers(s, u))
  PROVE  \A s \in Thread : OwesOK(s, u)'
<1>1. Past(u)' <=> Past(u)
  BY DEF Past, Calm, Steady, Remains
<1>2. CanTake(u)' <=> CanTake(u)
  BY DEF CanTake, Calm, Steady, Remains
<1>3. QED
  BY <1>1, <1>2 DEF OwesOK, Calm, Steady, Remains

\* s owes what it owed.
OwesSame(s) == \A p \in Thread : (Owes(s, p)' <=> Owes(s, p)) /\ (Transfers(s, p)' <=> Transfers(s, p))

LEMMA StaysOwes ==
  ASSUME NEW s \in Thread, Remains(s), reg'[s].activate = reg[s].activate
  PROVE  OwesSame(s)
  BY DEF OwesSame, Owes, Transfers, Remains

LEMMA QuietFlags ==
  ASSUME TypeOK, NEW u \in Thread, chg'[u] = chg[u],
         st'[u] \cap (IpcMask \cup {"transfer_failed", "transfer"}) =
            st[u] \cap (IpcMask \cup {"transfer_failed", "transfer"})
  PROVE  /\ Ph(u)' = Ph(u) /\ (Refused(u)' <=> Refused(u)) /\ (Pending(u)' <=> Pending(u))
         /\ (Tr(u)' <=> Tr(u)) /\ (TrEnds(u)' <=> TrEnds(u)) /\ (RwIn(u)' <=> RwIn(u))
<1>1. (Tr(u)' <=> Tr(u)) /\ (TrEnds(u)' <=> TrEnds(u)) /\ (RwIn(u)' <=> RwIn(u))
      /\ (Pending(u)' <=> Pending(u))
  BY DEF Tr, TrEnds, RwIn, Pending, IpcMask
<1>2. Ph(u)' = Ph(u)
  BY DEF Ph, Eff, Change
<1>3. Refused(u)' <=> Refused(u)
  BY DEF Refused, Eff, Change
<1>4. QED
  BY <1>1, <1>2, <1>3

\* The locals of u, and what it has sent and received, are not touched.
SameRegs(u) == reg'[u] = reg[u] /\ sent'[u] = sent[u] /\ got'[u] = got[u]

LEMMA QuietCalm ==
  ASSUME TypeOK, NEW u \in Thread, Remains(u), SameRegs(u), chg'[u] = chg[u],
         st'[u] \cap (IpcMask \cup {"transfer_failed", "transfer"}) =
            st[u] \cap (IpcMask \cup {"transfer_failed", "transfer"})
  PROVE  Calm(u)
  BY QuietFlags DEF Calm, Steady, SameRegs

\* handle_remote_state_change() of u.
LEMMA ChangesCalm ==
  ASSUME TypeOK, NEW u \in Thread, Remains(u), SameRegs(u),
         chg'[u] = NoChange,
         st'[u] \cap (IpcMask \cup {"transfer_failed", "transfer"}) =
            Change(st[u], u) \cap (IpcMask \cup {"transfer_failed", "transfer"})
  PROVE  Calm(u) /\ ~ Pending(u)'
<1>1. ~ Pending(u)' /\ ~ TrEnds(u)'
  BY DEF Pending, TrEnds, NoChange
<1>2. Eff(u)' = st'[u]
  BY DEF Eff, Change, NoChange
<1>3. Ph(u)' = Ph(u) /\ (Refused(u)' <=> Refused(u))
  BY <1>2 DEF Ph, Eff, Refused
<1>4. Tr(u)' <=> Tr(u) /\ ~ TrEnds(u)
  <2>1. chg[u].add \subseteq {"ready", "receive_wait", "transfer_failed"}
    BY DEF TypeOK, Changes
  <2>2. QED
    BY <2>1 DEF Tr, TrEnds, Change
<1>5. QED
  BY <1>1, <1>3, <1>4 DEF Calm, Steady, SameRegs

\* xcpu_state_change() of x: its flags and changes.
LEMMA XcpuPoint ==
  ASSUME NEW f \in [Thread -> SUBSET Flag], NEW g \in [Thread -> Changes],
         NEW t, NEW x \in Thread, NEW del, NEW add,
         XcpuStateChange(t, x, del, add, f, g)
  PROVE  /\ \A u \in Thread \ {x} : st'[u] = f[u] /\ chg'[u] = g[u]
         /\ \/ /\ Local(t, x)
               /\ st'[x] = (f[x] \ del) \cup add /\ chg'[x] = g[x]
            \/ /\ ~ Local(t, x)
               /\ st'[x] = f[x]
               /\ chg'[x].del = (g[x].del \ add) \cup del
               /\ chg'[x].add = (g[x].add \ del) \cup add
<1>1. CASE Local(t, x)
  BY <1>1 DEF XcpuStateChange
<1>2. CASE ~ Local(t, x)
  BY <1>2 DEF XcpuStateChange
<1>3. QED
  BY <1>1, <1>2

\* ... seen once the changes are made, on its own CPU and on another.
LEMMA LocalEff ==
  ASSUME TypeOK, NEW x \in Thread, NEW del \in SUBSET Flag,
         NEW add \in SUBSET {"ready", "receive_wait", "transfer_failed"},
         ~ Pending(x), st'[x] = (st[x] \ del) \cup add, chg'[x] = chg[x]
  PROVE  /\ Ph(x)' = ((Ph(x) \ del) \cup add) \cap IpcMask
         /\ Refused(x)' <=> (Refused(x) /\ "transfer_failed" \notin del) \/ "transfer_failed" \in add
         /\ Tr(x)' <=> Tr(x) /\ "transfer" \notin del
         /\ TrEnds(x)' <=> TrEnds(x)
         /\ ~ Pending(x)'
<1>1. chg[x].del \subseteq IpcMask \cup {"transfer"}
      /\ chg[x].add \subseteq {"ready", "receive_wait", "transfer_failed"}
  BY DEF TypeOK, Changes
<1>2. chg[x].del \subseteq {"transfer"} /\ chg[x].add \subseteq {"ready"}
  BY <1>1 DEF Pending, IpcMask
<1>3. Ph(x)' = ((Ph(x) \ del) \cup add) \cap IpcMask
  BY <1>2 DEF Ph, Eff, Change, IpcMask
<1>4. Refused(x)' <=> (Refused(x) /\ "transfer_failed" \notin del) \/ "transfer_failed" \in add
  BY <1>2 DEF Refused, Eff, Change
<1>5. (Tr(x)' <=> Tr(x) /\ "transfer" \notin del) /\ (TrEnds(x)' <=> TrEnds(x)) /\ ~ Pending(x)'
  BY DEF Tr, TrEnds, Pending
<1>6. QED
  BY <1>3, <1>4, <1>5

LEMMA RemoteEff ==
  ASSUME TypeOK, NEW x \in Thread, NEW del \in SUBSET Flag,
         NEW add \in SUBSET {"ready", "receive_wait", "transfer_failed"},
         ~ Pending(x), st'[x] = st[x],
         chg'[x].del = (chg[x].del \ add) \cup del, chg'[x].add = (chg[x].add \ del) \cup add
  PROVE  /\ Ph(x)' = ((Ph(x) \ del) \cup add) \cap IpcMask
         /\ Refused(x)' <=> (Refused(x) /\ "transfer_failed" \notin del) \/ "transfer_failed" \in add
         /\ (Tr(x)' <=> Tr(x)) /\ (RwIn(x)' <=> RwIn(x))
         /\ TrEnds(x)' <=> TrEnds(x) \/ "transfer" \in del
         /\ Pending(x)' <=> (del \cup add) \cap (IpcMask \cup {"transfer_failed"}) # {}
<1>1. chg[x].del \subseteq IpcMask \cup {"transfer"}
      /\ chg[x].add \subseteq {"ready", "receive_wait", "transfer_failed"}
  BY DEF TypeOK, Changes
<1>2. chg[x].del \subseteq {"transfer"} /\ chg[x].add \subseteq {"ready"}
  BY <1>1 DEF Pending, IpcMask
<1>3. Ph(x)' = ((Ph(x) \ del) \cup add) \cap IpcMask
  BY <1>2 DEF Ph, Eff, Change, IpcMask
<1>4. Refused(x)' <=> (Refused(x) /\ "transfer_failed" \notin del) \/ "transfer_failed" \in add
  BY <1>2 DEF Refused, Eff, Change
<1>5. (Tr(x)' <=> Tr(x)) /\ (RwIn(x)' <=> RwIn(x))
  BY DEF Tr, RwIn
<1>6. TrEnds(x)' <=> TrEnds(x) \/ "transfer" \in del
  BY DEF TrEnds
<1>7. Pending(x)' <=> (del \cup add) \cap (IpcMask \cup {"transfer_failed"}) # {}
  BY <1>2 DEF Pending, IpcMask
<1>8. QED
  BY <1>3, <1>4, <1>5, <1>6, <1>7

MeetOK == \A u \in Thread : ThreadOK(u) /\ \A s \in Thread : OwesOK(s, u)

\* MeetOK after a step of t: each thread is left as it was, or looked at on its own.
Left1(t, u) == /\ Calm(u) /\ (Listed1(u)' <=> Listed1(u))
               /\ Owes(t, u)' => Owes(t, u)
               /\ Transfers(t, u)' <=> Transfers(t, u)
Looked(u) == ThreadOK(u)' /\ \A s \in Thread : OwesOK(s, u)'

LEMMA Assemble ==
  ASSUME MeetOK, NEW t \in Thread,
         \A s \in Thread \ {t} : OwesSame(s),
         \A u \in Thread : Left1(t, u) \/ Looked(u)
  PROVE  MeetOK'
<1>1. ASSUME NEW u \in Thread, Left1(t, u)
      PROVE  ThreadOK(u)' /\ \A s \in Thread : OwesOK(s, u)'
  <2>1. ThreadOK(u) /\ \A s \in Thread : OwesOK(s, u)
    BY DEF MeetOK
  <2>2. \A s \in Thread : (Owes(s, u)' => Owes(s, u)) /\ (Transfers(s, u)' <=> Transfers(s, u))
    BY <1>1 DEF OwesSame, Left1
  <2>3. Busy(u) => Busy(u)'
    BY <2>2 DEF Busy
  <2>4. Calm(u) /\ Steady(u)
    BY <1>1 DEF Calm, Left1
  <2>5. QED
    BY <1>1, <2>1, <2>2, <2>3, <2>4, SteadyThread, CalmOwes DEF Left1
<1>2. QED
  BY <1>1 DEF MeetOK, Looked

\* A step does nothing to u.
Untouched(u) == Stays(u) /\ SameRegs(u) /\ st'[u] = st[u] /\ chg'[u] = chg[u]

\* ... and does nothing to anybody but t.
Alone(t) == /\ \A u \in Thread \ {t} : Untouched(u) /\ (Listed1(u)' <=> Listed1(u))
            /\ OwesSame(t)

LEMMA AloneMeets ==
  ASSUME TypeOK, MeetOK, NEW t \in Thread, Alone(t),
         ThreadOK(t)', \A s \in Thread : OwesOK(s, t)'
  PROVE  MeetOK'
<1>1. ASSUME NEW u \in Thread \ {t}
      PROVE  Calm(u) /\ OwesSame(u)
  <2>1. Calm(u)
    BY QuietCalm, StaysRemains DEF Alone, Untouched
  <2>2. OwesSame(u)
    BY StaysOwes, StaysRemains DEF Alone, Untouched, SameRegs
  <2>3. QED
    BY <2>1, <2>2
<1>2. \A u \in Thread \ {t} : Left1(t, u)
  BY <1>1 DEF Alone, OwesSame, Left1
<1>3. Looked(t)
  BY DEF Looked
<1>4. QED
  BY <1>1, <1>2, <1>3, Assemble

\* Who is owed a transfer is still owed it.
LEMMA OwedOn ==
  ASSUME NEW t \in Thread, \A s \in Thread : OwesOK(s, t),
         Past(t) => Past(t)', Ph(t)' = Ph(t), Pending(t)' => Pending(t),
         Tr(t) /\ ~ TrEnds(t) => Tr(t)' /\ ~ TrEnds(t)',
         reg'[t].from = reg[t].from, reg'[t].ok = reg[t].ok, got'[t] = got[t],
         \A s \in Thread : (Owes(s, t)' => Owes(s, t)) /\ (Transfers(s, t)' => Transfers(s, t))
  PROVE  \A s \in Thread : OwesOK(s, t)'
<1>1. CanTake(t)' <=> CanTake(t)
  BY DEF CanTake
<1>2. QED
  BY <1>1 DEF OwesOK

\* Nobody owes a transfer to one who does not receive.
LEMMA NotOwed ==
  ASSUME NEW t \in Thread, \A s \in Thread : OwesOK(s, t),
         \A s \in Thread : Owes(s, t)' => Owes(s, t),
         ~ (Past(t) /\ Ph(t) = {} /\ ~ Pending(t) /\ Tr(t))
  PROVE  \A s \in Thread : OwesOK(s, t)'
<1>1. \A s \in Thread : ~ Owes(s, t)
  BY DEF OwesOK
<1>2. QED
  BY <1>1 DEF OwesOK

\* t goes on to, or in, its receive phase.
LEMMA GoesAfter ==
  ASSUME NEW t \in Thread, ThreadOK(t), Past(t), ToOK(t),
         pc'[t] \in After \ {"pull", "pulled"}, drq'[t] = "none",
         Ph(t)' = Ph(t), Ph(t) # Taking, ~ Pending(t)', Tr(t)' <=> Tr(t), TrEnds(t)' => Tr(t)',
         reg'[t].to = reg[t].to, reg'[t].from = reg[t].from, reg'[t].ok = reg[t].ok,
         reg'[t].tag = reg[t].tag, sent'[t] = sent[t], got'[t] = got[t],
         pc'[t] \in Picked /\ reg'[t].next # None => partner'[t] = reg'[t].next /\ Ph(t) = Received,
         Listed1(t)' => Listed1(t), Busy(t) => Busy(t)'
  PROVE  ThreadOK(t)'
<1>1. Past(t)' /\ pc'[t] \notin Out /\ pc'[t] \notin Waiting
  BY DEF Past, After, Out, Waiting
<1>2. OutOK(t)' /\ UnsentOK(t)' /\ SentOK(t)'
  BY <1>1 DEF OutOK, UnsentOK, SentOK
<1>3. ReceiveOK(t)'
  BY <1>1 DEF ThreadOK, ReceiveOK, CanTake
<1>4. AfterOK(t)'
  <2>1. /\ reg[t].to # None => sent[t] = reg[t].ok
        /\ reg[t].to = None => sent[t] = FALSE /\ reg[t].ok = TRUE
    BY DEF ThreadOK, AfterOK, SentOK, Past, Waiting, ToOK
  <2>2. QED
    BY <2>1 DEF AfterOK
<1>5. TransferOK(t)'
  BY <1>1 DEF ThreadOK, TransferOK, Past, Waiting, After
<1>6. QED
  BY <1>2, <1>3, <1>4, <1>5 DEF ThreadOK

-----------------------------------------------------------------------------
\* Steps of t that touch nobody else.

\* MeetOK, for one thread.
LEMMA MeetParts ==
  ASSUME SendInv, MeetOK, NEW t \in Thread
  PROVE  /\ ThreadOK(t) /\ OutOK(t) /\ UnsentOK(t) /\ SentOK(t) /\ ReceiveOK(t) /\ AfterOK(t)
         /\ TransferOK(t) /\ (\A s \in Thread : OwesOK(s, t)) /\ ToOK(t)
         /\ st \in [Thread -> SUBSET Flag] /\ reg \in [Thread -> Locals] /\ pc \in [Thread -> Labels]
         /\ sent \in [Thread -> BOOLEAN] /\ got \in [Thread -> BOOLEAN]
         /\ TypeInv /\ TypeOK /\ SenderInv(t) /\ PathOK(t)
  BY SendInvParts DEF MeetOK, ThreadOK, TypeOK, TypeInv

LEMMA SameListed ==
  ASSUME senders' = senders
  PROVE  \A u \in Thread : Listed1(u)' <=> Listed1(u)
  BY DEF Listed1, On

\* Flags of the scheduler, the timeout and the cancel of t.
LEMMA PlainMeets ==
  ASSUME SendInv, MeetOK, NEW t \in Thread, WaitOn(t) \/ Expired(t) \/ Cancel(t) \/ PrepareKill(t)
  PROVE  MeetOK'
<1>1. /\ \A u \in Thread : Stays(u)
      /\ reg' = reg /\ sent' = sent /\ got' = got /\ senders' = senders /\ chg' = chg
  BY DEF WaitOn, Expired, Cancel, PrepareKill, Stays, history
<1>2. /\ \A u \in Thread \ {t} : st'[u] = st[u]
      /\ st'[t] \cap (IpcMask \cup {"transfer_failed", "transfer"}) =
            st[t] \cap (IpcMask \cup {"transfer_failed", "transfer"})
  <2>1. st' = st \/ \E F \in SUBSET {"ready", "timeout", "cancel", "dying"} :
                       st' = [st EXCEPT ![t] = @ \cup F] \/ st' = [st EXCEPT ![t] = @ \ {"ready"}]
    BY DEF WaitOn, Expired, Cancel, PrepareKill
  <2>2. st \in [Thread -> SUBSET Flag]
    BY MeetParts
  <2>3. QED
    BY <2>1, <2>2 DEF IpcMask
<1>3. \A u \in Thread : Calm(u)
  <2>1. ASSUME NEW u \in Thread PROVE Calm(u)
    <3>1. st'[u] \cap (IpcMask \cup {"transfer_failed", "transfer"}) =
            st[u] \cap (IpcMask \cup {"transfer_failed", "transfer"})
      BY <1>2
    <3>2. QED
      BY <1>1, <3>1, QuietCalm, StaysRemains, MeetParts DEF SameRegs
  <2>2. QED
    BY <2>1
<1>4. \A s \in Thread : OwesSame(s)
  BY <1>1, StaysOwes, StaysRemains
<1>5. \A u \in Thread : Listed1(u)' <=> Listed1(u)
  BY <1>1, SameListed
<1>6. QED
  BY <1>3, <1>4, <1>5, Assemble DEF OwesSame, Left1

\* Who looks for a sender and takes one for its partner.
LEMMA PickMeets ==
  ASSUME SendInv, MeetOK, NEW t \in Thread, Pick(t) \/ Switched(t)
  PROVE  MeetOK'
<1>1. ThreadOK(t) /\ AfterOK(t) /\ ReceiveOK(t) /\ TransferOK(t) /\ TypeInv /\ TypeOK /\ PathOK(t)
      /\ ToOK(t) /\ pc \in [Thread -> Labels]
  BY MeetParts
<1>2. /\ pc[t] \in {"pick", "switched"} /\ GetNextSender(t)
      /\ pc' = [pc EXCEPT ![t] = IF pc[t] = "pick" /\ reg[t].activate THEN "activate" ELSE "receive"]
      /\ UNCHANGED <<st, chg, senders, drq, sent, got>>
  BY DEF Pick, Switched, At, Goto, flags, history
<1>3. /\ \A u \in Thread :
               /\ reg'[u].to = reg[u].to /\ reg'[u].from = reg[u].from
               /\ reg'[u].items = reg[u].items
               /\ reg'[u].activate = reg[u].activate /\ reg'[u].res = reg[u].res
               /\ reg'[u].ok = reg[u].ok /\ reg'[u].tag = reg[u].tag
               /\ u # t => reg'[u].next = reg[u].next
      /\ reg'[t].next = IF "receive_wait" \in st[t] /\ reg[t].next = None
                           THEN NextSender(t) ELSE reg[t].next
      /\ partner' = IF reg'[t].next # None /\ reg[t].from = Anyone
                       THEN [partner EXCEPT ![t] = reg'[t].next] ELSE partner
  BY <1>1, <1>2, GetNextSenderEffect
<1>4. \A u \in Thread \ {t} : Untouched(u)
  <2>1. ASSUME NEW u \in Thread \ {t} PROVE reg'[u] = reg[u]
    <3>1. PICK n : reg' = [reg EXCEPT ![t].next = n]
      BY <1>2 DEF GetNextSender
    <3>2. QED
      BY <1>1, <3>1 DEF TypeOK
  <2>2. \A u \in Thread \ {t} : Stays(u)
    BY <1>1, PickMoves, SwitchedMoves
  <2>3. QED
    BY <1>2, <2>1, <2>2 DEF Untouched, SameRegs
<1>5. /\ Ph(t)' = Ph(t) /\ (Pending(t)' <=> Pending(t))
      /\ (Tr(t)' <=> Tr(t)) /\ (TrEnds(t)' <=> TrEnds(t))
  BY <1>1, <1>2, QuietFlags
<1>6. ~ Pending(t) /\ Past(t) /\ Ph(t) # Taking /\ drq[t] = "none"
  BY <1>1, <1>2 DEF AfterOK, After, Past, ReceiveOK, ToOK
<1>7. pc'[t] \in {"activate", "receive"}
      /\ (pc'[t] = "activate" <=> pc[t] = "pick" /\ reg[t].activate)
  BY <1>1, <1>2
<1>8. OwesSame(t)
  <2>1. reg[t].activate \in BOOLEAN
    BY <1>1, ToType, LocalTypes
  <2>2. QED
    BY <1>2, <1>3, <1>7, <2>1 DEF OwesSame, Owes, Transfers
<1>9. \A u \in Thread : OwesSame(u) /\ (Listed1(u)' <=> Listed1(u))
  BY <1>2, <1>4, <1>8, StaysOwes, StaysRemains, SameListed DEF Untouched, SameRegs
<1>10. reg'[t].next # None => partner'[t] = reg'[t].next /\ Ph(t) = Received
  <2>1. SUFFICES ASSUME reg'[t].next # None
                 PROVE  partner'[t] = reg'[t].next /\ Ph(t) = Received
    OBVIOUS
  <2>2. CASE reg[t].next # None
    <3>1. pc[t] = "switched"
      BY <1>1, <1>2, <2>2 DEF PathOK, Before
    <3>2. partner[t] = reg[t].next /\ Ph(t) = Received
      BY <1>1, <2>2, <3>1 DEF AfterOK, After, Picked
    <3>3. QED
      BY <1>1, <1>3, <2>2, <3>2 DEF TypeOK
  <2>3. CASE reg[t].next = None
    <3>1. "receive_wait" \in st[t] /\ reg'[t].next = NextSender(t)
      BY <1>3, <2>1, <2>3
    <3>2. "receive_wait" \in Ph(t)
      BY <1>1, <1>6, <3>1, EffIs DEF IpcMask
    <3>3. Ph(t) = Received
      BY <1>1, <1>6, <3>2 DEF ReceiveOK, Received, Taking
    <3>4. partner'[t] = reg'[t].next
      <4>1. CASE reg[t].from = Anyone
        BY <1>1, <1>3, <2>1, <4>1 DEF TypeOK
      <4>2. CASE reg[t].from # Anyone
        <5>1. NextSender(t) = reg[t].from
          BY <2>1, <3>1, <4>2 DEF NextSender
        <5>2. partner[t] = reg[t].from
          BY <1>1, <1>2, <2>3, <4>2 DEF PathOK, Out
        <5>3. QED
          BY <1>3, <3>1, <4>2, <5>1, <5>2
      <4>3. QED
        BY <4>1, <4>2
    <3>5. QED
      BY <3>3, <3>4
  <2>4. QED
    BY <2>2, <2>3
<1>11. Busy(t) => Busy(t)'
  BY <1>9 DEF Busy, OwesSame
<1>12. ThreadOK(t)'
  <2>1. pc'[t] \in After \ {"pull", "pulled"}
    BY <1>7 DEF After
  <2>2. TrEnds(t)' => Tr(t)'
    BY <1>1, <1>5, <1>6 DEF TransferOK
  <2>3. sent'[t] = sent[t] /\ got'[t] = got[t] /\ drq'[t] = "none" /\ ~ Pending(t)'
    BY <1>2, <1>5, <1>6
  <2>4. Listed1(t)' => Listed1(t)
    BY <1>9
  <2>5. QED
    BY <1>1, <1>3, <1>5, <1>6, <1>10, <1>11, <2>1, <2>2, <2>3, <2>4, GoesAfter
<1>13. \A s \in Thread : OwesOK(s, t)'
  <2>1. \A s \in Thread : OwesOK(s, t)
    BY MeetParts
  <2>2. Past(t)'
    BY <1>7 DEF Past, After
  <2>3. \A s \in Thread : (Owes(s, t)' => Owes(s, t)) /\ (Transfers(s, t)' => Transfers(s, t))
    BY <1>9 DEF OwesSame
  <2>4. got'[t] = got[t]
    BY <1>2
  <2>5. QED
    BY <1>3, <1>5, <2>1, <2>2, <2>3, <2>4, OwedOn
<1>14. Alone(t)
  BY <1>4, <1>8, <1>9 DEF Alone
<1>15. QED
  BY <1>1, <1>12, <1>13, <1>14, AloneMeets

\* The step of t says nothing of the others.
LEMMA Mine ==
  ASSUME TypeOK, NEW t \in Thread, NEW F, \A u \in Thread \ {t} : Stays(u),
         st' = st \/ st' = [st EXCEPT ![t] = F], chg' = chg,
         \A u \in Thread \ {t} : SameRegs(u)
  PROVE  \A u \in Thread \ {t} : Untouched(u)
  BY DEF Untouched, TypeOK

\* t has failed to send.
LEMMA GivesUp ==
  ASSUME NEW t \in Thread, pc'[t] = "end", drq'[t] = "none",
         reg'[t].to # None, reg'[t].ok = FALSE,
         sent'[t] = FALSE, got'[t] = FALSE,
         Ph(t)' = {}, ~ Pending(t)', ~ Tr(t)', ~ TrEnds(t)'
  PROVE  ThreadOK(t)'
<1>1. Past(t)' /\ pc'[t] \notin Out /\ pc'[t] \notin Waiting
  BY DEF Past, After, Out, Waiting
<1>2. OutOK(t)' /\ UnsentOK(t)' /\ SentOK(t)'
  BY <1>1 DEF OutOK, UnsentOK, SentOK
<1>3. ReceiveOK(t)'
  BY DEF ReceiveOK, CanTake, Received, Taking
<1>4. AfterOK(t)' /\ TransferOK(t)'
  BY <1>1 DEF AfterOK, TransferOK, Picked
<1>5. QED
  BY <1>2, <1>3, <1>4 DEF ThreadOK

\* t does not wait, is not in a transfer of its own, and owes nothing.
LEMMA OwesNone ==
  ASSUME NEW t \in Thread,
         pc[t] \notin {"copy", "pick", "activate"},
         pc[t] = "drq" => drq[t] = "send" \/ reg[t].res \notin {"open", "closed"},
         pc'[t] \notin {"copy", "activate"},
         pc'[t] = "pick" => reg'[t].activate # TRUE,
         pc'[t] = "drq" => drq'[t] = "send" \/ reg'[t].res \notin {"open", "closed"}
  PROVE  OwesSame(t)
  BY DEF OwesSame, Owes, Transfers

\* Take a sender, sleep, or have nothing to receive.
LEMMA ReceiveMeets ==
  ASSUME SendInv, MeetOK, NEW t \in Thread, Receive(t)
  PROVE  MeetOK'
<1>1. ThreadOK(t) /\ AfterOK(t) /\ ReceiveOK(t) /\ TransferOK(t) /\ TypeInv /\ TypeOK
      /\ st \in [Thread -> SUBSET Flag] /\ (\A s \in Thread : OwesOK(s, t)) /\ ToOK(t)
      /\ pc \in [Thread -> Labels]
  BY MeetParts
<1>2. /\ \A u \in Thread \ {t} : Stays(u)
      /\ pc[t] = "receive" /\ pc'[t] \in {"pull", "asleep", "end"} /\ drq'[t] = "none"
      /\ (pc'[t] = "pull" <=> reg[t].next # None) /\ reg' = reg /\ partner' = partner
  BY <1>1, ReceiveMoves DEF Goes
<1>3. UNCHANGED <<chg, senders, sent, got>>
  BY DEF Receive, history
<1>4. \E F : /\ st' = st \/ st' = [st EXCEPT ![t] = F]
  BY DEF Receive
<1>5. PICK F : st' = st \/ st' = [st EXCEPT ![t] = F]
  BY <1>4
<1>6. \A u \in Thread \ {t} : Untouched(u)
  BY <1>1, <1>2, <1>3, <1>5, Mine DEF SameRegs
<1>7. OwesSame(t)
  BY <1>2, OwesNone
<1>8. Alone(t)
  BY <1>3, <1>6, <1>7, SameListed DEF Alone
<1>9. ~ Pending(t) /\ ~ Pending(t)' /\ Past(t)
  BY <1>1, <1>2, <1>3 DEF AfterOK, After, Past, Pending
<1>10. \A s \in Thread : OwesSame(s)
  BY <1>6, <1>7, StaysOwes, StaysRemains DEF Untouched, SameRegs
<1>11. CASE reg[t].next # None
  <2>1. pc'[t] = "pull" /\ st'[t] = (st[t] \ IpcMask) \cup {"receive_in_progress"}
    BY <1>1, <1>11, <1>2 DEF Receive
  <2>2. Ph(t) = Received /\ partner[t] = reg[t].next
    BY <1>1, <1>2, <1>11 DEF AfterOK, After, Picked
  <2>3. CanTake(t) /\ got[t] = FALSE
    BY <1>1, <1>9, <2>2 DEF ReceiveOK
  <2>4. ~ Tr(t) /\ ~ TrEnds(t)
    BY <1>1, <1>9, <2>2 DEF TransferOK, Received
  <2>5. Ph(t)' = Taking /\ ~ Tr(t)' /\ ~ TrEnds(t)'
    <3>1. chg[t].del \subseteq IpcMask \cup {"transfer"}
          /\ chg[t].add \subseteq {"ready", "receive_wait", "transfer_failed"}
      BY <1>1 DEF TypeOK, Changes
    <3>2. chg[t].del \cap IpcMask = {} /\ chg[t].add \cap IpcMask = {}
      BY <1>9 DEF Pending
    <3>3. QED
      BY <1>3, <2>1, <2>4, <3>2 DEF Ph, Eff, Change, Taking, IpcMask, Tr, TrEnds
  <2>6. Past(t)' /\ pc'[t] \notin Out /\ pc'[t] \notin Waiting
    BY <2>1 DEF Past, After, Out, Waiting
  <2>7. OutOK(t)' /\ UnsentOK(t)' /\ SentOK(t)'
    BY <2>6 DEF OutOK, UnsentOK, SentOK
  <2>8. ReceiveOK(t)'
    <3>1. CanTake(t)' /\ got'[t] = FALSE
      BY <1>2, <1>3, <2>3 DEF CanTake
    <3>2. QED
      BY <2>1, <2>5, <3>1 DEF ReceiveOK, Taking, Received
  <2>9. AfterOK(t)'
    BY <1>1, <1>2, <1>3, <1>9, <2>1, <2>2 DEF AfterOK, After
  <2>10. TransferOK(t)'
    BY <1>1, <1>2, <1>3, <1>9, <2>5, <2>6, SameListed DEF TransferOK
  <2>11. ThreadOK(t)'
    BY <2>7, <2>8, <2>9, <2>10 DEF ThreadOK
  <2>12. \A s \in Thread : OwesOK(s, t)'
    <3>1. Ph(t) # {}
      BY <2>2 DEF Received
    <3>2. QED
      BY <1>1, <1>10, <3>1, NotOwed DEF OwesSame
  <2>13. QED
    BY <1>1, <1>8, <2>11, <2>12, AloneMeets
<1>12. CASE reg[t].next = None
  <2>1. /\ pc'[t] \in {"asleep", "end"}
        /\ st'[t] \cap (IpcMask \cup {"transfer_failed", "transfer"}) =
              st[t] \cap (IpcMask \cup {"transfer_failed", "transfer"})
    <3>1. st' = st \/ st' = [st EXCEPT ![t] = @ \cup {"timeout"}] \/ st' = [st EXCEPT ![t] = @ \ {"ready"}]
      BY <1>12 DEF Receive
    <3>2. QED
      BY <1>1, <1>2, <1>12, <3>1 DEF IpcMask
  <2>3. /\ Ph(t)' = Ph(t) /\ (Tr(t)' <=> Tr(t)) /\ (TrEnds(t)' <=> TrEnds(t))
    BY <1>1, <1>3, <2>1, QuietFlags
  <2>4. Ph(t) # Taking
    BY <1>1, <1>2, <1>9 DEF ReceiveOK
  <2>5. TrEnds(t)' => Tr(t)'
    BY <1>1, <1>9, <2>3 DEF TransferOK
  <2>6. Busy(t) => Busy(t)'
    BY <1>10 DEF Busy, OwesSame
  <2>7. ThreadOK(t)'
    <3>1. pc'[t] \in After \ {"pull", "pulled"} /\ pc'[t] \notin Picked
      BY <2>1 DEF After, Picked
    <3>2. sent'[t] = sent[t] /\ got'[t] = got[t] /\ (Listed1(t)' <=> Listed1(t))
      BY <1>3, SameListed
    <3>3. QED
      BY <1>1, <1>2, <1>9, <2>3, <2>4, <2>5, <2>6, <3>1, <3>2, GoesAfter
  <2>8. \A s \in Thread : OwesOK(s, t)'
    <3>1. Past(t)'
      BY <2>1 DEF Past, After
    <3>2. got'[t] = got[t] /\ (Pending(t)' => Pending(t))
      BY <1>3, <1>9
    <3>3. QED
      BY <1>1, <1>2, <1>10, <2>3, <3>1, <3>2, OwedOn DEF OwesSame
  <2>9. QED
    BY <1>1, <1>8, <2>7, <2>8, AloneMeets
<1>13. QED
  BY <1>11, <1>12

\* t goes on in its receive phase, with its flags as they are.
LEMMA OnwardMeets ==
  ASSUME SendInv, MeetOK, NEW t \in Thread, \A u \in Thread \ {t} : Untouched(u),
         Past(t), pc[t] \notin {"pull", "pulled"}, ~ Pending(t),
         pc'[t] \in After \ {"pull", "pulled"}, drq'[t] = "none", OwesSame(t),
         pc'[t] \in Picked => reg[t].next = None,
         reg' = reg, UNCHANGED <<chg, senders, sent, got>>,
         st'[t] \cap (IpcMask \cup {"transfer_failed", "transfer"}) =
            st[t] \cap (IpcMask \cup {"transfer_failed", "transfer"})
  PROVE  MeetOK'
<1>1. ThreadOK(t) /\ ReceiveOK(t) /\ TransferOK(t) /\ TypeOK /\ (\A s \in Thread : OwesOK(s, t))
      /\ ToOK(t)
  BY MeetParts
<1>2. \A s \in Thread : OwesSame(s)
  BY StaysOwes, StaysRemains DEF Untouched, SameRegs
<1>3. /\ Ph(t)' = Ph(t) /\ (Tr(t)' <=> Tr(t)) /\ (TrEnds(t)' <=> TrEnds(t)) /\ ~ Pending(t)'
  BY <1>1, QuietFlags
<1>4. Ph(t) # Taking
  BY <1>1 DEF ReceiveOK
<1>5. TrEnds(t)' => Tr(t)'
  BY <1>1, <1>3 DEF TransferOK
<1>6. Busy(t) => Busy(t)'
  BY <1>2 DEF Busy, OwesSame
<1>7. ThreadOK(t)'
  <2>1. Listed1(t)' => Listed1(t)
    BY SameListed
  <2>2. QED
    BY <1>1, <1>3, <1>4, <1>5, <1>6, <2>1, GoesAfter
<1>8. \A s \in Thread : OwesOK(s, t)'
  <2>1. Past(t)'
    BY DEF Past
  <2>2. QED
    BY <1>1, <1>2, <1>3, <2>1, OwedOn DEF OwesSame
<1>9. Alone(t)
  BY SameListed DEF Alone
<1>10. QED
  BY <1>1, <1>7, <1>8, <1>9, AloneMeets

\* The end of goto_sleep().
LEMMA WakeUpMeets ==
  ASSUME SendInv, MeetOK, NEW t \in Thread, WakeUp(t)
  PROVE  MeetOK'
<1>1. AfterOK(t) /\ TypeInv /\ TypeOK /\ (\A u \in Thread \ {t} : Stays(u))
      /\ pc \in [Thread -> Labels] /\ ToOK(t)
  BY MeetParts, WakeUpMoves
<1>2. /\ pc[t] = "asleep" /\ pc' = [pc EXCEPT ![t] = "end"]
      /\ UNCHANGED <<st, chg, senders, drq, reg, sent, got>>
  BY DEF WakeUp, At, Goto, flags, history
<1>3. pc'[t] = "end" /\ drq'[t] = "none"
  BY <1>1, <1>2 DEF ToOK
<1>4. \A u \in Thread \ {t} : Untouched(u)
  BY <1>1, <1>2 DEF Untouched, SameRegs
<1>5. Past(t) /\ ~ Pending(t)
  BY <1>1, <1>2 DEF AfterOK, After, Past
<1>6. OwesSame(t)
  BY <1>2, <1>3, OwesNone
<1>7. pc'[t] \in After \ {"pull", "pulled"} /\ pc'[t] \notin Picked
  BY <1>3 DEF After, Picked
<1>8. QED
  BY <1>2, <1>3, <1>4, <1>5, <1>6, <1>7, OnwardMeets

\* The switch back from the partner whose message was taken.
LEMMA PulledMeets ==
  ASSUME SendInv, MeetOK, NEW t \in Thread, Pulled(t)
  PROVE  MeetOK'
<1>1. /\ AfterOK(t) /\ ReceiveOK(t) /\ TransferOK(t) /\ TypeInv /\ TypeOK
      /\ (\A u \in Thread \ {t} : Stays(u)) /\ ToOK(t)
      /\ pc \in [Thread -> Labels] /\ st \in [Thread -> SUBSET Flag]
      /\ (\A s \in Thread : OwesOK(s, t))
  BY MeetParts, PulledMoves
<1>2. /\ pc[t] = "pulled" /\ pc' = [pc EXCEPT ![t] = "end"]
      /\ st' = [st EXCEPT ![t] = st[t] \ IpcMask]
      /\ UNCHANGED <<chg, senders, drq, reg, sent, got>>
  BY DEF Pulled, At, Goto, history
<1>3. pc'[t] = "end" /\ drq'[t] = "none"
  BY <1>1, <1>2 DEF ToOK
<1>4. \A u \in Thread \ {t} : Untouched(u)
  BY <1>1, <1>2, Mine DEF SameRegs
<1>5. ~ Pending(t) /\ ~ Pending(t)' /\ Past(t)
  BY <1>1, <1>2 DEF AfterOK, After, Past, Pending
<1>6. Ph(t) = Taking /\ CanTake(t) /\ (got[t] = TRUE <=> reg[t].tag # "error")
  BY <1>1, <1>2, <1>5 DEF ReceiveOK
<1>7. ~ Tr(t) /\ ~ TrEnds(t)
  BY <1>1, <1>5, <1>6 DEF TransferOK, Taking
<1>8. Ph(t)' = {} /\ ~ Tr(t)' /\ ~ TrEnds(t)'
  <2>1. st'[t] = st[t] \ IpcMask
    BY <1>1, <1>2
  <2>2. chg[t].add \cap IpcMask = {}
    BY <1>5 DEF Pending
  <2>3. QED
    BY <1>2, <1>7, <2>1, <2>2 DEF Ph, Eff, Change, Tr, TrEnds
<1>9. OwesSame(t)
  BY <1>2, <1>3, OwesNone
<1>10. Alone(t)
  BY <1>2, <1>4, <1>9, SameListed DEF Alone
<1>11. ThreadOK(t)'
  <2>1. Past(t)' /\ pc'[t] \notin Out /\ pc'[t] \notin Waiting
    BY <1>3 DEF Past, After, Out, Waiting
  <2>2. OutOK(t)' /\ UnsentOK(t)' /\ SentOK(t)'
    BY <2>1 DEF OutOK, UnsentOK, SentOK
  <2>3. ReceiveOK(t)'
    BY <1>2, <1>3, <1>6, <1>8 DEF ReceiveOK, CanTake, Taking, Received
  <2>4. AfterOK(t)'
    BY <1>1, <1>2, <1>3, <1>5 DEF AfterOK, After, Picked
  <2>5. TransferOK(t)'
    BY <1>1, <1>2, <1>3, <1>5, <1>8, <2>1, SameListed DEF TransferOK
  <2>6. QED
    BY <2>2, <2>3, <2>4, <2>5 DEF ThreadOK
<1>12. \A s \in Thread : OwesOK(s, t)'
  <2>1. \A s \in Thread : OwesSame(s)
    BY <1>4, <1>9, StaysOwes, StaysRemains DEF Untouched, SameRegs
  <2>2. Ph(t) # {}
    BY <1>6 DEF Taking
  <2>3. QED
    BY <1>1, <2>1, <2>2, NotOwed DEF OwesSame
<1>13. QED
  BY <1>1, <1>10, <1>11, <1>12, AloneMeets

\* t is out of do_ipc().
LEMMA OutMeets ==
  ASSUME NEW t \in Thread, pc'[t] \in Out, drq'[t] = "none",
         Ph(t)' = {}, ~ Pending(t)', ~ Tr(t)', ~ TrEnds(t)', Listed1(t)' => sent'[t] = FALSE
  PROVE  ThreadOK(t)'
<1>1. ~ Past(t)' /\ pc'[t] \notin Waiting
  BY DEF Past, After, Out, Waiting
<1>2. OutOK(t)' /\ UnsentOK(t)' /\ SentOK(t)' /\ ReceiveOK(t)'
  BY <1>1 DEF OutOK, UnsentOK, SentOK, ReceiveOK
<1>3. AfterOK(t)'
  BY DEF AfterOK, After, Out
<1>4. TransferOK(t)'
  BY <1>1 DEF TransferOK, Out
<1>5. QED
  BY <1>2, <1>3, <1>4 DEF ThreadOK

\* The end of do_ipc().
LEMMA EndMeets ==
  ASSUME SendInv, MeetOK, NEW t \in Thread, End(t)
  PROVE  MeetOK'
<1>1. /\ AfterOK(t) /\ ReceiveOK(t) /\ TransferOK(t) /\ TypeInv /\ TypeOK
      /\ (\A u \in Thread \ {t} : Stays(u)) /\ ToOK(t)
      /\ pc \in [Thread -> Labels] /\ st \in [Thread -> SUBSET Flag]
      /\ (\A s \in Thread : OwesOK(s, t)) /\ reg \in [Thread -> Locals]
  BY MeetParts, EndMoves
<1>2. /\ pc[t] \in {"end", "transfer"} /\ drq'[t] = "none"
      /\ UNCHANGED <<chg, senders, sent, got>>
  BY <1>1, EndMoves DEF End
<1>3. ~ Pending(t) /\ ~ Pending(t)' /\ Past(t)
  BY <1>1, <1>2 DEF AfterOK, After, Past, Pending
<1>4. CASE "transfer" \in st[t]
  <2>1. /\ st' = [st EXCEPT ![t] = @ \ {"ready"}] /\ pc' = [pc EXCEPT ![t] = "transfer"]
        /\ reg' = reg
    BY <1>4 DEF End, Goto
  <2>2. pc'[t] = "transfer" /\ st'[t] = st[t] \ {"ready"}
    BY <1>1, <2>1
  <2>3. \A u \in Thread \ {t} : Untouched(u)
    BY <1>1, <1>2, <2>1, Mine DEF SameRegs
  <2>4. OwesSame(t)
    BY <1>2, <2>2, OwesNone
  <2>5. st'[t] \cap (IpcMask \cup {"transfer_failed", "transfer"}) =
            st[t] \cap (IpcMask \cup {"transfer_failed", "transfer"})
    BY <2>2 DEF IpcMask
  <2>6. pc'[t] \in After \ {"pull", "pulled"} /\ pc'[t] \notin Picked
    BY <2>2 DEF After, Picked
  <2>7. QED
    BY <1>2, <1>3, <2>1, <2>3, <2>4, <2>5, <2>6, OnwardMeets
<1>5. CASE "transfer" \notin st[t]
  <2>1. /\ st' = [st EXCEPT ![t] = @ \ FullMask] /\ pc' = [pc EXCEPT ![t] = "user"]
        /\ reg' = [reg EXCEPT ![t] = Idle]
    BY <1>5 DEF End, Goto
  <2>2. pc'[t] = "user" /\ st'[t] = st[t] \ FullMask /\ reg'[t] = Idle
    BY <1>1, <2>1
  <2>3. \A u \in Thread \ {t} : Untouched(u)
    BY <1>1, <1>2, <2>1, Mine DEF SameRegs
  <2>4. OwesSame(t)
    BY <1>2, <2>2, OwesNone
  <2>5. ~ Tr(t) /\ ~ TrEnds(t)
    BY <1>1, <1>3, <1>5 DEF TransferOK, Tr
  <2>6. Ph(t)' = {} /\ ~ Tr(t)' /\ ~ TrEnds(t)'
    <3>1. chg[t].add \cap IpcMask = {}
      BY <1>3 DEF Pending
    <3>2. QED
      BY <1>2, <2>2, <2>5, <3>1 DEF Ph, Eff, Change, Tr, TrEnds, FullMask
  <2>7. ThreadOK(t)'
    <3>1. Listed1(t)' => sent'[t] = FALSE
      BY <1>1, <1>2, SameListed DEF TransferOK
    <3>2. pc'[t] \in Out
      BY <2>2 DEF Out
    <3>3. QED
      BY <1>2, <1>3, <2>6, <3>1, <3>2, OutMeets
  <2>8. \A s \in Thread : OwesOK(s, t)'
    <3>1. \A s \in Thread : OwesSame(s)
      BY <2>3, <2>4, StaysOwes, StaysRemains DEF Untouched, SameRegs
    <3>2. QED
      BY <1>1, <2>5, <3>1, NotOwed DEF OwesSame
  <2>9. Alone(t)
    BY <1>2, <2>3, <2>4, SameListed DEF Alone
  <2>10. QED
    BY <1>1, <2>7, <2>8, <2>9, AloneMeets
<1>6. QED
  BY <1>4, <1>5

\* The steps of a dying thread, but for the end of its senders' waits.
LEMMA DyingMeets ==
  ASSUME SendInv, MeetOK, NEW t \in Thread, DoKill(t) \/ NoMoreSenders(t) \/ Dead(t)
  PROVE  MeetOK'
<1>1. /\ OutOK(t) /\ TransferOK(t) /\ TypeInv /\ TypeOK /\ ToOK(t)
      /\ pc \in [Thread -> Labels] /\ st \in [Thread -> SUBSET Flag]
      /\ (\A s \in Thread : OwesOK(s, t))
  BY MeetParts
<1>2. /\ \A u \in Thread \ {t} : Stays(u)
      /\ pc[t] \in {"user", "kill", "dying"} /\ pc'[t] \in {"kill", "dying", "dead"}
      /\ drq[t] = "none" /\ drq' = drq /\ reg' = reg /\ partner' = partner
  BY <1>1, KillMoves
<1>3. UNCHANGED <<chg, senders, sent, got>> /\ (st' = st \/ st' = [st EXCEPT ![t] = {"dead"}])
  BY DEF DoKill, NoMoreSenders, Dead, flags, history
<1>4. \A u \in Thread \ {t} : Untouched(u)
  BY <1>1, <1>2, <1>3, Mine DEF SameRegs
<1>5. Ph(t) = {} /\ ~ Pending(t) /\ ~ Tr(t) /\ ~ TrEnds(t)
  BY <1>1, <1>2 DEF OutOK, Out, TransferOK
<1>6. Ph(t)' = {} /\ ~ Pending(t)' /\ ~ Tr(t)' /\ ~ TrEnds(t)'
  <2>1. st'[t] = st[t] \/ st'[t] = {"dead"}
    BY <1>1, <1>3
  <2>2. ~ Pending(t)' /\ ~ TrEnds(t)'
    BY <1>3, <1>5 DEF Pending, TrEnds
  <2>3. ~ Tr(t)'
    BY <1>5, <2>1 DEF Tr
  <2>4. chg[t].add \cap IpcMask = {}
    BY <1>5 DEF Pending
  <2>5. Ph(t)' = {}
    BY <1>3, <1>5, <2>1, <2>4 DEF Ph, Eff, Change, IpcMask
  <2>6. QED
    BY <2>2, <2>3, <2>5
<1>7. OwesSame(t)
  BY <1>2, OwesNone
<1>8. ThreadOK(t)'
  <2>1. pc'[t] \in Out
    BY <1>2 DEF Out
  <2>2. Listed1(t)' => sent'[t] = FALSE
    BY <1>1, <1>3, SameListed DEF TransferOK
  <2>3. QED
    BY <1>2, <1>6, <2>1, <2>2, OutMeets
<1>9. \A s \in Thread : OwesOK(s, t)'
  <2>1. \A s \in Thread : OwesSame(s)
    BY <1>4, <1>7, StaysOwes, StaysRemains DEF Untouched, SameRegs
  <2>2. QED
    BY <1>1, <1>5, <2>1, NotOwed DEF OwesSame
<1>10. Alone(t)
  BY <1>3, <1>4, <1>7, SameListed DEF Alone
<1>11. QED
  BY <1>1, <1>8, <1>9, <1>10, AloneMeets

-----------------------------------------------------------------------------
(* The send phase. *)

\* What a thread has in its send phase.
LEMMA Unsent ==
  ASSUME SendInv, MeetOK, NEW t \in Thread, pc[t] \in {"send", "copy"} \cup Waiting,
         pc[t] \in Waiting => sent[t] # TRUE
  PROVE  /\ ~ Past(t) /\ sent[t] = FALSE /\ got[t] = FALSE /\ ~ Tr(t)
         /\ ~ Pending(t) => ~ TrEnds(t)
         /\ Ph(t) = {} \/ Ph(t) = Sending
         /\ reg[t].activate # TRUE
         /\ \A s \in Thread : ~ Owes(s, t)
<1>1. UnsentOK(t) /\ TransferOK(t) /\ (\A s \in Thread : OwesOK(s, t))
  BY MeetParts
<1>2. ~ Past(t) /\ pc[t] \notin Out
  BY DEF Past, After, Waiting, Out
<1>3. QED
  BY <1>1, <1>2 DEF UnsentOK, TransferOK, OwesOK

\* The send phase of t fails.
LEMMA FailsMeets ==
  ASSUME SendInv, MeetOK, NEW t \in Thread, pc[t] \in {"send"} \cup Waiting,
         pc[t] \in Waiting => sent[t] # TRUE,
         pc[t] = "drq" => reg[t].res \notin {"open", "closed"},
         ~ Pending(t), SendFails(t), drq'[t] = "none", UNCHANGED <<chg, sent, got>>,
         \A u \in Thread \ {t} : Untouched(u) /\ (Listed1(u)' <=> Listed1(u)),
         st'[t] \cap IpcMask = {}, Tr(t)' => Tr(t)
  PROVE  MeetOK'
<1>1. /\ ToOK(t) /\ reg \in [Thread -> Locals] /\ pc \in [Thread -> Labels] /\ TypeOK
  BY MeetParts
<1>2. /\ pc'[t] = "end" /\ reg'[t].ok = FALSE /\ reg'[t].to = reg[t].to
  BY <1>1, SendFailsEffect DEF SendFails, Goto
<1>3. reg[t].to # None
  BY <1>1 DEF ToOK, Waiting
<1>4. /\ ~ Past(t) /\ sent[t] = FALSE /\ got[t] = FALSE /\ ~ Tr(t) /\ ~ TrEnds(t)
      /\ (\A s \in Thread : ~ Owes(s, t))
  BY Unsent
<1>5. Ph(t)' = {} /\ ~ Pending(t)' /\ ~ Tr(t)' /\ ~ TrEnds(t)'
  <2>1. chg[t].add \cap IpcMask = {}
    BY DEF Pending
  <2>2. QED
    BY <1>4, <2>1 DEF Ph, Eff, Change, Pending, TrEnds
<1>6. ThreadOK(t)'
  BY <1>2, <1>3, <1>4, <1>5, GivesUp
<1>7. OwesSame(t)
  BY <1>2, OwesNone DEF Waiting
<1>8. \A s \in Thread : OwesOK(s, t)'
  <2>1. \A s \in Thread : OwesSame(s)
    BY <1>7, StaysOwes, StaysRemains DEF Untouched, SameRegs
  <2>2. QED
    BY <1>4, <2>1 DEF OwesSame, OwesOK
<1>9. Alone(t)
  BY <1>7 DEF Alone
<1>10. QED
  BY <1>1, <1>6, <1>8, <1>9, AloneMeets

\* A DRQ to the receiver.
LEMMA RemoteHandshakeMeets ==
  ASSUME SendInv, MeetOK, NEW t \in Thread, RemoteHandshakeReceiver(t)
  PROVE  MeetOK'
<1>1. /\ UnsentOK(t) /\ TransferOK(t) /\ TypeInv /\ TypeOK /\ ToOK(t) /\ SenderInv(t)
      /\ st \in [Thread -> SUBSET Flag] /\ pc \in [Thread -> Labels]
      /\ drq \in [Thread -> {"none", "send", "abort", "reply"}]
  BY MeetParts DEF TypeOK
<1>2. /\ pc[t] = "send" /\ pc'[t] = "drq" /\ drq'[t] = "send" /\ drq[t] = "none"
      /\ (\A u \in Thread \ {t} : Stays(u)) /\ partner' = partner
      /\ st' = [st EXCEPT ![t] = (@ \cup {"send_wait", "drq_wait"}) \ {"ready"}]
      /\ UNCHANGED <<chg, senders, reg, sent, got>>
  BY <1>1, RemoteHandshakeMoves DEF RemoteHandshakeReceiver, history
<1>3. /\ ~ Past(t) /\ sent[t] = FALSE /\ got[t] = FALSE /\ ~ Tr(t) /\ ~ Pending(t) /\ ~ TrEnds(t)
      /\ Ph(t) = {} /\ reg[t].ok = TRUE /\ reg[t].activate # TRUE
      /\ (\A s \in Thread : ~ Owes(s, t))
  <2>1. ~ Pending(t)
    BY <1>1, <1>2, FreeSender DEF Waiting
  <2>2. /\ ~ Past(t) /\ sent[t] = FALSE /\ got[t] = FALSE /\ ~ Tr(t) /\ ~ TrEnds(t)
        /\ reg[t].activate # TRUE /\ (\A s \in Thread : ~ Owes(s, t))
    BY <1>2, <2>1, Unsent DEF Waiting
  <2>3. QED
    BY <1>1, <1>2, <2>1, <2>2 DEF UnsentOK, Out
<1>4. st'[t] = (st[t] \cup {"send_wait", "drq_wait"}) \ {"ready"}
  BY <1>1, <1>2
<1>5. Ph(t)' = Sending /\ ~ Pending(t)' /\ ~ Tr(t)' /\ ~ TrEnds(t)'
  <2>1. chg[t].add \cap IpcMask = {} /\ chg[t].del \cap IpcMask = {}
    BY <1>3 DEF Pending
  <2>2. st[t] \cap IpcMask = {}
    BY <1>1, <1>3, EffIs
  <2>3. Ph(t)' = Sending
    BY <1>2, <1>4, <2>1, <2>2 DEF Ph, Eff, Change, Sending, IpcMask
  <2>4. QED
    BY <1>2, <1>3, <1>4, <2>3 DEF Pending, Tr, TrEnds
<1>6. ~ Past(t)' /\ pc'[t] \notin Out /\ pc'[t] \notin After /\ sent'[t] = FALSE /\ got'[t] = FALSE
  BY <1>2, <1>3 DEF Past, Waiting, After, Out
<1>7. ThreadOK(t)'
  <2>1. OutOK(t)' /\ SentOK(t)' /\ ReceiveOK(t)' /\ AfterOK(t)'
    BY <1>6 DEF OutOK, SentOK, ReceiveOK, AfterOK
  <2>2. UnsentOK(t)'
    BY <1>2, <1>3, <1>5, <1>6 DEF UnsentOK
  <2>3. TransferOK(t)'
    BY <1>2, <1>3, <1>5, <1>6 DEF TransferOK
  <2>4. QED
    BY <2>1, <2>2, <2>3 DEF ThreadOK
<1>8. \A u \in Thread \ {t} : Untouched(u)
  BY <1>1, <1>2, Mine DEF SameRegs
<1>9. OwesSame(t)
  BY <1>2, OwesNone
<1>10. \A s \in Thread : OwesOK(s, t)'
  <2>1. \A s \in Thread : OwesSame(s)
    BY <1>8, <1>9, StaysOwes, StaysRemains DEF Untouched, SameRegs
  <2>2. QED
    BY <1>3, <2>1 DEF OwesSame, OwesOK
<1>11. Alone(t)
  BY <1>2, <1>8, <1>9, SameListed DEF Alone
<1>12. QED
  BY <1>1, <1>7, <1>10, <1>11, AloneMeets

\* The answer of the receiver's CPU.
LEMMA RemoteAnswerMeets ==
  ASSUME SendInv, MeetOK, NEW t \in Thread, RemoteAnswer(t)
  PROVE  MeetOK'
<1>1. /\ UnsentOK(t) /\ SentOK(t) /\ TransferOK(t) /\ ReceiveOK(t)
      /\ TypeInv /\ TypeOK /\ ToOK(t) /\ SenderInv(t) /\ PathOK(t)
      /\ st \in [Thread -> SUBSET Flag] /\ pc \in [Thread -> Labels]
      /\ (\A s \in Thread : OwesOK(s, t)) /\ reg \in [Thread -> Locals]
  BY MeetParts
<1>2. /\ pc[t] = "drq" /\ drq[t] = "none" /\ drq'[t] = "none" /\ "drq_wait" \notin st[t]
      /\ (\A u \in Thread \ {t} : Stays(u)) /\ partner' = partner
      /\ UNCHANGED <<chg, senders, drq, sent, got>>
  BY <1>1, RemoteAnswerMoves DEF RemoteAnswer, history, Goes
<1>3. Pending(t) => reg[t].res = "queued"
  BY <1>1, <1>2 DEF SenderInv, PendingOK
<1>4. sent[t] \in BOOLEAN
  BY <1>1 DEF TypeOK
<1>5. ~ Past(t) \/ sent[t] = TRUE
  BY <1>2 DEF Past, After
<1>6. CASE reg[t].res = "failed"
  <2>1. SendFails(t) /\ st' = [st EXCEPT ![t] = @ \ IpcMask]
    BY <1>6 DEF RemoteAnswer
  <2>2. sent[t] # TRUE
    BY <1>1, <1>2, <1>6 DEF SentOK, Waiting
  <2>3. \A u \in Thread \ {t} : Untouched(u)
    BY <1>1, <1>2, <2>1, Mine DEF SameRegs, SendFails
  <2>4. st'[t] \cap IpcMask = {} /\ (Tr(t)' => Tr(t))
    BY <1>1, <2>1 DEF Tr
  <2>5. QED
    BY <1>2, <1>3, <1>6, <2>1, <2>2, <2>3, <2>4, SameListed, FailsMeets DEF Waiting
<1>7. CASE reg[t].res = "done"
  <2>1. pc' = [pc EXCEPT ![t] = "pick"] /\ st' = st /\ reg' = reg
    BY <1>7 DEF RemoteAnswer, Goto
  <2>2. sent[t] = TRUE
    BY <1>1, <1>2, <1>4, <1>5, <1>7 DEF UnsentOK, Out
  <2>3. \A u \in Thread \ {t} : Untouched(u)
    BY <1>1, <1>2, <2>1, Mine DEF SameRegs
  <2>4. pc'[t] = "pick"
    BY <1>1, <2>1
  <2>5. OwesSame(t)
    <3>1. reg[t].activate # TRUE
      BY <1>1, <1>2 DEF TransferOK, Waiting
    <3>2. QED
      BY <1>2, <1>7, <2>1, <2>4, <3>1, OwesNone
  <2>6. Past(t) /\ ~ Pending(t)
    BY <1>2, <1>3, <1>7, <2>2 DEF Past, Waiting
  <2>7. pc'[t] \in After \ {"pull", "pulled"} /\ pc'[t] \notin Picked
    BY <2>4 DEF After, Picked
  <2>8. QED
    BY <1>2, <2>1, <2>3, <2>5, <2>6, <2>7, OnwardMeets
<1>8. CASE reg[t].res \in {"queued", "open", "closed"}
  <2>1. /\ reg' = reg /\ st' = st
        /\ reg[t].res = "queued" => pc' = [pc EXCEPT ![t] = "sendWait"]
        /\ reg[t].res # "queued" => pc' = [pc EXCEPT ![t] = "copy"]
    BY <1>8 DEF RemoteAnswer, Goto
  <2>2. /\ reg[t].res = "queued" => pc'[t] = "sendWait"
        /\ reg[t].res # "queued" => pc'[t] = "copy" /\ ~ Past(t)
    BY <1>1, <1>2, <1>4, <1>5, <1>8, <2>1 DEF SentOK, Waiting
  <2>3. Past(t)' <=> Past(t)
    BY <1>2, <2>2 DEF Past, After, Waiting
  <2>4. /\ Ph(t)' = Ph(t) /\ (Tr(t)' <=> Tr(t)) /\ (TrEnds(t)' <=> TrEnds(t))
        /\ (Pending(t)' <=> Pending(t)) /\ (Refused(t)' <=> Refused(t)) /\ (RwIn(t)' <=> RwIn(t))
    BY <1>1, <1>2, <2>1, QuietFlags
  <2>5. \A u \in Thread \ {t} : Untouched(u)
    BY <1>1, <1>2, <2>1, Mine DEF SameRegs
  <2>6. OwesSame(t)
    BY <1>2, <1>8, <2>1, <2>2 DEF OwesSame, Owes, Transfers
  <2>7. \A s \in Thread : OwesSame(s)
    BY <2>5, <2>6, StaysOwes, StaysRemains DEF Untouched, SameRegs
  <2>8. Busy(t) <=> Busy(t)'
    BY <2>7 DEF Busy, OwesSame
  <2>9. ThreadOK(t)'
    <3>1. pc'[t] \notin Out /\ pc[t] \notin Out /\ pc'[t] \notin After
      BY <1>2, <1>8, <2>2 DEF Out, After
    <3>2. OutOK(t)' /\ AfterOK(t)'
      BY <3>1 DEF OutOK, AfterOK
    <3>3. UnsentOK(t)'
      <4>1. StillWaits(t)' <=> StillWaits(t)
        BY <1>2, <2>1, <2>4, SameListed DEF StillWaits
      <4>2. QED
        BY <1>1, <1>2, <1>8, <2>1, <2>2, <2>3, <2>4, <3>1, <4>1 DEF UnsentOK
    <3>4. SentOK(t)'
      BY <1>1, <1>2, <1>8, <2>1, <2>2, <2>4 DEF SentOK, Waiting
    <3>5. ReceiveOK(t)'
      BY <1>1, <1>2, <1>8, <2>1, <2>2, <2>3, <2>4, <2>8 DEF ReceiveOK, CanTake
    <3>6. TransferOK(t)'
      BY <1>1, <1>2, <1>8, <2>1, <2>2, <2>3, <2>4, SameListed DEF TransferOK, Waiting
    <3>7. QED
      BY <3>2, <3>3, <3>4, <3>5, <3>6 DEF ThreadOK
  <2>10. \A s \in Thread : OwesOK(s, t)'
    BY <1>1, <1>2, <2>1, <2>3, <2>4, <2>7, OwedOn DEF OwesSame
  <2>11. Alone(t)
    BY <1>2, <2>5, <2>6, SameListed DEF Alone
  <2>12. QED
    BY <1>1, <2>9, <2>10, <2>11, AloneMeets
<1>9. QED
  BY <1>6, <1>7, <1>8 DEF RemoteAnswer

\* The end of do_send_wait().
LEMMA SendWaitedMeets ==
  ASSUME SendInv, MeetOK, NEW t \in Thread, SendWaited(t)
  PROVE  MeetOK'
<1>1. /\ UnsentOK(t) /\ SentOK(t) /\ TransferOK(t) /\ ReceiveOK(t)
      /\ TypeInv /\ TypeOK /\ ToOK(t) /\ SenderInv(t) /\ PathOK(t)
      /\ st \in [Thread -> SUBSET Flag] /\ pc \in [Thread -> Labels]
      /\ (\A s \in Thread : OwesOK(s, t)) /\ reg \in [Thread -> Locals]
      /\ sent[t] \in BOOLEAN /\ drq \in [Thread -> {"none", "send", "abort", "reply"}]
  BY MeetParts DEF TypeOK
<1>2. /\ pc[t] = "sendWait" /\ drq[t] = "none"
      /\ drq'[t] = IF pc'[t] = "abort" THEN "abort" ELSE "none"
      /\ (\A u \in Thread \ {t} : Stays(u)) /\ partner' = partner
      /\ UNCHANGED <<chg, sent, got>>
  BY <1>1, SendWaitedMoves DEF SendWaited, history
<1>3. Pending(t) => Sw(t) /\ ~ Tf(t)
  BY <1>1, <1>2 DEF SenderInv, PendingOK
<1>4. pc[t] \in Waiting /\ pc[t] \notin Out /\ pc[t] \notin After
  BY <1>2 DEF Waiting, Out, After
<1>5. Past(t) <=> sent[t] = TRUE
  BY <1>4 DEF Past
<1>6. CASE "send_wait" \notin st[t]
  <2>1. pc' = [pc EXCEPT ![t] = "pick"] /\ st' = st /\ reg' = reg /\ senders' = senders
    BY <1>6 DEF SendWaited, Goto
  <2>2. sent[t] = TRUE
    <3>1. "send_wait" \notin Ph(t)
      BY <1>1, <1>6, EffIs DEF Sw
    <3>2. QED
      BY <1>1, <1>2, <1>4, <1>5, <3>1 DEF UnsentOK, Sending
  <2>3. \A u \in Thread \ {t} : Untouched(u)
    BY <1>1, <1>2, <2>1, Mine DEF SameRegs
  <2>4. pc'[t] = "pick" /\ drq'[t] = "none"
    BY <1>1, <1>2, <2>1
  <2>5. OwesSame(t)
    <3>1. reg[t].activate # TRUE
      BY <1>1, <1>4 DEF TransferOK
    <3>2. QED
      BY <1>2, <2>1, <2>4, <3>1, OwesNone
  <2>6. Past(t) /\ ~ Pending(t)
    BY <1>3, <1>5, <1>6, <2>2 DEF Sw
  <2>7. pc'[t] \in After \ {"pull", "pulled"} /\ pc'[t] \notin Picked
    BY <2>4 DEF After, Picked
  <2>8. QED
    BY <1>2, <2>1, <2>3, <2>4, <2>5, <2>6, <2>7, OnwardMeets
<1>7. CASE /\ SendFails(t) /\ st' = [st EXCEPT ![t] = @ \ FullMask]
           /\ "send_wait" \in st[t] /\ ~ Pending(t) /\ sent[t] # TRUE
           /\ senders' = senders \/ Leaves(t)
  <2>1. \A u \in Thread \ {t} : Untouched(u)
    BY <1>1, <1>2, <1>7, Mine DEF SameRegs, SendFails
  <2>2. \A u \in Thread \ {t} : Listed1(u)' <=> Listed1(u)
    BY <1>7, SameListed DEF Leaves, Listed1
  <2>3. st'[t] \cap IpcMask = {} /\ (Tr(t)' => Tr(t))
    BY <1>1, <1>7 DEF Tr, FullMask
  <2>4. drq'[t] = "none"
    BY <1>1, <1>2, <1>7 DEF SendFails, Goto
  <2>5. QED
    BY <1>2, <1>4, <1>7, <2>1, <2>2, <2>3, <2>4, FailsMeets
<1>8. CASE {"send_wait", "transfer_failed"} \subseteq st[t]
  <2>1. SendFails(t) /\ st' = [st EXCEPT ![t] = @ \ FullMask] /\ senders' = senders
    BY <1>8 DEF SendWaited
  <2>2. Refused(t) /\ ~ Pending(t)
    BY <1>1, <1>3, <1>8, EffIs DEF Tf
  <2>3. sent[t] # TRUE
    BY <1>1, <1>4, <2>2 DEF SentOK
  <2>4. QED
    BY <1>7, <1>8, <2>1, <2>2, <2>3
<1>9. CASE /\ "send_wait" \in st[t] /\ "transfer_failed" \notin st[t] /\ Local(t, reg[t].to)
  <2>1. SendFails(t) /\ st' = [st EXCEPT ![t] = @ \ FullMask] /\ senders' = Unlisted(t) /\ Listed(t)
    BY <1>9 DEF SendWaited
  <2>2. Listed1(t)
    BY <2>1 DEF Listed, Listed1, On
  <2>3. ~ Pending(t) /\ sent[t] # TRUE
    BY <1>1, <2>2 DEF SenderInv, ListedOK, Listed1, TransferOK
  <2>4. Leaves(t)
    BY <1>1, <2>1, ListsLeft DEF SendInv, SendersInv
  <2>5. QED
    BY <1>7, <1>9, <2>1, <2>3, <2>4
<1>10. CASE /\ "send_wait" \in st[t] /\ "transfer_failed" \notin st[t] /\ ~ Local(t, reg[t].to)
  <2>1. /\ st' = [st EXCEPT ![t] = (@ \ (FullMask \cup {"ready"})) \cup {"drq_wait"}]
        /\ pc' = [pc EXCEPT ![t] = "abort"] /\ reg' = reg /\ senders' = senders
    BY <1>10 DEF SendWaited, Goto
  <2>2. /\ pc'[t] = "abort" /\ drq'[t] = "abort"
        /\ st'[t] = (st[t] \ (FullMask \cup {"ready"})) \cup {"drq_wait"}
    BY <1>1, <1>2, <2>1
  <2>3. /\ chg[t].del \subseteq IpcMask \cup {"transfer"}
        /\ chg[t].add \subseteq {"ready", "receive_wait", "transfer_failed"}
    BY <1>1 DEF TypeOK, Changes
  <2>4. ~ Tf(t) /\ (Refused(t) <=> "transfer_failed" \in chg[t].add)
    BY <1>1, <1>10, EffIs DEF Tf
  <2>5. Refused(t)' <=> Refused(t)
    BY <1>2, <2>2, <2>4 DEF Refused, Eff, Change, FullMask, Abort
  <2>6. Ph(t)' = chg[t].add \cap {"receive_wait"}
    BY <1>2, <2>2, <2>3 DEF Ph, Eff, Change, FullMask, IpcMask
  <2>7. (Pending(t)' <=> Pending(t)) /\ ~ Tr(t)' /\ (TrEnds(t)' <=> TrEnds(t)) /\ ~ RwIn(t)'
    BY <1>2, <2>2 DEF Pending, Tr, TrEnds, RwIn, FullMask, Abort, IpcMask
  <2>8. \A u \in Thread \ {t} : Untouched(u)
    BY <1>1, <1>2, <2>1, Mine DEF SameRegs
  <2>9. OwesSame(t)
    BY <1>2, <2>2, OwesNone
  <2>10. \A s \in Thread : OwesSame(s)
    BY <2>8, <2>9, StaysOwes, StaysRemains DEF Untouched, SameRegs
  <2>11. Busy(t) <=> Busy(t)'
    BY <2>10 DEF Busy, OwesSame
  <2>12. Alone(t)
    BY <2>1, <2>8, <2>9, SameListed DEF Alone
  <2>13. pc'[t] \in Waiting /\ pc'[t] \notin Out /\ pc'[t] \notin After /\ (Past(t)' <=> Past(t))
    BY <1>2, <1>5, <2>2 DEF Past, After, Out, Waiting
  <2>14. Pending(t) => ~ RwIn(t)
    BY <1>1 DEF TransferOK
  <2>15. sent[t] = TRUE => Pending(t) /\ ~ Refused(t) /\ reg[t].ok = TRUE
    <3>1. SUFFICES ASSUME sent[t] = TRUE PROVE Pending(t) /\ ~ Refused(t) /\ reg[t].ok = TRUE
      OBVIOUS
    <3>2. "send_wait" \notin Ph(t)
      BY <1>1, <1>5, <3>1 DEF ReceiveOK, Received, Taking
    <3>3. Pending(t)
      BY <1>1, <1>10, <3>2, EffIs DEF IpcMask
    <3>4. QED
      BY <1>1, <1>4, <3>1, <3>3 DEF SentOK
  <2>16. reg[t].to # t
    BY <1>10 DEF Local
  <2>17. sent[t] = TRUE => Ph(t)' = Ph(t)
    <3>1. SUFFICES ASSUME sent[t] = TRUE PROVE Ph(t)' = Ph(t)
      OBVIOUS
    <3>2. Ph(t) = {} \/ Ph(t) = Received
      BY <1>1, <1>2, <1>5, <3>1 DEF ReceiveOK
    <3>3. "receive_wait" \in Ph(t) <=> "receive_wait" \in chg[t].add
      BY <2>14, <2>15, <3>1 DEF RwIn, Ph, Eff, Change, IpcMask
    <3>4. QED
      BY <2>6, <3>2, <3>3 DEF Received
  <2>18. sent[t] # TRUE => Ph(t)' = {}
    <3>1. SUFFICES ASSUME sent[t] # TRUE PROVE Ph(t)' = {}
      OBVIOUS
    <3>2. Ph(t) = Sending
      BY <1>1, <1>2, <1>4, <1>5, <3>1 DEF UnsentOK
    <3>3. "receive_wait" \notin chg[t].add
      BY <3>2 DEF Ph, Eff, Change, IpcMask, Sending
    <3>4. QED
      BY <2>6, <3>3
  <2>19. ThreadOK(t)'
    <3>1. OutOK(t)' /\ AfterOK(t)'
      BY <2>13 DEF OutOK, AfterOK
    <3>2. UnsentOK(t)'
      <4>1. StillWaits(t) => StillWaits(t)'
        BY <2>1, <2>5, SameListed DEF StillWaits
      <4>2. SUFFICES ASSUME ~ Past(t) PROVE UnsentOK(t)'
        BY <2>13 DEF UnsentOK
      <4>3. /\ sent[t] = FALSE /\ got[t] = FALSE /\ StillWaits(t)
        BY <1>1, <1>2, <1>4, <4>2 DEF UnsentOK
      <4>4. QED
        BY <1>2, <2>2, <2>7, <2>18, <4>1, <4>3 DEF UnsentOK
    <3>3. SentOK(t)'
      BY <1>2, <2>1, <2>2, <2>5, <2>15 DEF SentOK
    <3>4. ReceiveOK(t)'
      <4>1. SUFFICES ASSUME Past(t), sent[t] = TRUE PROVE ReceiveOK(t)'
        BY <1>5, <2>13 DEF ReceiveOK
      <4>2. Ph(t)' = Ph(t)
        BY <2>17, <4>1
      <4>3. QED
        BY <1>1, <1>2, <2>1, <2>2, <2>11, <4>1, <4>2 DEF ReceiveOK, CanTake
    <3>5. TransferOK(t)'
      <4>1. TrEnds(t) => Pending(t)
        BY <1>1, <1>4, <1>5, <2>15 DEF TransferOK, UnsentOK
      <4>2. reg'[t].activate # TRUE /\ reg'[t].to # t /\ (Listed1(t)' => sent'[t] = FALSE)
        BY <1>1, <1>2, <1>4, <2>1, <2>16, SameListed DEF TransferOK
      <4>3. QED
        BY <2>2, <2>7, <4>1, <4>2 DEF TransferOK
    <3>6. QED
      BY <3>1, <3>2, <3>3, <3>4, <3>5 DEF ThreadOK
  <2>20. \A s \in Thread : OwesOK(s, t)'
    <3>1. ~ (Past(t) /\ ~ Pending(t))
      BY <1>5, <2>15
    <3>2. QED
      BY <1>1, <2>10, <3>1, NotOwed DEF OwesSame
  <2>21. QED
    BY <1>1, <2>12, <2>19, <2>20, AloneMeets
<1>11. QED
  BY <1>6, <1>8, <1>9, <1>10

\* The answer to the DRQ of abort_send().
LEMMA AbortedMeets ==
  ASSUME SendInv, MeetOK, NEW t \in Thread, Aborted(t)
  PROVE  MeetOK'
<1>1. /\ UnsentOK(t) /\ SentOK(t) /\ TransferOK(t)
      /\ TypeInv /\ TypeOK /\ ToOK(t) /\ SenderInv(t) /\ PathOK(t)
      /\ st \in [Thread -> SUBSET Flag] /\ pc \in [Thread -> Labels]
      /\ sent[t] \in BOOLEAN
  BY MeetParts DEF TypeOK
<1>2. /\ pc[t] = "abort" /\ drq[t] = "none" /\ drq'[t] = "none"
      /\ (\A u \in Thread \ {t} : Stays(u)) /\ partner' = partner
      /\ UNCHANGED <<st, chg, senders, sent, got>>
  BY <1>1, AbortedMoves DEF Aborted, history, Goes, flags
<1>3. ~ Pending(t) /\ pc[t] \in Waiting /\ pc[t] \notin Out /\ (Past(t) <=> sent[t] = TRUE)
  BY <1>1, <1>2 DEF SenderInv, PendingOK, Waiting, Out, Past, After
<1>4. CASE reg[t].res = "cancel"
  <2>1. SendFails(t)
    BY <1>4 DEF Aborted
  <2>2. sent[t] # TRUE
    BY <1>1, <1>2, <1>3, <1>4 DEF SentOK
  <2>3. \A u \in Thread \ {t} : Untouched(u)
    BY <1>1, <1>2, <2>1, Mine DEF SameRegs, SendFails
  <2>4. st'[t] \cap IpcMask = {}
    <3>1. Ph(t) = {}
      BY <1>1, <1>2, <1>3, <2>2 DEF UnsentOK
    <3>2. QED
      BY <1>1, <1>2, <1>3, <3>1, EffIs
  <2>5. Tr(t)' => Tr(t)
    BY <1>2 DEF Tr
  <2>6. QED
    BY <1>2, <1>3, <2>1, <2>2, <2>3, <2>4, <2>5, SameListed, FailsMeets
<1>5. CASE reg[t].res # "cancel"
  <2>1. pc' = [pc EXCEPT ![t] = "pick"] /\ reg' = reg
    BY <1>5 DEF Aborted, Goto
  <2>2. sent[t] = TRUE
    BY <1>1, <1>2, <1>3, <1>5 DEF UnsentOK
  <2>3. \A u \in Thread \ {t} : Untouched(u)
    BY <1>1, <1>2, <2>1, Mine DEF SameRegs
  <2>4. pc'[t] = "pick"
    BY <1>1, <2>1
  <2>5. OwesSame(t)
    <3>1. reg[t].activate # TRUE
      BY <1>1, <1>3 DEF TransferOK
    <3>2. QED
      BY <1>2, <2>1, <2>4, <3>1, OwesNone
  <2>6. Past(t) /\ pc'[t] \in After \ {"pull", "pulled"} /\ pc'[t] \notin Picked
    BY <1>3, <2>2, <2>4 DEF After, Picked
  <2>7. QED
    BY <1>2, <1>3, <2>1, <2>3, <2>5, <2>6, OnwardMeets
<1>6. QED
  BY <1>4, <1>5

\* What other CPUs have left for t is taken.
LEMMA TakeMeets ==
  ASSUME SendInv, MeetOK, NEW t \in Thread, TakeReply(t) \/ TakeChange(t)
  PROVE  MeetOK'
<1>1. TypeInv /\ TypeOK /\ drq \in [Thread -> {"none", "send", "abort", "reply"}]
      /\ st \in [Thread -> SUBSET Flag]
  BY MeetParts DEF TypeOK
<1>2. /\ chg' = ChangeTaken(t) /\ UNCHANGED <<partner, senders, pc, reg, sent, got>>
      /\ \/ drq' = drq
         \/ drq[t] = "reply" /\ drq' = [drq EXCEPT ![t] = "none"]
  BY DEF TakeReply, TakeChange, history
<1>3. /\ \A u \in Thread \ {t} : st'[u] = st[u]
      /\ st'[t] \cap (IpcMask \cup {"transfer_failed", "transfer"}) =
            Change(st[t], t) \cap (IpcMask \cup {"transfer_failed", "transfer"})
  <2>1. CASE TakeChange(t)
    BY <1>1, <2>1 DEF TakeChange
  <2>2. CASE TakeReply(t)
    <3>1. st' = [st EXCEPT ![t] = Change((@ \ {"drq_wait"}) \cup {"ready"}, t)]
      BY <2>2 DEF TakeReply
    <3>2. QED
      BY <1>1, <3>1 DEF Change, IpcMask
  <2>3. QED
    BY <2>1, <2>2
<1>4. /\ \A u \in Thread : Remains(u) /\ SameRegs(u)
      /\ \A u \in Thread \ {t} : chg'[u] = chg[u]
      /\ chg'[t] = NoChange
  BY <1>1, <1>2 DEF Remains, SameRegs, ChangeTaken, TypeOK
<1>5. \A u \in Thread : Calm(u)
  BY <1>1, <1>3, <1>4, QuietCalm, ChangesCalm
<1>6. \A s \in Thread : OwesSame(s)
  BY <1>2, <1>4, StaysOwes
<1>7. QED
  BY <1>2, <1>5, <1>6, SameListed, Assemble DEF OwesSame, Left1

\* What a call starts with.
Starts(t) ==
    /\ pc[t] = "user"
    /\ pc'[t] = IF reg'[t].to = None THEN "pick" ELSE "send"
    /\ st'[t] = IF reg'[t].to = None THEN st[t] \cup {"receive_wait"} ELSE st[t]
    /\ reg'[t].to \in Thread \cup {None} /\ reg'[t].from \in Thread \cup {None, Anyone}
    /\ reg'[t].to = None => reg'[t].from # None
    /\ reg'[t].ok = TRUE /\ reg'[t].activate # TRUE /\ reg'[t].next = None
    /\ reg'[t].tag = "none"
    /\ sent' = [sent EXCEPT ![t] = FALSE] /\ got' = [got EXCEPT ![t] = FALSE]

LEMMA DoIpcStarts ==
  ASSUME TypeInv, CallsOK, NEW t \in Thread, DoIpc(t)
  PROVE  /\ CallsOK'
         /\ UNCHANGED <<chg, senders, drq, told>> /\ drq[t] = "none"
         /\ \A u \in Thread \ {t} : Untouched(u)
         /\ \/ UNCHANGED <<st, partner, pc, reg, sent, got>>
            \/ Starts(t)
<1> DEFINE k == Head(calls[t])
           to == IF k.to = Reply THEN caller[t] ELSE k.to
<1>1. /\ pc[t] = "user" /\ drq[t] = "none"
      /\ pc \in [Thread -> Labels] /\ reg \in [Thread -> Locals] /\ TypeOK
      /\ UNCHANGED <<chg, senders, drq, told>>
      /\ calls[t] \in Seq(Call) /\ calls[t] # <<>>
  BY DEF DoIpc, At, TypeInv, TypeOK, ToOK
<1>2. CallsOK'
  <2>1. calls' = [calls EXCEPT ![t] = Tail(@)]
    BY DEF DoIpc
  <2>2. \A i \in DOMAIN Tail(calls[t]) : i + 1 \in DOMAIN calls[t] /\ Tail(calls[t])[i] = calls[t][i + 1]
    BY <1>1
  <2>3. ASSUME NEW u \in Thread, NEW i \in DOMAIN calls'[u]
        PROVE  {calls'[u][i].to, calls'[u][i].from} # {None}
    <3>1. CASE u = t
      <4>1. calls'[u] = Tail(calls[t])
        BY <1>1, <2>1, <3>1 DEF TypeOK
      <4>2. i \in DOMAIN Tail(calls[t])
        BY <2>3, <4>1
      <4>3. PICK j \in DOMAIN calls[t] : calls'[u][i] = calls[t][j]
        BY <2>2, <4>1, <4>2
      <4>4. {calls[t][j].to, calls[t][j].from} # {None}
        BY DEF CallsOK
      <4>5. QED
        BY <4>3, <4>4
    <3>2. CASE u # t
      BY <1>1, <2>1, <2>3, <3>2 DEF CallsOK, TypeOK
    <3>3. QED
      BY <3>1, <3>2
  <2>4. QED
    BY <2>3 DEF CallsOK
<1>3. /\ k.from \in Thread \cup {None, Anyone} /\ to \in Thread \cup {None}
      /\ {k.to, k.from} # {None}
  <2>1. 1 \in DOMAIN calls[t] /\ k = calls[t][1]
    BY <1>1
  <2>2. QED
    BY <1>1, <2>1, CallType DEF CallsOK, TypeOK
<1>4. CASE k.to = Reply /\ to = None
  <2>1. UNCHANGED <<st, partner, caller, pc, reg, sent, got>>
    BY <1>4 DEF DoIpc
  <2>2. QED
    BY <1>1, <1>2, <2>1 DEF Untouched, Stays, SameRegs
<1>5. CASE ~ (k.to = Reply /\ to = None)
  <2>1. /\ partner' = [partner EXCEPT ![t] = k.from]
        /\ reg' = [reg EXCEPT ![t] =
                          [Idle EXCEPT !.to = to, !.from = k.from,
                              !.items = k.items, !.snd = k.snd, !.rcv = k.rcv]]
        /\ st' = [st EXCEPT ![t] = IF to = None THEN @ \cup {"receive_wait"} ELSE @]
        /\ pc' = [pc EXCEPT ![t] = IF to = None THEN "pick" ELSE "send"]
        /\ sent' = [sent EXCEPT ![t] = FALSE] /\ got' = [got EXCEPT ![t] = FALSE]
    BY <1>5 DEF DoIpc, Goto
  <2>2. to = None => k.from # None
    BY <1>3, <1>5, IpcAssumption
  <2> HIDE DEF to, k
  <2>3. /\ reg'[t].to = to /\ reg'[t].from = k.from /\ reg'[t].next = None /\ reg'[t].tag = "none"
        /\ reg'[t].ok = TRUE /\ reg'[t].activate = FALSE
    BY <1>1, <2>1 DEF Idle
  <2>4. reg'[t].activate # TRUE
    BY ONLY <2>3
  <2>5. /\ pc'[t] = IF to = None THEN "pick" ELSE "send"
        /\ st'[t] = IF to = None THEN st[t] \cup {"receive_wait"} ELSE st[t]
    BY <1>1, <2>1 DEF TypeOK
  <2>6. \A u \in Thread \ {t} : Untouched(u)
    BY <1>1, <2>1 DEF Untouched, Stays, SameRegs, TypeOK
  <2>7. Starts(t)
    BY <1>1, <1>3, <2>1, <2>2, <2>3, <2>4, <2>5 DEF Starts
  <2>8. QED
    BY <1>1, <1>2, <2>6, <2>7
<1>6. QED
  BY <1>4, <1>5

LEMMA DoIpcMeets ==
  ASSUME SendInv, MeetOK, CallsOK, NEW t \in Thread, DoIpc(t)
  PROVE  MeetOK'
<1>1. /\ OutOK(t) /\ TransferOK(t) /\ TypeInv /\ TypeOK /\ ToOK(t) /\ SenderInv(t)
      /\ st \in [Thread -> SUBSET Flag] /\ sent \in [Thread -> BOOLEAN] /\ got \in [Thread -> BOOLEAN]
      /\ (\A s \in Thread : OwesOK(s, t))
  BY MeetParts
<1>2. /\ UNCHANGED <<chg, senders, drq>> /\ drq[t] = "none"
      /\ \A u \in Thread \ {t} : Untouched(u)
      /\ \/ UNCHANGED <<st, partner, pc, reg, sent, got>>
         \/ Starts(t)
  BY <1>1, DoIpcStarts
<1>3. CASE UNCHANGED <<st, partner, pc, reg, sent, got>>
  <2>1. \A u \in Thread : Stays(u) /\ SameRegs(u)
    BY <1>2, <1>3 DEF Stays, SameRegs
  <2>2. \A u \in Thread : Calm(u) /\ OwesSame(u)
    BY <1>1, <1>2, <1>3, <2>1, StaysRemains, StaysOwes, QuietCalm DEF SameRegs
  <2>3. QED
    BY <1>2, <2>2, SameListed, Assemble DEF OwesSame, Left1
<1>4. CASE Starts(t)
  <2>1. pc[t] = "user" /\ pc'[t] \in {"pick", "send"} /\ sent'[t] = FALSE /\ got'[t] = FALSE
    BY <1>1, <1>4 DEF Starts
  <2>2. /\ Ph(t) = {} /\ ~ Pending(t) /\ ~ Tr(t) /\ ~ TrEnds(t) /\ ~ Listed1(t)
        /\ ~ Past(t)
    BY <1>1, <2>1, FreeSender DEF OutOK, Out, TransferOK, Listed1, Waiting, Past, After
  <2>3. chg[t].add \cap IpcMask = {} /\ chg[t].del \cap IpcMask = {} /\ st[t] \cap IpcMask = {}
    BY <1>1, <2>2, EffIs DEF Pending
  <2>4. ~ Pending(t)' /\ ~ Tr(t)' /\ ~ TrEnds(t)' /\ ~ Listed1(t)'
    BY <1>2, <1>4, <2>2, SameListed DEF Pending, Tr, TrEnds, Starts
  <2>5. /\ reg'[t].to = None => Ph(t)' = Received
        /\ reg'[t].to # None => Ph(t)' = {}
    BY <1>2, <1>4, <2>3 DEF Ph, Eff, Change, Starts, Received, IpcMask
  <2>6. CASE reg'[t].to = None
    <3>1. pc'[t] = "pick" /\ Ph(t)' = Received
      BY <1>4, <2>5, <2>6 DEF Starts
    <3>2. Past(t)' /\ pc'[t] \notin Out /\ pc'[t] \notin Waiting
      BY <3>1 DEF Past, After, Out, Waiting
    <3>3. CanTake(t)'
      BY <1>4, <2>6 DEF CanTake, Starts
    <3>4. OutOK(t)' /\ UnsentOK(t)' /\ SentOK(t)'
      BY <3>2 DEF OutOK, UnsentOK, SentOK
    <3>5. ReceiveOK(t)'
      BY <2>1, <3>1, <3>3 DEF ReceiveOK, Received, Taking
    <3>6. AfterOK(t)'
      BY <1>4, <2>1, <2>4, <2>6, <3>1 DEF AfterOK, Picked, Starts
    <3>7. TransferOK(t)'
      BY <1>2, <1>4, <2>4, <3>1, <3>2 DEF TransferOK
    <3>8. QED
      <4>1. ThreadOK(t)'
        BY <3>4, <3>5, <3>6, <3>7 DEF ThreadOK
      <4>2. OwesSame(t)
        BY <1>4, <2>1, OwesNone DEF Starts
      <4>3. \A s \in Thread : OwesOK(s, t)'
        <5>1. \A s \in Thread : OwesSame(s)
          BY <1>2, <4>2, StaysOwes, StaysRemains DEF Untouched, SameRegs
        <5>2. QED
          BY <1>1, <2>2, <5>1, NotOwed DEF OwesSame
      <4>4. Alone(t)
        BY <1>2, <4>2, SameListed DEF Alone
      <4>5. QED
        BY <1>1, <4>1, <4>3, <4>4, AloneMeets
  <2>7. CASE reg'[t].to # None
    <3>1. pc'[t] = "send" /\ Ph(t)' = {}
      BY <1>4, <2>5, <2>7 DEF Starts
    <3>2. ~ Past(t)' /\ pc'[t] \notin Out /\ pc'[t] \notin Waiting /\ pc'[t] \notin After
      BY <3>1 DEF Past, After, Out, Waiting
    <3>3. OutOK(t)' /\ SentOK(t)' /\ ReceiveOK(t)' /\ AfterOK(t)'
      BY <3>2 DEF OutOK, SentOK, ReceiveOK, AfterOK
    <3>4. UnsentOK(t)'
      BY <1>4, <2>1, <2>4, <3>1 DEF UnsentOK, Starts
    <3>5. TransferOK(t)'
      BY <1>2, <1>4, <2>4, <3>1 DEF TransferOK, Starts
    <3>6. QED
      <4>1. ThreadOK(t)'
        BY <3>3, <3>4, <3>5 DEF ThreadOK
      <4>2. OwesSame(t)
        BY <1>4, <2>1, OwesNone DEF Starts
      <4>3. \A s \in Thread : OwesOK(s, t)'
        <5>1. \A s \in Thread : OwesSame(s)
          BY <1>2, <4>2, StaysOwes, StaysRemains DEF Untouched, SameRegs
        <5>2. QED
          BY <1>1, <2>2, <5>1, NotOwed DEF OwesSame
      <4>4. Alone(t)
        BY <1>2, <4>2, SameListed DEF Alone
      <4>5. QED
        BY <1>1, <4>1, <4>3, <4>4, AloneMeets
  <2>8. QED
    BY <2>6, <2>7
<1>5. QED
  BY <1>2, <1>3, <1>4

-----------------------------------------------------------------------------
(* Transfers by the sender, and what it owes until the receiver may go on. *)

\* A message is handed over, or is not.
LEMMA HandsOver ==
  ASSUME TypeOK, NEW s \in Thread, NEW r \in Thread, NEW open, NEW ok \in BOOLEAN,
         TransferMsg(s, r, open, ok), sent[s] = FALSE, got[r] = FALSE
  PROVE  /\ ok = TRUE => sent' = [sent EXCEPT ![s] = TRUE] /\ got' = [got EXCEPT ![r] = TRUE]
         /\ ok # TRUE => sent' = sent /\ got' = got
         /\ sent'[s] = (ok = TRUE) /\ got'[r] = (ok = TRUE) /\ told' = told
         /\ \A u \in Thread \ {s} : sent'[u] = sent[u]
         /\ \A u \in Thread \ {r} : got'[u] = got[u]
<1>1. sent \in [Thread -> BOOLEAN] /\ got \in [Thread -> BOOLEAN]
  BY DEF TypeOK
<1>2. /\ ok = TRUE => (sent[s] \/ ok) = TRUE /\ (got[r] \/ ok) = TRUE
      /\ ok # TRUE => (sent[s] \/ ok) = FALSE /\ (got[r] \/ ok) = FALSE
  OBVIOUS
<1>3. sent' = [sent EXCEPT ![s] = sent[s] \/ ok] /\ got' = [got EXCEPT ![r] = got[r] \/ ok]
      /\ told' = told
  BY DEF TransferMsg
<1>4. CASE ok = TRUE
  <2>1. sent' = [sent EXCEPT ![s] = TRUE] /\ got' = [got EXCEPT ![r] = TRUE]
    BY ONLY <1>2, <1>3, <1>4
  <2>2. QED
    BY <1>1, <1>3, <1>4, <2>1
<1>5. CASE ok # TRUE
  <2>1. sent' = [sent EXCEPT ![s] = FALSE] /\ got' = [got EXCEPT ![r] = FALSE]
    BY ONLY <1>2, <1>3, <1>5
  <2>2. sent' = sent /\ got' = got
    BY <1>1, <2>1
  <2>3. QED
    BY <1>3, <1>5, <2>2
<1>6. QED
  BY <1>4, <1>5

\* The transfer by the sender.
CopyDone(t, p, ok) ==
    /\ p = reg[t].to /\ pc[t] = "copy" /\ pc'[t] = "pick" /\ drq[t] = "none"
    /\ \A u \in Thread \ {t} : Stays(u)
    /\ UNCHANGED <<chg, partner, senders, drq>>
    /\ \A u \in Thread \ {t} : st'[u] = st[u]
    /\ st'[t] = (st[t] \ IpcMask) \cup
                    (IF ok = TRUE /\ reg[t].from # None THEN {"receive_wait"} ELSE {})
    /\ \E open : TransferMsg(t, p, open, ok)
    /\ \A u \in Thread : /\ reg'[u].to = reg[u].to /\ reg'[u].from = reg[u].from
                         /\ reg'[u].next = reg[u].next /\ reg'[u].res = reg[u].res
                         /\ u # t => reg'[u].ok = reg[u].ok /\ reg'[u].activate = reg[u].activate
                         /\ u # p => reg'[u].tag = reg[u].tag
                         /\ u \notin {t, p} => reg'[u] = reg[u]
    /\ reg'[t].ok = ok /\ reg'[t].activate = TRUE
    /\ reg'[p].tag # "error" <=> ok = TRUE

LEMMA CopyDo ==
  ASSUME TypeInv, NEW t \in Thread, NEW ok \in BOOLEAN, Copy(t, ok), NEW p \in Thread, p = reg[t].to
  PROVE  CopyDone(t, p, ok)
<1>1. /\ pc[t] = "copy" /\ drq[t] = "none" /\ reg \in [Thread -> Locals] /\ TypeOK
      /\ pc' = [pc EXCEPT ![t] = "pick"]
      /\ \E open : TransferMsg(t, p, open, ok)
      /\ UNCHANGED <<chg, partner, senders, drq>>
  BY DEF Copy, At, Goto, TypeInv, TypeOK, ToOK
<1>2. /\ pc'[t] = "pick" /\ (\A u \in Thread \ {t} : Stays(u))
  BY <1>1, CopyMoves DEF TypeOK
<1>3. /\ \A u \in Thread \ {t} : st'[u] = st[u]
      /\ st'[t] = (st[t] \ IpcMask) \cup
                    (IF ok = TRUE /\ reg[t].from # None THEN {"receive_wait"} ELSE {})
  <2>1. st' = [st EXCEPT ![t] = (st[t] \ IpcMask) \cup
                    (IF ok = TRUE /\ reg[t].from # None THEN {"receive_wait"} ELSE {})]
    BY DEF Copy
  <2>2. QED
    BY <1>1, <2>1 DEF TypeOK
<1>4. reg' = [reg EXCEPT ![t].ok = ok, ![t].activate = TRUE, ![p].tag = Tagged(ok)]
  BY DEF Copy
<1>5. /\ \A u \in Thread : /\ reg'[u].to = reg[u].to /\ reg'[u].from = reg[u].from
                           /\ reg'[u].next = reg[u].next /\ reg'[u].res = reg[u].res
                           /\ u # t => reg'[u].ok = reg[u].ok /\ reg'[u].activate = reg[u].activate
                           /\ u # p => reg'[u].tag = reg[u].tag
      /\ reg'[t].ok = ok /\ reg'[t].activate = TRUE
      /\ reg'[p].tag = Tagged(ok)
  <2>1. PICK h : h = reg'
    OBVIOUS
  <2>2. Tagged(ok) \in {"none", "msg", "error"}
    BY DEF Tagged
  <2>3. PICK w \in {"none", "msg", "error"} : w = Tagged(ok) /\ Copied(h, reg, t, p, ok, w)
    BY <1>4, <2>1, <2>2 DEF Copied
  <2>4. /\ h \in [Thread -> Locals]
        /\ \A u \in Thread :
               /\ h[u].to = reg[u].to /\ h[u].from = reg[u].from /\ h[u].items = reg[u].items
               /\ h[u].next = reg[u].next /\ h[u].res = reg[u].res
               /\ (u = t => h[u].activate) /\ (u # t => h[u].activate = reg[u].activate)
               /\ h[u].ok = IF u = t THEN ok ELSE reg[u].ok
               /\ h[u].tag = IF u = p THEN w ELSE reg[u].tag
    BY ONLY <1>1, <2>3, t \in Thread, p \in Thread, ok \in BOOLEAN, SetCopied
  <2>5. h[t].activate = TRUE
    <3>1. h[t].activate \in BOOLEAN
      BY <2>4, LocalTypes
    <3>2. h[t].activate
      BY <2>4
    <3>3. QED
      BY <3>1, <3>2
  <2>6. QED
    BY <2>1, <2>3, <2>4, <2>5
<1>6. \A u \in Thread \ {t, p} : reg'[u] = reg[u]
  BY <1>1, <1>4
<1>7. reg'[p].tag # "error" <=> ok = TRUE
  BY <1>5 DEF Tagged
<1>8. QED
  BY <1>1, <1>2, <1>3, <1>5, <1>6, <1>7 DEF CopyDone

\* What a sender owes to its receiver while it copies, and what it has itself.
LEMMA CopyParts ==
  ASSUME SendInv, MeetOK, NEW t \in Thread, pc[t] = "copy"
  PROVE  /\ reg[t].to \in Thread \ {t} /\ Owes(t, reg[t].to) /\ Transfers(t, reg[t].to)
         /\ OwesOK(t, reg[t].to) /\ got[reg[t].to] = FALSE
         /\ sent[t] = FALSE /\ got[t] = FALSE /\ ~ Past(t) /\ ~ Tr(t) /\ ~ Pending(t) /\ ~ TrEnds(t)
         /\ ~ Listed1(t) /\ Ph(t) = {} /\ reg[t].ok = TRUE
         /\ \A s \in Thread : ~ Owes(s, t)
<1>1. TypeInv /\ SenderInv(t) /\ UnsentOK(t)
  BY MeetParts
<1>2. reg[t].to \in Thread
  BY <1>1, ToType
<1>3. PICK p \in Thread : p = reg[t].to
  BY <1>2
<1>4. Transfers(t, p) /\ Owes(t, p)
  BY <1>3 DEF Transfers, Owes
<1>5. OwesOK(t, p) /\ p # t /\ got[p] = FALSE
  <2>1. OwesOK(t, p)
    BY MeetParts
  <2>2. QED
    BY <1>4, <2>1 DEF OwesOK
<1>6. ~ Pending(t) /\ ~ Listed1(t)
  BY <1>1, FreeSender DEF Waiting, Listed1
<1>7. /\ sent[t] = FALSE /\ got[t] = FALSE /\ ~ Past(t) /\ ~ Tr(t) /\ ~ TrEnds(t)
      /\ \A s \in Thread : ~ Owes(s, t)
  BY <1>6, Unsent DEF Waiting
<1>8. Ph(t) = {} /\ reg[t].ok = TRUE
  BY <1>1, <1>7 DEF UnsentOK, Out
<1>9. QED
  BY <1>3, <1>4, <1>5, <1>6, <1>7, <1>8

LEMMA CopyMeets ==
  ASSUME SendInv, MeetOK, NEW t \in Thread, NEW ok \in BOOLEAN, Copy(t, ok)
  PROVE  MeetOK'
<1>1. TypeInv /\ TypeOK /\ pc[t] = "copy" /\ ToOK(t)
  BY MeetParts DEF Copy, At
<1>2. PICK p \in Thread \ {t} : p = reg[t].to
  BY <1>1, CopyParts
<1>3. /\ Owes(t, p) /\ Transfers(t, p) /\ OwesOK(t, p) /\ got[p] = FALSE
      /\ sent[t] = FALSE /\ got[t] = FALSE /\ ~ Past(t) /\ ~ Tr(t) /\ ~ Pending(t) /\ ~ TrEnds(t)
      /\ ~ Listed1(t) /\ Ph(t) = {} /\ reg[t].ok = TRUE
      /\ \A s \in Thread : ~ Owes(s, t)
  BY <1>1, <1>2, CopyParts
<1>4. CopyDone(t, p, ok)
  BY <1>1, <1>2, CopyDo
<1>5. /\ sent'[t] = (ok = TRUE) /\ got'[p] = (ok = TRUE)
      /\ \A u \in Thread \ {t} : sent'[u] = sent[u]
      /\ \A u \in Thread \ {p} : got'[u] = got[u]
  <2>1. PICK open : TransferMsg(t, p, open, ok)
    BY <1>4 DEF CopyDone
  <2>2. TypeOK /\ sent[t] = FALSE /\ got[p] = FALSE
    BY <1>1, <1>3
  <2>3. QED
    BY <2>1, <2>2, HandsOver
<1>6. \A u \in Thread \ {t, p} : Untouched(u)
  BY <1>4, <1>5 DEF CopyDone, Untouched, SameRegs
<1>7. \A u \in Thread : Listed1(u)' <=> Listed1(u)
  BY <1>4, SameListed DEF CopyDone
<1>8. \A s \in Thread \ {t} : OwesSame(s)
  BY <1>4, StaysOwes, StaysRemains DEF CopyDone
<1>9. \A u \in Thread : /\ Owes(t, u)' <=> Owes(t, u)
                        /\ ~ Transfers(t, u)'
                        /\ u # p => ~ Transfers(t, u) /\ ~ Owes(t, u)
  BY <1>4 DEF CopyDone, Owes, Transfers
<1>10. /\ chg'[t] = chg[t] /\ chg'[p] = chg[p] /\ st'[p] = st[p]
       /\ pc'[p] = pc[p] /\ drq'[p] = drq[p] /\ partner'[p] = partner[p] /\ Stays(p)
  BY <1>4 DEF CopyDone, Stays
<1>11. Looked(t)
  <2>1. ~ Pending(t)' /\ ~ Tr(t)' /\ ~ TrEnds(t)'
    BY <1>3, <1>4 DEF CopyDone, Pending, Tr, TrEnds
  <2>2. Ph(t)' = IF ok = TRUE /\ reg[t].from # None THEN Received ELSE {}
    <3>1. chg[t].add \cap IpcMask = {} /\ chg[t].del \cap IpcMask = {}
      BY <1>3 DEF Pending
    <3>2. QED
      BY <1>4, <3>1 DEF CopyDone, Ph, Eff, Change, Received, IpcMask
  <2>3. Past(t)' /\ pc'[t] \notin Out /\ pc'[t] \notin Waiting
    BY <1>4 DEF CopyDone, Past, After, Out, Waiting
  <2>4. OutOK(t)' /\ UnsentOK(t)' /\ SentOK(t)'
    BY <2>3 DEF OutOK, UnsentOK, SentOK
  <2>5. CanTake(t)' <=> ok = TRUE /\ reg[t].from # None
    BY <1>4 DEF CanTake, CopyDone
  <2>6. ReceiveOK(t)'
    <3>1. got'[t] = FALSE
      BY <1>3, <1>5
    <3>2. pc'[t] = "pick"
      BY <1>4 DEF CopyDone
    <3>3. CASE CanTake(t)'
      BY <2>2, <2>5, <3>1, <3>2, <3>3 DEF ReceiveOK, Received, Taking
    <3>4. CASE ~ CanTake(t)'
      BY <2>2, <2>5, <3>1, <3>2, <3>4 DEF ReceiveOK, Received, Taking
    <3>5. QED
      BY <3>3, <3>4
  <2>7. AfterOK(t)'
    <3>1. reg'[t].to # None
      BY <1>2, <1>4, IpcAssumption DEF CopyDone
    <3>2. sent'[t] = reg'[t].ok
      <4>1. CASE ok = TRUE
        BY <1>4, <1>5, <4>1 DEF CopyDone
      <4>2. CASE ok = FALSE
        BY <1>4, <1>5, <4>2 DEF CopyDone
      <4>3. QED
        BY <4>1, <4>2
    <3>3. pc'[t] = "pick"
      BY <1>4 DEF CopyDone
    <3>4. QED
      BY <2>1, <3>1, <3>2, <3>3 DEF AfterOK, Picked
  <2>8. TransferOK(t)'
    <3>1. drq'[t] = "none" /\ pc'[t] = "pick" /\ ~ Listed1(t)'
      BY <1>3, <1>4, <1>7 DEF CopyDone
    <3>2. QED
      BY <2>1, <3>1 DEF TransferOK, Waiting
  <2>9. \A s \in Thread : OwesOK(s, t)'
    BY <1>2, <1>3, <1>8, <1>9 DEF OwesSame, OwesOK
  <2>10. QED
    BY <2>4, <2>6, <2>7, <2>8, <2>9 DEF ThreadOK, Looked
<1>12. Looked(p)
  <2>1. /\ OutOK(p) /\ UnsentOK(p) /\ SentOK(p) /\ ReceiveOK(p) /\ AfterOK(p) /\ TransferOK(p)
    BY MeetParts
  <2>2. /\ Past(p) /\ Ph(p) = {} /\ ~ Pending(p) /\ Tr(p) /\ ~ TrEnds(p)
        /\ CanTake(p) /\ reg[p].from \in {t, Anyone}
        /\ \A u \in Thread : Owes(u, p) => u = t
    BY <1>3 DEF OwesOK
  <2>3. /\ Ph(p)' = Ph(p) /\ (Tr(p)' <=> Tr(p)) /\ (TrEnds(p)' <=> TrEnds(p))
        /\ (Pending(p)' <=> Pending(p)) /\ (Refused(p)' <=> Refused(p)) /\ (RwIn(p)' <=> RwIn(p))
    BY <1>1, <1>10, QuietFlags
  <2>4. /\ reg'[p].to = reg[p].to /\ reg'[p].from = reg[p].from /\ reg'[p].ok = reg[p].ok
        /\ reg'[p].next = reg[p].next /\ reg'[p].res = reg[p].res /\ reg'[p].activate = reg[p].activate
        /\ sent'[p] = sent[p] /\ got'[p] = (ok = TRUE) /\ (reg'[p].tag # "error" <=> ok = TRUE)
    BY <1>4, <1>5 DEF CopyDone
  <2>5. (Past(p)' <=> Past(p)) /\ (CanTake(p)' <=> CanTake(p)) /\ (Listed1(p)' <=> Listed1(p))
    BY <1>7, <1>10, <2>4 DEF Past, CanTake
  <2>6. OutOK(p)' /\ UnsentOK(p)'
    BY <1>10, <2>1, <2>2, <2>3, <2>5 DEF OutOK, UnsentOK
  <2>7. SentOK(p)'
    BY <1>10, <2>1, <2>3, <2>4 DEF SentOK
  <2>8. ReceiveOK(p)'
    BY <1>10, <2>1, <2>2, <2>3, <2>4, <2>5 DEF ReceiveOK, Received, Taking
  <2>9. AfterOK(p)'
    BY <1>10, <2>1, <2>3, <2>4 DEF AfterOK
  <2>10. TransferOK(p)'
    BY <1>10, <2>1, <2>3, <2>4, <2>5 DEF TransferOK
  <2>11. \A s \in Thread : OwesOK(s, p)'
    <3>1. \A s \in Thread : (Owes(s, p)' <=> Owes(s, p)) /\ ~ Transfers(s, p)'
      <4>1. \A s \in Thread : (Owes(s, p)' <=> Owes(s, p))
        BY <1>8, <1>9 DEF OwesSame
      <4>2. \A s \in Thread \ {t} : ~ Transfers(s, p)'
        BY <1>8, <2>2 DEF OwesSame, Owes
      <4>3. QED
        BY <1>9, <4>1, <4>2
    <3>2. QED
      BY <1>2, <2>2, <2>3, <2>4, <2>5, <3>1 DEF OwesOK
  <2>12. QED
    BY <2>6, <2>7, <2>8, <2>9, <2>10, <2>11 DEF ThreadOK, Looked
<1>13. \A u \in Thread \ {t, p} : Left1(t, u)
  <2>1. \A u \in Thread \ {t, p} : Calm(u)
    BY <1>1, <1>6, QuietCalm, StaysRemains DEF Untouched
  <2>2. QED
    BY <1>7, <1>9, <2>1 DEF Left1
<1>14. QED
  BY <1>8, <1>11, <1>12, <1>13, Assemble

\* The receiver of a transfer is let go.
LEMMA ActivateMeets ==
  ASSUME SendInv, MeetOK, NEW t \in Thread, Activate(t)
  PROVE  MeetOK'
<1>1. /\ TypeInv /\ TypeOK /\ ToOK(t) /\ ThreadOK(t) /\ ReceiveOK(t) /\ AfterOK(t) /\ TransferOK(t)
      /\ st \in [Thread -> SUBSET Flag] /\ chg \in [Thread -> Changes]
      /\ (\A s \in Thread : OwesOK(s, t))
  BY MeetParts DEF TypeOK
<1>2. /\ \A u \in Thread : Stays(u) \/ u = t
      /\ pc[t] = "activate" /\ pc'[t] \in {"receive", "switched"} /\ drq[t] = "none" /\ drq'[t] = "none"
      /\ reg' = reg /\ partner' = partner
  BY <1>1, ActivateMoves DEF Goes
<1>3. PICK p \in Thread : p = reg[t].to
  BY <1>1, <1>2, ToType
<1>4. UNCHANGED <<senders, sent, got>>
  BY DEF Activate, history
<1>0. /\ XcpuStateChange(t, p, {"transfer"}, {"ready"}, st, chg)
      /\ st \in [Thread -> SUBSET Flag] /\ chg \in [Thread -> Changes]
  BY <1>1, <1>3 DEF Activate
<1>5. Owes(t, p) /\ OwesOK(t, p)
  <2>1. reg[t].activate = TRUE
    BY <1>1, <1>2 DEF ToOK
  <2>2. OwesOK(t, p)
    BY MeetParts
  <2>3. QED
    BY <1>2, <1>3, <2>1, <2>2 DEF Owes
<1>6. /\ p # t /\ Past(p) /\ Ph(p) = {} /\ ~ Pending(p) /\ Tr(p) /\ ~ TrEnds(p)
      /\ \A u \in Thread : Owes(u, p) => u = t
  BY <1>5 DEF OwesOK
<1>16. PICK D, A : D = {"transfer"} /\ A = {"ready"} /\ XcpuStateChange(t, p, D, A, st, chg)
  BY <1>0
<1>17. /\ \A u \in Thread \ {p} : st'[u] = st[u] /\ chg'[u] = chg[u]
       /\ \/ /\ Local(t, p)
             /\ st'[p] = (st[p] \ D) \cup A /\ chg'[p] = chg[p]
          \/ /\ ~ Local(t, p)
             /\ st'[p] = st[p]
             /\ chg'[p].del = (chg[p].del \ A) \cup D
             /\ chg'[p].add = (chg[p].add \ D) \cup A
  BY <1>0, <1>16, XcpuPoint
<1>7. \A u \in Thread \ {p} : st'[u] = st[u] /\ chg'[u] = chg[u]
  BY <1>17
<1>8. \A u \in Thread : SameRegs(u) /\ (Listed1(u)' <=> Listed1(u))
  BY <1>2, <1>4, SameListed DEF SameRegs
<1>9. \A s \in Thread \ {t} : OwesSame(s)
  BY <1>2, <1>8, StaysOwes, StaysRemains DEF SameRegs
<1>10. \A u \in Thread : ~ Owes(t, u)' /\ ~ Transfers(t, u) /\ ~ Transfers(t, u)'
  BY <1>2 DEF Owes, Transfers
<1>11. \A u \in Thread : Busy(u) <=> Busy(u)'
  BY <1>9, <1>10 DEF Busy, OwesSame
<1>12. Looked(t)
  <2>1. /\ Ph(t)' = Ph(t) /\ (Tr(t)' <=> Tr(t)) /\ (TrEnds(t)' <=> TrEnds(t))
        /\ (Pending(t)' <=> Pending(t))
    BY <1>1, <1>6, <1>7, QuietFlags
  <2>2. Past(t) /\ ~ Pending(t) /\ Ph(t) # Taking
    BY <1>1, <1>2 DEF AfterOK, After, Past, ReceiveOK
  <2>3. pc'[t] \in After \ {"pull", "pulled"}
    BY <1>2 DEF After
  <2>4. pc'[t] \in Picked /\ reg'[t].next # None => partner'[t] = reg'[t].next /\ Ph(t) = Received
    BY <1>1, <1>2 DEF AfterOK, After, Picked
  <2>5. TrEnds(t)' => Tr(t)'
    BY <1>1, <2>1, <2>2 DEF TransferOK
  <2>6. ThreadOK(t)'
    BY <1>1, <1>2, <1>4, <1>8, <1>11, <2>1, <2>2, <2>3, <2>4, <2>5, GoesAfter
  <2>7. \A s \in Thread : OwesOK(s, t)'
    <3>1. Past(t)'
      BY <2>3 DEF Past
    <3>2. \A s \in Thread : (Owes(s, t)' => Owes(s, t)) /\ (Transfers(s, t)' => Transfers(s, t))
      BY <1>9, <1>10 DEF OwesSame
    <3>3. got'[t] = got[t] /\ reg'[t].from = reg[t].from /\ reg'[t].ok = reg[t].ok
      BY <1>2, <1>4
    <3>4. QED
      BY <1>1, <2>1, <3>1, <3>2, <3>3, OwedOn
  <2>8. QED
    BY <2>6, <2>7 DEF Looked
<1>13. Looked(p)
  <2>1. Steady(p)
    <3>1. Stays(p) /\ SameRegs(p)
      BY <1>2, <1>6, <1>8
    <3>2. /\ TypeOK /\ ~ Pending(p) /\ D \in SUBSET Flag
          /\ A \in SUBSET {"ready", "receive_wait", "transfer_failed"}
      BY <1>1, <1>6, <1>16 DEF Flag, FullMask, Abort
    <3>3. /\ Ph(p)' = Ph(p) /\ (Refused(p)' <=> Refused(p)) /\ ~ Pending(p)'
          /\ (Tr(p)' => Tr(p)) /\ (TrEnds(p)' => Tr(p)') /\ (RwIn(p)' => RwIn(p))
      <4>1. CASE Local(t, p)
        <5>1. st'[p] = (st[p] \ D) \cup A /\ chg'[p] = chg[p]
          BY <1>17, <4>1
        <5>2. /\ Ph(p)' = ((Ph(p) \ D) \cup A) \cap IpcMask
              /\ Refused(p)' <=> (Refused(p) /\ "transfer_failed" \notin D) \/ "transfer_failed" \in A
              /\ Tr(p)' <=> Tr(p) /\ "transfer" \notin D
              /\ TrEnds(p)' <=> TrEnds(p)
              /\ ~ Pending(p)'
          BY <3>2, <5>1, LocalEff
        <5>3. RwIn(p)' => RwIn(p)
          BY <1>16, <5>1 DEF RwIn
        <5>4. QED
          BY <1>6, <1>16, <5>2, <5>3 DEF IpcMask
      <4>2. CASE ~ Local(t, p)
        <5>1. /\ st'[p] = st[p] /\ chg'[p].del = (chg[p].del \ A) \cup D
              /\ chg'[p].add = (chg[p].add \ D) \cup A
          BY <1>17, <4>2
        <5>2. /\ Ph(p)' = ((Ph(p) \ D) \cup A) \cap IpcMask
              /\ Refused(p)' <=> (Refused(p) /\ "transfer_failed" \notin D) \/ "transfer_failed" \in A
              /\ (Tr(p)' <=> Tr(p)) /\ (RwIn(p)' <=> RwIn(p))
              /\ TrEnds(p)' <=> TrEnds(p) \/ "transfer" \in D
              /\ Pending(p)' <=> (D \cup A) \cap (IpcMask \cup {"transfer_failed"}) # {}
          BY <3>2, <5>1, RemoteEff
        <5>3. QED
          BY <1>6, <1>16, <5>2 DEF IpcMask
      <4>3. QED
        BY <4>1, <4>2
    <3>4. QED
      BY <3>1, <3>3, StaysRemains DEF Steady, SameRegs
  <2>2. ThreadOK(p)'
    <3>1. ThreadOK(p)
      BY MeetParts
    <3>2. QED
      BY <1>8, <1>11, <2>1, <3>1, SteadyThread
  <2>3. \A s \in Thread : ~ Owes(s, p)'
    BY <1>6, <1>9, <1>10 DEF OwesSame
  <2>4. QED
    BY <2>2, <2>3 DEF Looked, OwesOK
<1>14. \A u \in Thread \ {t, p} : Left1(t, u)
  <2>1. \A u \in Thread \ {t, p} : Calm(u)
    BY <1>1, <1>2, <1>7, <1>8, QuietCalm, StaysRemains
  <2>2. QED
    BY <1>8, <1>10, <2>1 DEF Left1
<1>15. QED
  BY <1>9, <1>12, <1>13, <1>14, Assemble

\* The DRQ of abort_send().
LEMMA RemoteAbortMeets ==
  ASSUME SendInv, MeetOK, AbortsApart, NEW t \in Thread, RemoteAbortSend(t)
  PROVE  MeetOK'
<1>1. /\ TypeInv /\ TypeOK /\ UnsentOK(t) /\ SentOK(t) /\ ReceiveOK(t) /\ TransferOK(t)
      /\ st \in [Thread -> SUBSET Flag] /\ chg \in [Thread -> Changes] /\ reg \in [Thread -> Locals]
      /\ drq \in [Thread -> {"none", "send", "abort", "reply"}] /\ sent[t] \in BOOLEAN
      /\ (\A s \in Thread : OwesOK(s, t))
  BY MeetParts DEF TypeOK
<1>2. pc[t] = "abort" /\ drq[t] = "abort" /\ drq'[t] = "reply" /\ Leaves(t)
  BY <1>1, RemoteAbortSettles DEF RemoteAbortSend
<1>3. PICK p \in Thread : p = reg[t].to
  BY <1>1, <1>2, ToType
<1>4. p # t
  BY <1>1, <1>2, <1>3 DEF TransferOK
<1>5. /\ st' = [st EXCEPT ![p] = Change(@, p)] /\ chg' = ChangeTaken(p)
      /\ reg' = [reg EXCEPT ![t].res = IF Listed(t) THEN "cancel" ELSE "done"]
      /\ drq' = [drq EXCEPT ![t] = "reply"]
      /\ UNCHANGED <<partner, pc, sent, got>>
  BY <1>3 DEF RemoteAbortSend, history
<1>6. /\ \A u \in Thread :
            /\ reg'[u].to = reg[u].to /\ reg'[u].from = reg[u].from
            /\ reg'[u].next = reg[u].next /\ reg'[u].activate = reg[u].activate
            /\ reg'[u].ok = reg[u].ok /\ reg'[u].tag = reg[u].tag
      /\ reg'[t].res = IF Listed(t) THEN "cancel" ELSE "done"
      /\ \A u \in Thread \ {t} : reg'[u] = reg[u]
  <2>1. PICK v \in {"none", "failed", "queued", "open", "closed", "done", "cancel"} :
           v = IF Listed(t) THEN "cancel" ELSE "done"
    OBVIOUS
  <2>2. reg' = [reg EXCEPT ![t].res = v]
    BY <1>5, <2>1
  <2>3. PICK h : h = reg' /\ h = [reg EXCEPT ![t].res = v]
    BY <2>2
  <2>4. \A u \in Thread :
                   /\ h[u].to = reg[u].to /\ h[u].from = reg[u].from /\ h[u].items = reg[u].items
                   /\ h[u].res = IF u = t THEN v ELSE reg[u].res
                   /\ h[u].next = reg[u].next /\ h[u].activate = reg[u].activate
                   /\ h[u].ok = reg[u].ok /\ h[u].tag = reg[u].tag
    BY ONLY <1>1, <2>3, t \in Thread, SetRes
  <2>5. \A u \in Thread \ {t} : reg'[u] = reg[u]
    BY <1>1, <2>2
  <2>6. QED
    BY <2>1, <2>3, <2>4, <2>5
<1>7. \A u \in Thread \ {t} : Stays(u) /\ SameRegs(u)
  BY <1>1, <1>5, <1>6 DEF Stays, SameRegs
<1>8. \A u \in Thread \ {t} : Calm(u)
  <2>1. \A u \in Thread \ {p} : st'[u] = st[u] /\ chg'[u] = chg[u]
    BY <1>1, <1>5 DEF ChangeTaken
  <2>2. st'[p] = Change(st[p], p) /\ chg'[p] = NoChange
    BY <1>1, <1>5 DEF ChangeTaken
  <2>3. QED
    BY <1>1, <1>7, <2>1, <2>2, QuietCalm, ChangesCalm, StaysRemains
<1>9. st'[t] = st[t] /\ chg'[t] = chg[t] /\ pc'[t] = "abort" /\ sent'[t] = sent[t] /\ got'[t] = got[t]
  BY <1>1, <1>2, <1>4, <1>5 DEF ChangeTaken
<1>10. /\ Ph(t)' = Ph(t) /\ (Tr(t)' <=> Tr(t)) /\ (TrEnds(t)' <=> TrEnds(t))
       /\ (Pending(t)' <=> Pending(t)) /\ (Refused(t)' <=> Refused(t)) /\ (RwIn(t)' <=> RwIn(t))
  BY <1>1, <1>9, QuietFlags
<1>11. OwesSame(t)
  BY <1>2, <1>9, OwesNone
<1>12. \A s \in Thread : OwesSame(s)
  BY <1>7, <1>11, StaysOwes, StaysRemains DEF SameRegs
<1>13. \A u \in Thread \ {t} : Left1(t, u)
  BY <1>2, <1>8, <1>12 DEF Left1, OwesSame, Leaves, Listed1
<1>14. Looked(t)
  <2>1. Listed(t) <=> Listed1(t)
    BY DEF Listed, Listed1, On
  <2>2. ~ Refused(t)
    BY <1>1, <1>2, EffIs DEF AbortsApart, Tf
  <2>3. (Past(t) <=> sent[t] = TRUE) /\ (Past(t)' <=> Past(t)) /\ pc'[t] \notin Out /\ pc[t] \notin Out
        /\ pc'[t] \notin After /\ pc[t] \in Waiting
    BY <1>2, <1>9 DEF Past, After, Waiting, Out
  <2>4. CanTake(t)' <=> CanTake(t)
    BY <1>6 DEF CanTake
  <2>5. Listed(t) <=> ~ Past(t)
    BY <1>1, <1>2, <2>1, <2>2, <2>3 DEF UnsentOK, StillWaits, TransferOK
  <2>6. OutOK(t)' /\ AfterOK(t)'
    BY <2>3 DEF OutOK, AfterOK
  <2>7. UnsentOK(t)'
    BY <1>1, <1>2, <1>6, <1>9, <1>10, <2>3, <2>5 DEF UnsentOK
  <2>8. SentOK(t)'
    BY <1>1, <1>2, <1>6, <1>9, <1>10, <2>3, <2>5 DEF SentOK
  <2>9. ReceiveOK(t)'
    <3>1. Busy(t) <=> Busy(t)'
      BY <1>12 DEF Busy, OwesSame
    <3>2. QED
      BY <1>1, <1>2, <1>6, <1>9, <1>10, <2>3, <2>4, <3>1 DEF ReceiveOK
  <2>10. TransferOK(t)'
    <3>1. ~ Listed1(t)'
      BY <1>2 DEF Leaves, Listed1
    <3>2. QED
      BY <1>1, <1>2, <1>6, <1>9, <1>10, <2>3, <3>1 DEF TransferOK
  <2>11. \A s \in Thread : OwesOK(s, t)'
    BY <1>1, <1>6, <1>9, <1>10, <1>12, <2>3, OwedOn DEF OwesSame
  <2>12. QED
    BY <2>6, <2>7, <2>8, <2>9, <2>10, <2>11 DEF ThreadOK, Looked
<1>15. QED
  BY <1>12, <1>13, <1>14, Assemble

-----------------------------------------------------------------------------
(* A sender that is refused, and transfers by the receiver. *)

\* A waiting sender hears that its transfer has failed.
LEMMA RefusesEff ==
  ASSUME TypeOK, NEW t \in Thread, NEW n \in Thread, ~ Pending(n),
         NEW f \in [Thread -> SUBSET Flag], f[n] = st[n],
         XcpuStateChange(t, n, {}, {"transfer_failed", "ready"}, f, chg)
  PROVE  /\ Ph(n)' = Ph(n) /\ Refused(n)' /\ (Tr(n)' <=> Tr(n)) /\ (TrEnds(n)' <=> TrEnds(n))
         /\ RwIn(n)' => RwIn(n)
         /\ \A u \in Thread \ {n} : st'[u] = f[u] /\ chg'[u] = chg[u]
<1>1. /\ chg \in [Thread -> Changes] /\ f \in [Thread -> SUBSET Flag]
      /\ XcpuStateChange(t, n, {}, {"transfer_failed", "ready"}, f, chg)
  BY DEF TypeOK
<1>2. PICK D, A : /\ D = {} /\ A = {"transfer_failed", "ready"}
                  /\ XcpuStateChange(t, n, D, A, f, chg)
  BY <1>1
<1>3. /\ \A u \in Thread \ {n} : st'[u] = f[u] /\ chg'[u] = chg[u]
      /\ \/ /\ Local(t, n)
            /\ st'[n] = (f[n] \ D) \cup A /\ chg'[n] = chg[n]
         \/ /\ ~ Local(t, n)
            /\ st'[n] = f[n]
            /\ chg'[n].del = (chg[n].del \ A) \cup D
            /\ chg'[n].add = (chg[n].add \ D) \cup A
  <2>1. CASE Local(t, n)
    BY <1>1, <1>2, <2>1 DEF XcpuStateChange
  <2>2. CASE ~ Local(t, n)
    BY <1>1, <1>2, <2>2 DEF XcpuStateChange
  <2>3. QED
    BY <2>1, <2>2
<1>4. /\ TypeOK /\ ~ Pending(n) /\ D \in SUBSET Flag
      /\ A \in SUBSET {"ready", "receive_wait", "transfer_failed"}
  BY <1>2
<1>5. CASE Local(t, n)
  <2>1. st'[n] = (st[n] \ D) \cup A /\ chg'[n] = chg[n]
    BY <1>3, <1>5
  <2>2. /\ Ph(n)' = ((Ph(n) \ D) \cup A) \cap IpcMask
        /\ Refused(n)' <=> (Refused(n) /\ "transfer_failed" \notin D) \/ "transfer_failed" \in A
        /\ Tr(n)' <=> Tr(n) /\ "transfer" \notin D
        /\ TrEnds(n)' <=> TrEnds(n)
        /\ ~ Pending(n)'
    BY <1>4, <2>1, LocalEff
  <2>3. RwIn(n)' => RwIn(n)
    BY <1>2, <2>1 DEF RwIn
  <2>4. Ph(n)' = Ph(n)
    BY <1>2, <2>2 DEF Ph, IpcMask
  <2>5. QED
    BY <1>2, <1>3, <2>2, <2>3, <2>4
<1>6. CASE ~ Local(t, n)
  <2>1. /\ st'[n] = st[n] /\ chg'[n].del = (chg[n].del \ A) \cup D
        /\ chg'[n].add = (chg[n].add \ D) \cup A
    BY <1>3, <1>6
  <2>2. /\ Ph(n)' = ((Ph(n) \ D) \cup A) \cap IpcMask
        /\ Refused(n)' <=> (Refused(n) /\ "transfer_failed" \notin D) \/ "transfer_failed" \in A
        /\ (Tr(n)' <=> Tr(n)) /\ (RwIn(n)' <=> RwIn(n))
        /\ TrEnds(n)' <=> TrEnds(n) \/ "transfer" \in D
        /\ Pending(n)' <=> (D \cup A) \cap (IpcMask \cup {"transfer_failed"}) # {}
    BY <1>4, <2>1, RemoteEff
  <2>3. Ph(n)' = Ph(n)
    BY <1>2, <2>2 DEF Ph, IpcMask
  <2>4. QED
    BY <1>2, <1>3, <2>2, <2>3
<1>7. QED
  BY <1>5, <1>6

\* Where a sender in a list is, and what it is.
LEMMA ListedWhere ==
  ASSUME SendInv, MeetOK, NEW p \in Thread, NEW n \in Thread, On(p, n)
  PROVE  /\ reg[n].to = p /\ pc[n] \in Waiting
         /\ pc[n] = "drq" => drq[n] # "send" /\ reg[n].res = "queued"
         /\ pc[n] # "abort" \/ drq[n] = "abort"
<1>1. SenderInv(n)
  BY MeetParts
<1>2. QED
  BY <1>1 DEF SenderInv, ListedOK, Waiting

LEMMA ListedSender ==
  ASSUME SendInv, MeetOK, NEW p \in Thread, NEW n \in Thread, On(p, n)
  PROVE  /\ reg[n].to = p /\ ~ Pending(n) /\ ~ Refused(n) /\ ~ Tr(n) /\ ~ TrEnds(n) /\ ~ RwIn(n)
         /\ pc[n] \in Waiting /\ sent[n] = FALSE /\ got[n] = FALSE /\ ~ Past(n)
         /\ reg[n].activate # TRUE /\ reg[n].ok = TRUE
         /\ Ph(n) = {} \/ Ph(n) = Sending
         /\ \A s \in Thread : ~ Owes(s, n)
<1>1. /\ UnsentOK(n) /\ TransferOK(n) /\ SenderInv(n) /\ TypeOK
  BY MeetParts
<1>2. /\ reg[n].to = p /\ ~ Pending(n) /\ ~ Tf(n) /\ pc[n] \in Waiting
      /\ pc[n] = "drq" => drq[n] # "send" /\ reg[n].res = "queued"
      /\ pc[n] = "abort" => drq[n] = "abort"
  BY <1>1 DEF SenderInv, ListedOK, Waiting
<1>3. sent[n] = FALSE
  BY <1>1 DEF TransferOK, Listed1
<1>4. /\ ~ Past(n) /\ got[n] = FALSE /\ ~ Tr(n) /\ ~ TrEnds(n) /\ (Ph(n) = {} \/ Ph(n) = Sending)
      /\ reg[n].activate # TRUE /\ (\A s \in Thread : ~ Owes(s, n))
  BY <1>2, <1>3, Unsent
<1>5. ~ Refused(n) /\ ~ RwIn(n)
  BY <1>1, <1>2, <1>4, EffIs DEF RwIn, Sending, IpcMask
<1>6. reg[n].ok = TRUE
  <2>1. StillWaits(n)
    BY <1>1, <1>2, <1>4 DEF UnsentOK, Waiting, Out
  <2>2. QED
    BY <1>5, <2>1 DEF StillWaits
<1>7. QED
  BY <1>2, <1>3, <1>4, <1>5, <1>6

\* ... and what it is once it is refused.
LEMMA RefusedMeets ==
  ASSUME SendInv, MeetOK, NEW p \in Thread, NEW n \in Thread, On(p, n),
         Remains(n), sent'[n] = FALSE, got'[n] = FALSE, reg'[n].activate = reg[n].activate,
         Ph(n)' = Ph(n), Refused(n)', ~ Tr(n)', ~ TrEnds(n)', ~ RwIn(n)',
         \A s \in Thread : ~ Owes(s, n)'
  PROVE  Looked(n)
<1>1. /\ UnsentOK(n) /\ TransferOK(n)
  BY MeetParts
<1>2. /\ pc[n] \in Waiting /\ ~ Past(n) /\ reg[n].activate # TRUE
      /\ pc[n] = "drq" => drq[n] # "send" /\ reg[n].res = "queued"
      /\ pc[n] # "abort" \/ drq[n] = "abort"
  BY ListedSender, ListedWhere
<1>3. pc'[n] = pc[n] /\ pc[n] \notin Out /\ pc[n] \notin After /\ ~ Past(n)'
  BY <1>2 DEF Remains, Waiting, Out, After, Past
<1>4. OutOK(n)' /\ SentOK(n)' /\ ReceiveOK(n)' /\ AfterOK(n)'
  BY <1>3 DEF OutOK, SentOK, ReceiveOK, AfterOK
<1>5. UnsentOK(n)'
  BY <1>1, <1>2, <1>3 DEF UnsentOK, Remains, StillWaits, Waiting
<1>6. TransferOK(n)'
  BY <1>1, <1>2, <1>3 DEF TransferOK, Remains
<1>7. QED
  BY <1>4, <1>5, <1>6 DEF ThreadOK, Looked, OwesOK

\* ipc_receiver_aborted().
LEMMA AbortSenderMeets ==
  ASSUME SendInv, MeetOK, NEW t \in Thread, AbortSender(t)
  PROVE  MeetOK'
<1>1. /\ TypeInv /\ TypeOK /\ st \in [Thread -> SUBSET Flag]
  BY MeetParts
<1>2. PICK n : n = Head(senders[t]) /\ Answered(t, n)
  BY AbortSenderSettles
<1>3. /\ n \in Thread \ {t} /\ On(t, n) /\ Leaves(n)
  BY <1>2 DEF Answered
<1>4. /\ \A u \in Thread \ {t} : Stays(u)
      /\ pc[t] = "kill" /\ UNCHANGED <<partner, drq, pc, reg, sent, got>>
  BY <1>1, KillMoves DEF AbortSender, At, history
<1>5. XcpuStateChange(t, n, {}, {"transfer_failed", "ready"}, st, chg)
  BY <1>2 DEF AbortSender
<1>6. /\ ~ Pending(n) /\ ~ Tr(n) /\ ~ TrEnds(n) /\ ~ RwIn(n) /\ sent[n] = FALSE /\ got[n] = FALSE
      /\ \A s \in Thread : ~ Owes(s, n)
  BY <1>3, ListedSender
<1>7. /\ Ph(n)' = Ph(n) /\ Refused(n)' /\ (Tr(n)' <=> Tr(n)) /\ (TrEnds(n)' <=> TrEnds(n))
      /\ RwIn(n)' => RwIn(n)
      /\ \A u \in Thread \ {n} : st'[u] = st[u] /\ chg'[u] = chg[u]
  BY <1>1, <1>3, <1>5, <1>6, RefusesEff
<1>8. \A u \in Thread : Remains(u) /\ SameRegs(u)
  BY <1>4 DEF Remains, SameRegs
<1>9. \A s \in Thread : OwesSame(s)
  BY <1>8, StaysOwes DEF SameRegs
<1>10. Looked(n)
  BY <1>3, <1>6, <1>7, <1>8, <1>9, RefusedMeets DEF SameRegs, OwesSame
<1>11. \A u \in Thread \ {n} : Left1(t, u)
  <2>1. \A u \in Thread \ {n} : Calm(u)
    BY <1>1, <1>7, <1>8, QuietCalm
  <2>2. QED
    BY <1>3, <1>9, <2>1 DEF Left1, OwesSame, Leaves, Listed1
<1>12. QED
  BY <1>9, <1>10, <1>11, Assemble

\* Locals after ipc_send_msg() of the sender n by t.
LEMMA PullLocals ==
  ASSUME TypeInv, NEW t \in Thread, NEW n \in Thread, n = reg[t].next, n # t,
         NEW ok \in BOOLEAN, Pull(t, ok)
  PROVE  /\ \A u \in Thread : /\ reg'[u].to = reg[u].to /\ reg'[u].from = reg[u].from
                              /\ reg'[u].next = reg[u].next /\ reg'[u].res = reg[u].res
                              /\ reg'[u].activate = reg[u].activate
                              /\ u # n => reg'[u].ok = reg[u].ok
                              /\ u # t => reg'[u].tag = reg[u].tag
                              /\ u \notin {t, n} => reg'[u] = reg[u]
         /\ reg'[n].ok = ok
         /\ reg'[t].tag = Tagged(ok)
<1>1. reg \in [Thread -> Locals] /\ reg' = [reg EXCEPT ![t].tag = Tagged(ok), ![n].ok = ok]
  BY DEF Pull, TypeInv, TypeOK
<1>2. PICK w \in {"none", "msg", "error"} : w = Tagged(ok)
  BY DEF Tagged
<1>3. PICK g : g = [reg EXCEPT ![t].tag = w]
  OBVIOUS
<1>4. PICK h : h = reg' /\ h = [g EXCEPT ![n].ok = ok]
  BY <1>1, <1>2, <1>3
<1>5. /\ g \in [Thread -> Locals]
      /\ \A u \in Thread :
                   /\ g[u].to = reg[u].to /\ g[u].from = reg[u].from /\ g[u].items = reg[u].items
                   /\ g[u].tag = IF u = t THEN w ELSE reg[u].tag
                   /\ g[u].next = reg[u].next /\ g[u].activate = reg[u].activate
                   /\ g[u].res = reg[u].res /\ g[u].ok = reg[u].ok
  BY ONLY <1>1, <1>3, t \in Thread, w \in {"none", "msg", "error"}, SetTag
<1>6. PICK v \in BOOLEAN : v = ok
  OBVIOUS
<1>10. g \in [Thread -> Locals] /\ h = [g EXCEPT ![n].ok = v]
  BY <1>4, <1>5, <1>6
<1>11. /\ h \in [Thread -> Locals]
       /\ \A u \in Thread :
                   /\ h[u].to = g[u].to /\ h[u].from = g[u].from /\ h[u].items = g[u].items
                   /\ h[u].ok = IF u = n THEN v ELSE g[u].ok
                   /\ h[u].next = g[u].next /\ h[u].activate = g[u].activate
                   /\ h[u].res = g[u].res /\ h[u].tag = g[u].tag
  BY ONLY <1>10, n \in Thread, v \in BOOLEAN, SetOk
<1>7. \A u \in Thread \ {t, n} : reg'[u] = reg[u]
  BY <1>1
<1>8. QED
  BY <1>2, <1>4, <1>5, <1>6, <1>7, <1>11

\* What is known of who takes a message from a waiting sender, before and after.
Pulls(t, n, ok) ==
    /\ n \in Thread \ {t} /\ n = reg[t].next /\ On(t, n) /\ Leaves(n)
    /\ pc[t] = "pull" /\ pc'[t] \in {"end", "pulled"} /\ drq[t] = "none" /\ drq'[t] = "none"
    /\ \A u \in Thread \ {t} : Stays(u)
    /\ partner' = partner
    /\ st'[t] = IF pc'[t] = "pulled" THEN st[t] ELSE st[t] \ IpcMask
    /\ chg'[t] = chg[t]
    /\ \A u \in Thread \ {t, n} : st'[u] = st[u] /\ chg'[u] = chg[u]
    /\ sent'[n] = (ok = TRUE) /\ got'[t] = (ok = TRUE)
    /\ \A u \in Thread \ {n} : sent'[u] = sent[u]
    /\ \A u \in Thread \ {t} : got'[u] = got[u]

LEMMA PullDo ==
  ASSUME SendInv, MeetOK, PickedNeverGone, NEW t \in Thread, NEW ok \in BOOLEAN, Pull(t, ok)
  PROVE  \E n \in Thread : \E f \in [Thread -> SUBSET Flag] :
            /\ Pulls(t, n, ok) /\ f[n] = st[n]
            /\ IF ok
               THEN XcpuStateChange(t, n, IpcMask \cup {"transfer"}, SentFlags(n), f, chg)
               ELSE XcpuStateChange(t, n, {}, {"transfer_failed", "ready"}, f, chg)
<1>1. /\ TypeInv /\ TypeOK /\ ReceiveOK(t) /\ ToOK(t)
      /\ st \in [Thread -> SUBSET Flag] /\ chg \in [Thread -> Changes] /\ pc \in [Thread -> Labels]
  BY MeetParts DEF TypeOK
<1>2. /\ \A u \in Thread \ {t} : Stays(u)
      /\ pc[t] = "pull" /\ pc'[t] \in {"end", "pulled"} /\ drq[t] = "none" /\ drq'[t] = "none"
      /\ partner' = partner
  BY <1>1, PullMoves DEF Goes
<1>3. PICK n \in Thread : n = reg[t].next
  BY <1>1, <1>2, ToType
<1>4. On(t, n)
  BY <1>1, <1>2, <1>3 DEF PickedNeverGone, On, ToOK
<1>5. n # t /\ Leaves(n)
  BY <1>3, <1>4, PullSettles DEF Answered
<1>6. got[t] = FALSE /\ sent[n] = FALSE
  <2>1. got[t] = FALSE
    BY <1>1, <1>2 DEF ReceiveOK, Past, After
  <2>2. QED
    BY <1>4, <2>1, ListedSender
<1>7. /\ sent'[n] = (ok = TRUE) /\ got'[t] = (ok = TRUE)
      /\ \A u \in Thread \ {n} : sent'[u] = sent[u]
      /\ \A u \in Thread \ {t} : got'[u] = got[u]
  <2>1. PICK open : TransferMsg(n, t, open, ok)
    BY <1>3 DEF Pull
  <2>2. QED
    BY <1>1, <1>6, <2>1, HandsOver
<1>8. PICK f : /\ \/ f = st /\ pc'[t] = "pulled"
                  \/ f = [st EXCEPT ![t] = st[t] \ IpcMask] /\ pc'[t] = "end"
               /\ IF ok
                  THEN XcpuStateChange(t, n, IpcMask \cup {"transfer"}, SentFlags(n), f, chg)
                  ELSE XcpuStateChange(t, n, {}, {"transfer_failed", "ready"}, f, chg)
  BY <1>1, <1>3 DEF Pull, Goto
<1>9. /\ f \in [Thread -> SUBSET Flag]
      /\ \A u \in Thread \ {t} : f[u] = st[u]
      /\ f[t] = IF pc'[t] = "pulled" THEN st[t] ELSE st[t] \ IpcMask
  <2>1. st[t] \ IpcMask \in SUBSET Flag
    BY <1>1
  <2>2. QED
    BY <1>1, <1>8, <2>1
<1>10. \A u \in Thread \ {n} : st'[u] = f[u] /\ chg'[u] = chg[u]
  <2>1. CASE ok
    BY <1>1, <1>8, <1>9, <2>1 DEF XcpuStateChange
  <2>2. CASE ~ ok
    BY <1>1, <1>8, <1>9, <2>2 DEF XcpuStateChange
  <2>3. QED
    BY <2>1, <2>2
<1>11. Pulls(t, n, ok)
  BY <1>2, <1>3, <1>4, <1>5, <1>7, <1>9, <1>10 DEF Pulls
<1>12. QED
  BY <1>5, <1>8, <1>9, <1>11

\* The receiver has its message, or an error.
LEMMA PullReceiver ==
  ASSUME SendInv, MeetOK, NEW t \in Thread, NEW n \in Thread, NEW ok \in BOOLEAN, Pull(t, ok),
         Pulls(t, n, ok), \A s \in Thread : Owes(s, t)' => Owes(s, t)
  PROVE  Looked(t)
<1>1. /\ TypeInv /\ TypeOK /\ ReceiveOK(t) /\ AfterOK(t) /\ TransferOK(t)
      /\ (\A s \in Thread : OwesOK(s, t))
  BY MeetParts
<1>2. /\ pc[t] = "pull" /\ Past(t) /\ ~ Pending(t) /\ Ph(t) = Taking /\ CanTake(t)
      /\ ~ Tr(t) /\ ~ TrEnds(t)
  <2>1. pc[t] = "pull" /\ Past(t) /\ ~ Pending(t)
    BY <1>1 DEF Pulls, AfterOK, Past, After
  <2>2. Ph(t) = Taking /\ CanTake(t)
    BY <1>1, <2>1 DEF ReceiveOK
  <2>3. QED
    BY <1>1, <2>1, <2>2 DEF TransferOK, Taking
<1>3. /\ reg'[t].to = reg[t].to /\ reg'[t].from = reg[t].from /\ reg'[t].next = reg[t].next
      /\ reg'[t].activate = reg[t].activate /\ reg'[t].ok = reg[t].ok
      /\ reg'[t].tag # "error" <=> ok = TRUE
  <2>1. n = reg[t].next /\ n # t
    BY DEF Pulls
  <2>2. /\ reg'[t].to = reg[t].to /\ reg'[t].from = reg[t].from /\ reg'[t].next = reg[t].next
        /\ reg'[t].activate = reg[t].activate /\ reg'[t].ok = reg[t].ok
        /\ reg'[t].tag = Tagged(ok)
    BY ONLY <1>1, <2>1, t \in Thread, n \in Thread, ok \in BOOLEAN, Pull(t, ok), PullLocals
  <2>3. QED
    BY <2>2 DEF Tagged
<1>4. /\ ~ Pending(t)' /\ ~ Tr(t)' /\ ~ TrEnds(t)'
      /\ Ph(t)' = IF pc'[t] = "pulled" THEN Taking ELSE {}
  <2>1. chg[t].add \cap IpcMask = {} /\ chg[t].del \cap IpcMask = {}
    BY <1>2 DEF Pending
  <2>2. CASE pc'[t] = "pulled"
    BY <1>2, <2>2 DEF Pulls, Pending, Tr, TrEnds, Ph, Eff, Change
  <2>3. CASE pc'[t] # "pulled"
    BY <1>2, <2>1, <2>3 DEF Pulls, Pending, Tr, TrEnds, Ph, Eff, Change
  <2>4. QED
    BY <2>2, <2>3
<1>5. /\ Past(t)' /\ pc'[t] \notin Out /\ pc'[t] \notin Waiting /\ pc'[t] \notin Picked
      /\ pc'[t] \in {"end", "pulled"} /\ got'[t] = (ok = TRUE) /\ sent'[t] = sent[t]
      /\ drq'[t] = "none"
  BY DEF Pulls, Past, After, Out, Waiting, Picked
<1>6. OutOK(t)' /\ UnsentOK(t)' /\ SentOK(t)'
  BY <1>5 DEF OutOK, UnsentOK, SentOK
<1>7. ReceiveOK(t)'
  <2>1. CanTake(t)'
    BY <1>2, <1>3 DEF CanTake
  <2>2. got'[t] = TRUE <=> reg'[t].tag # "error"
    BY <1>3, <1>5
  <2>3. QED
    BY <1>4, <1>5, <2>1, <2>2 DEF ReceiveOK, Taking, Received
<1>8. AfterOK(t)'
  BY <1>1, <1>3, <1>4, <1>5 DEF AfterOK, Pulls, After
<1>9. TransferOK(t)'
  BY <1>1, <1>4, <1>5 DEF TransferOK, Pulls, Leaves, Listed1
<1>10. \A s \in Thread : OwesOK(s, t)'
  <2>1. Ph(t) # {}
    BY <1>2 DEF Taking
  <2>2. QED
    BY <1>1, <2>1, NotOwed
<1>11. QED
  BY <1>6, <1>7, <1>8, <1>9, <1>10 DEF ThreadOK, Looked

\* The flags of a sender whose message has been taken.
LEMMA SentEff ==
  ASSUME SendInv, MeetOK, NEW t \in Thread, NEW n \in Thread, On(t, n),
         NEW f \in [Thread -> SUBSET Flag], f[n] = st[n],
         XcpuStateChange(t, n, IpcMask \cup {"transfer"}, SentFlags(n), f, chg)
  PROVE  /\ Ph(n)' = IF reg[n].from # None THEN Received ELSE {}
         /\ ~ Refused(n)' /\ ~ Tr(n)' /\ (TrEnds(n)' => Pending(n)')
         /\ Pending(n)' => ~ RwIn(n)'
<1>1. TypeOK /\ chg \in [Thread -> Changes]
  BY MeetParts DEF TypeOK
<1>2. /\ ~ Pending(n) /\ ~ Refused(n) /\ ~ Tr(n) /\ ~ TrEnds(n) /\ ~ RwIn(n)
  BY ListedSender
<1>3. PICK D, A : /\ D = IpcMask \cup {"transfer"} /\ A = SentFlags(n)
                  /\ XcpuStateChange(t, n, D, A, f, chg)
  OBVIOUS
<1>4. /\ TypeOK /\ ~ Pending(n) /\ D \in SUBSET Flag
      /\ A \in SUBSET {"ready", "receive_wait", "transfer_failed"}
  BY <1>1, <1>2, <1>3 DEF SentFlags, Flag, FullMask, Abort
<1>5. /\ D = IpcMask \cup {"transfer"} /\ "transfer_failed" \notin D /\ "transfer" \in D
      /\ "transfer_failed" \notin A
      /\ A \cap IpcMask = IF reg[n].from # None THEN Received ELSE {}
  BY <1>3 DEF SentFlags, IpcMask, Received
<1>6. CASE Local(t, n)
  <2>1. st'[n] = (st[n] \ D) \cup A /\ chg'[n] = chg[n]
    BY <1>1, <1>3, <1>6 DEF XcpuStateChange
  <2>2. /\ Ph(n)' = ((Ph(n) \ D) \cup A) \cap IpcMask
        /\ Refused(n)' <=> (Refused(n) /\ "transfer_failed" \notin D) \/ "transfer_failed" \in A
        /\ Tr(n)' <=> Tr(n) /\ "transfer" \notin D
        /\ TrEnds(n)' <=> TrEnds(n)
        /\ ~ Pending(n)'
    BY <1>4, <2>1, LocalEff
  <2>3. QED
    BY <1>2, <1>5, <2>2
<1>7. CASE ~ Local(t, n)
  <2>1. /\ st'[n] = st[n] /\ chg'[n].del = (chg[n].del \ A) \cup D
        /\ chg'[n].add = (chg[n].add \ D) \cup A
    BY <1>1, <1>3, <1>7 DEF XcpuStateChange
  <2>2. /\ Ph(n)' = ((Ph(n) \ D) \cup A) \cap IpcMask
        /\ Refused(n)' <=> (Refused(n) /\ "transfer_failed" \notin D) \/ "transfer_failed" \in A
        /\ (Tr(n)' <=> Tr(n)) /\ (RwIn(n)' <=> RwIn(n))
        /\ TrEnds(n)' <=> TrEnds(n) \/ "transfer" \in D
        /\ Pending(n)' <=> (D \cup A) \cap (IpcMask \cup {"transfer_failed"}) # {}
    BY <1>4, <2>1, RemoteEff
  <2>3. Pending(n)'
    BY <1>5, <2>2 DEF IpcMask
  <2>4. QED
    BY <1>2, <1>5, <2>2, <2>3
<1>8. QED
  BY <1>6, <1>7

\* The sender may go on, or has failed.
LEMMA PullSender ==
  ASSUME SendInv, MeetOK, NEW t \in Thread, NEW n \in Thread, NEW ok \in BOOLEAN, Pull(t, ok),
         Pulls(t, n, ok), NEW f \in [Thread -> SUBSET Flag], f[n] = st[n],
         IF ok THEN XcpuStateChange(t, n, IpcMask \cup {"transfer"}, SentFlags(n), f, chg)
               ELSE XcpuStateChange(t, n, {}, {"transfer_failed", "ready"}, f, chg),
         \A s \in Thread : ~ Owes(s, n)'
  PROVE  Looked(n)
<1>1. On(t, n) /\ n # t /\ Stays(n) /\ TypeOK /\ TypeInv /\ TransferOK(n)
  BY MeetParts DEF Pulls
<1>2. /\ reg[n].to = t /\ ~ Pending(n) /\ ~ Refused(n) /\ ~ Tr(n) /\ ~ TrEnds(n) /\ ~ RwIn(n)
      /\ pc[n] \in Waiting /\ sent[n] = FALSE /\ got[n] = FALSE /\ ~ Past(n)
      /\ pc[n] = "drq" => drq[n] # "send" /\ reg[n].res = "queued"
      /\ pc[n] = "abort" => drq[n] = "abort"
      /\ reg[n].activate # TRUE
  <2>1. On(t, n)
    BY <1>1
  <2>2. /\ pc[n] # "abort" \/ drq[n] = "abort"
        /\ pc[n] = "drq" => drq[n] # "send" /\ reg[n].res = "queued"
    BY ONLY <2>1, SendInv, MeetOK, t \in Thread, n \in Thread, ListedWhere
  <2>3. /\ reg[n].to = t /\ ~ Pending(n) /\ ~ Refused(n) /\ ~ Tr(n) /\ ~ TrEnds(n) /\ ~ RwIn(n)
        /\ pc[n] \in Waiting /\ sent[n] = FALSE /\ got[n] = FALSE /\ ~ Past(n)
        /\ reg[n].activate # TRUE
    BY ONLY <2>1, SendInv, MeetOK, t \in Thread, n \in Thread, ListedSender
  <2>4. QED
    BY <2>2, <2>3
<1>3. reg'[n].activate = reg[n].activate /\ reg'[n].ok = ok
  BY <1>1, PullLocals DEF Pulls
<1>4. sent'[n] = (ok = TRUE) /\ got'[n] = FALSE
  BY <1>1, <1>2 DEF Pulls
<1>5. CASE ok = TRUE
  <2>1. /\ Ph(n)' = IF reg[n].from # None THEN Received ELSE {}
        /\ ~ Refused(n)' /\ ~ Tr(n)' /\ (TrEnds(n)' => Pending(n)')
        /\ Pending(n)' => ~ RwIn(n)'
    <3>1. XcpuStateChange(t, n, IpcMask \cup {"transfer"}, SentFlags(n), f, chg)
      BY <1>5
    <3>2. QED
      BY <1>1, <3>1, SentEff
  <2>2. /\ Past(n)' /\ pc'[n] = pc[n] /\ pc'[n] \notin Out /\ pc'[n] \notin After
        /\ drq'[n] = drq[n] /\ reg'[n].res = reg[n].res /\ reg'[n].from = reg[n].from
        /\ reg'[n].to = reg[n].to
    BY <1>1, <1>2, <1>4, <1>5 DEF Stays, Past, Waiting, Out, After
  <2>3. OutOK(n)' /\ UnsentOK(n)' /\ AfterOK(n)'
    BY <2>2 DEF OutOK, UnsentOK, AfterOK
  <2>4. SentOK(n)'
    BY <1>2, <1>3, <1>5, <2>1, <2>2 DEF SentOK
  <2>5. ReceiveOK(n)'
    <3>1. CanTake(n)' <=> reg[n].from # None
      BY <1>3, <1>5, <2>2 DEF CanTake
    <3>2. pc'[n] \notin {"pull", "pulled"}
      BY <2>2 DEF After
    <3>3. QED
      BY <1>4, <2>1, <3>1, <3>2 DEF ReceiveOK, Received, Taking
  <2>6. TransferOK(n)'
    <3>1. ~ Listed1(n)'
      BY DEF Pulls, Leaves, Listed1
    <3>2. QED
      BY <1>1, <1>2, <1>3, <2>1, <2>2, <3>1 DEF TransferOK
  <2>7. QED
    BY <2>3, <2>4, <2>5, <2>6 DEF ThreadOK, Looked, OwesOK
<1>6. CASE ok = FALSE
  <2>1. XcpuStateChange(t, n, {}, {"transfer_failed", "ready"}, f, chg)
    BY <1>6
  <2>2. /\ Ph(n)' = Ph(n) /\ Refused(n)' /\ (Tr(n)' <=> Tr(n)) /\ (TrEnds(n)' <=> TrEnds(n))
        /\ RwIn(n)' => RwIn(n)
    BY <1>1, <1>2, <2>1, RefusesEff
  <2>3. QED
    BY <1>1, <1>2, <1>3, <1>4, <1>6, <2>2, RefusedMeets, StaysRemains
<1>7. QED
  BY <1>5, <1>6

\* ipc_send_msg() of the sender that was picked.
LEMMA PullMeets ==
  ASSUME SendInv, MeetOK, PickedNeverGone, NEW t \in Thread, NEW ok \in BOOLEAN, Pull(t, ok)
  PROVE  MeetOK'
<1>1. TypeInv /\ TypeOK
  BY MeetParts
<1>2. PICK n \in Thread, f \in [Thread -> SUBSET Flag] :
            /\ Pulls(t, n, ok) /\ f[n] = st[n]
            /\ IF ok
               THEN XcpuStateChange(t, n, IpcMask \cup {"transfer"}, SentFlags(n), f, chg)
               ELSE XcpuStateChange(t, n, {}, {"transfer_failed", "ready"}, f, chg)
  BY PullDo
<1>3. n # t /\ On(t, n) /\ Leaves(n) /\ (\A u \in Thread \ {t} : Stays(u)) /\ n = reg[t].next
  BY <1>2 DEF Pulls
<1>4. /\ \A u \in Thread : reg'[u].activate = reg[u].activate
      /\ \A u \in Thread \ {t, n} : reg'[u] = reg[u]
  BY <1>1, <1>3, PullLocals
<1>5. \A s \in Thread : OwesSame(s)
  <2>1. OwesSame(t)
    BY <1>2, OwesNone DEF Pulls
  <2>2. QED
    BY <1>3, <1>4, <2>1, StaysOwes, StaysRemains
<1>6. Looked(t)
  BY <1>2, <1>5, PullReceiver DEF OwesSame
<1>7. Looked(n)
  <2>1. \A s \in Thread : ~ Owes(s, n)
    BY <1>3, ListedSender
  <2>3. \A s \in Thread : ~ Owes(s, n)'
    BY <1>5, <2>1 DEF OwesSame
  <2>2. QED
    BY <1>2, <2>3, PullSender
<1>8. \A u \in Thread \ {t, n} : Left1(t, u)
  <2>1. \A u \in Thread \ {t, n} : Untouched(u)
    BY <1>2, <1>3, <1>4 DEF Pulls, Untouched, SameRegs
  <2>2. \A u \in Thread \ {t, n} : Calm(u)
    BY <1>1, <2>1, QuietCalm, StaysRemains DEF Untouched
  <2>3. QED
    BY <1>3, <1>5, <2>2 DEF Left1, OwesSame, Leaves, Listed1
<1>9. QED
  BY <1>5, <1>6, <1>7, <1>8, Assemble

-----------------------------------------------------------------------------
(* The handshake, on the CPU of the sender and by a DRQ. *)

\* p waits for the message of t, and for no other.
Accepts(p, t) ==
    /\ p # t /\ Past(p) /\ CanTake(p) /\ got[p] = FALSE /\ ~ Tr(p) /\ (TrEnds(p) => Pending(p))
    /\ Ph(p) = Received /\ pc[p] \notin {"pull", "pulled"} /\ reg[p].from \in {t, Anyone}
    /\ ~ (pc[p] \in Picked /\ reg[p].next # None)
    /\ \A s \in Thread : ~ Owes(s, p)

\* The send phase of t has not been answered.
LEMMA UnsentYet ==
  ASSUME SendInv, MeetOK, NEW t \in Thread, pc[t] = "send" \/ (pc[t] = "drq" /\ drq[t] = "send")
  PROVE  /\ pc[t] \in {"send", "copy"} \cup Waiting /\ (pc[t] \in Waiting => sent[t] # TRUE)
         /\ ~ Listed1(t) /\ reg[t].ok = TRUE
         /\ pc[t] = "send" => Ph(t) = {} /\ ~ Pending(t)
<1>1. SentOK(t) /\ SenderInv(t) /\ UnsentOK(t)
  BY MeetParts
<1>2. pc[t] \in {"send", "copy"} \cup Waiting /\ (pc[t] \in Waiting => sent[t] # TRUE)
  BY <1>1 DEF SentOK, Waiting
<1>3. ~ Listed1(t)
  BY <1>1 DEF SenderInv, ListedOK, Listed1
<1>4. ~ Past(t) /\ pc[t] \notin Out
  BY <1>2 DEF Past, After, Waiting, Out
<1>5. reg[t].ok = TRUE /\ (pc[t] = "send" => Ph(t) = {})
  BY <1>1, <1>4 DEF UnsentOK
<1>6. pc[t] = "send" => ~ Pending(t)
  BY <1>1, FreeSender DEF Waiting
<1>7. QED
  BY <1>2, <1>3, <1>5, <1>6

LEMMA ReceiverAccepts ==
  ASSUME SendInv, MeetOK, PickedNeverGone, NEW t \in Thread, NEW p \in Thread,
         pc[t] = "send" \/ (pc[t] = "drq" /\ drq[t] = "send"),
         Ph(p) = Received,
         partner[p] = t \/ (partner[p] = Anyone /\ senders[p] = <<>>)
  PROVE  Accepts(p, t)
<1>1. /\ OutOK(p) /\ UnsentOK(p) /\ ReceiveOK(p) /\ AfterOK(p) /\ TransferOK(p) /\ PathOK(p)
      /\ (\A s \in Thread : OwesOK(s, p)) /\ TypeOK /\ TypeInv
  BY MeetParts
<1>2. ~ Past(t) /\ ~ Listed1(t)
  BY UnsentYet, Unsent
<1>3. pc[p] \notin Out /\ Past(p)
  BY <1>1 DEF OutOK, UnsentOK, Received, Sending
<1>4. CanTake(p) /\ got[p] = FALSE /\ pc[p] \notin {"pull", "pulled"}
  BY <1>1, <1>3 DEF ReceiveOK, Received, Taking
<1>5. ~ Tr(p) /\ (TrEnds(p) => Pending(p))
  BY <1>1 DEF TransferOK, Received
<1>6. ~ (pc[p] \in Picked /\ reg[p].next # None)
  <2>1. SUFFICES ASSUME pc[p] \in Picked, reg[p].next # None
                 PROVE  FALSE
    OBVIOUS
  <2>2. reg[p].next \in Thread /\ On(p, reg[p].next)
    BY <1>1, <2>1, ToType DEF PickedNeverGone, Picked, On
  <2>3. partner[p] = reg[p].next
    BY <1>1, <2>1 DEF AfterOK, Picked, After
  <2>4. partner[p] = t
    BY <1>1, <2>2, ListEmpty
  <2>5. QED
    BY <1>2, <2>2, <2>3, <2>4 DEF Listed1
<1>7. reg[p].from \in {t, Anyone}
  BY <1>1, <1>3 DEF PathOK
<1>8. \A s \in Thread : ~ Owes(s, p)
  BY <1>1 DEF OwesOK, Received
<1>9. p # t
  BY <1>2, <1>3
<1>10. QED
  BY <1>3, <1>4, <1>5, <1>6, <1>7, <1>8, <1>9 DEF Accepts

\* p is put to sleep until t has made its transfer.
LEMMA Interrupted ==
  ASSUME SendInv, MeetOK, NEW t \in Thread, NEW p \in Thread, Accepts(p, t),
         Remains(p), SameRegs(p),
         Ph(p)' = {}, Refused(p)' => Refused(p), Tr(p)', ~ TrEnds(p)', ~ Pending(p)',
         Listed1(p)' => Listed1(p),
         Transfers(t, p)', \A s \in Thread \ {t} : OwesSame(s)
  PROVE  Looked(p)
<1>1. /\ SentOK(p) /\ AfterOK(p) /\ TransferOK(p) /\ Past(p)
  BY MeetParts DEF Accepts
<1>2. /\ Past(p)' /\ pc'[p] = pc[p] /\ pc[p] \notin Out /\ pc[p] \notin {"pull", "pulled"}
      /\ sent'[p] = sent[p] /\ got'[p] = FALSE /\ reg'[p] = reg[p] /\ partner'[p] = partner[p]
      /\ CanTake(p) /\ CanTake(p)'
  BY <1>1 DEF Accepts, Remains, SameRegs, Past, After, Waiting, Out, CanTake
<1>3. OutOK(p)' /\ UnsentOK(p)'
  BY <1>2 DEF OutOK, UnsentOK
<1>4. SentOK(p)'
  BY <1>1, <1>2 DEF SentOK, Remains
<1>5. Busy(p)'
  BY DEF Busy
<1>6. ReceiveOK(p)'
  BY <1>2, <1>5 DEF ReceiveOK, Received, Taking
<1>7. AfterOK(p)'
  BY <1>1, <1>2 DEF AfterOK, Accepts
<1>8. TransferOK(p)'
  BY <1>1, <1>2 DEF TransferOK, Remains
<1>9. \A s \in Thread : OwesOK(s, p)'
  <2>1. \A s \in Thread \ {t} : ~ Owes(s, p)'
    BY DEF Accepts, OwesSame
  <2>2. p # t /\ reg'[p].from \in {t, Anyone}
    BY <1>2 DEF Accepts
  <2>3. QED
    BY <1>2, <2>1, <2>2 DEF OwesOK
<1>10. QED
  BY <1>3, <1>4, <1>6, <1>7, <1>8, <1>9 DEF ThreadOK, Looked

\* handshake_receiver().
LEMMA HandshakeMeets ==
  ASSUME SendInv, MeetOK, PickedNeverGone, NEW t \in Thread, HandshakeReceiver(t)
  PROVE  MeetOK'
<1>1. /\ TypeInv /\ TypeOK /\ ToOK(t) /\ UnsentOK(t) /\ TransferOK(t)
      /\ st \in [Thread -> SUBSET Flag] /\ chg \in [Thread -> Changes] /\ pc \in [Thread -> Labels]
      /\ reg \in [Thread -> Locals]
  BY MeetParts DEF TypeOK
<1>2. /\ \A u \in Thread \ {t} : Stays(u)
      /\ pc[t] = "send" /\ drq[t] = "none" /\ drq'[t] = "none" /\ partner' = partner
      /\ reg'[t].to = reg[t].to /\ reg'[t].from = reg[t].from
  BY <1>1, HandshakeMoves DEF Goes
<1>3. PICK p \in Thread : p = reg[t].to
  BY <1>1, <1>2, ToType
<1>4. PICK r : r = CheckSender(p, t, st[p])
  OBVIOUS
<1>5. /\ HandshakeCase(t, p, r) /\ Local(t, p) /\ UNCHANGED <<chg, sent, got>>
  BY <1>1, <1>3, <1>4, HandshakeCases
<1>6. /\ ~ Listed1(t) /\ reg[t].ok = TRUE /\ Ph(t) = {} /\ ~ Pending(t)
      /\ ~ Past(t) /\ sent[t] = FALSE /\ got[t] = FALSE /\ ~ Tr(t) /\ ~ TrEnds(t)
      /\ reg[t].activate # TRUE
      /\ \A s \in Thread : ~ Owes(s, t)
  BY <1>2, UnsentYet, Unsent
<1>7. CASE r = "failed"
  <2>1. SendFails(t) /\ st' = [st EXCEPT ![t] = @ \ IpcMask] /\ senders' = senders
    BY <1>5, <1>7 DEF HandshakeCase
  <2>2. \A u \in Thread \ {t} : Untouched(u)
    BY <1>1, <1>2, <1>5, <2>1, Mine DEF SameRegs, SendFails
  <2>3. st'[t] \cap IpcMask = {} /\ (Tr(t)' => Tr(t))
    BY <1>1, <2>1 DEF Tr
  <2>4. QED
    BY <1>2, <1>5, <1>6, <2>1, <2>2, <2>3, SameListed, FailsMeets DEF Waiting
<1>8. CASE r = "queued"
  <2>1. /\ pc' = [pc EXCEPT ![t] = "sendWait"] /\ senders' = [senders EXCEPT ![p] = Append(@, t)]
        /\ (\E b \in SUBSET {"ready"} : st' = [st EXCEPT ![t] = (st[t] \cup {"send_wait"}) \ b])
        /\ reg' = reg
    BY <1>5, <1>8 DEF HandshakeCase
  <2>2. Joins(p, t)
    BY <1>1, <2>1, ListsJoined
  <2>3. PICK b \in SUBSET {"ready"} : st' = [st EXCEPT ![t] = (st[t] \cup {"send_wait"}) \ b]
    BY <2>1
  <2>4. st'[t] = (st[t] \cup {"send_wait"}) \ b /\ pc'[t] = "sendWait"
    BY <1>1, <2>1, <2>3
  <2>5. \A u \in Thread \ {t} : Untouched(u)
    BY <1>1, <1>2, <1>5, <2>1, <2>3, Mine DEF SameRegs
  <2>6. Ph(t)' = Sending /\ ~ Tr(t)' /\ ~ TrEnds(t)' /\ ~ Pending(t)'
    <3>1. chg[t].add \cap IpcMask = {} /\ chg[t].del \cap IpcMask = {}
      BY <1>6 DEF Pending
    <3>2. st[t] \cap IpcMask = {}
      BY <1>1, <1>6, EffIs
    <3>3. Ph(t)' = Sending
      BY <1>5, <2>4, <3>1, <3>2 DEF Ph, Eff, Change, Sending, IpcMask
    <3>4. QED
      BY <1>5, <1>6, <2>4, <3>3 DEF Tr, TrEnds, Pending
  <2>7. Listed1(t)' /\ \A u \in Thread \ {t} : Listed1(u)' <=> Listed1(u)
    BY <2>2 DEF Joins, Listed1
  <2>8. ~ Past(t)' /\ sent'[t] = FALSE /\ got'[t] = FALSE /\ pc'[t] \notin Out /\ pc'[t] \notin After
    BY <1>5, <1>6, <2>4 DEF Past, After, Waiting, Out
  <2>9. ThreadOK(t)'
    <3>1. OutOK(t)' /\ SentOK(t)' /\ ReceiveOK(t)' /\ AfterOK(t)'
      BY <2>8 DEF OutOK, SentOK, ReceiveOK, AfterOK
    <3>2. UnsentOK(t)'
      BY <1>6, <2>1, <2>4, <2>6, <2>7, <2>8 DEF UnsentOK, StillWaits
    <3>3. TransferOK(t)'
      BY <1>2, <1>6, <2>1, <2>6, <2>8 DEF TransferOK
    <3>4. QED
      BY <3>1, <3>2, <3>3 DEF ThreadOK
  <2>10. OwesSame(t)
    BY <1>2, <2>4, OwesNone
  <2>11. \A s \in Thread : OwesOK(s, t)'
    <3>1. \A s \in Thread : OwesSame(s)
      BY <2>5, <2>10, StaysOwes, StaysRemains DEF Untouched, SameRegs
    <3>2. QED
      BY <1>6, <3>1 DEF OwesSame, OwesOK
  <2>12. Alone(t)
    BY <2>5, <2>7, <2>10 DEF Alone
  <2>13. QED
    BY <1>1, <2>9, <2>11, <2>12, AloneMeets
<1>9. CASE r \in {"open", "closed"}
  <2>1. /\ pc' = [pc EXCEPT ![t] = "copy"] /\ reg' = [reg EXCEPT ![t].res = r]
        /\ st' = [st EXCEPT ![p] = (st[p] \ (IpcMask \cup {"ready"})) \cup {"transfer"}]
        /\ senders' = senders
    BY <1>5, <1>9 DEF HandshakeCase
  <2>2. st[p] \cap IpcMask = Received /\ (partner[p] = t \/ (partner[p] = Anyone /\ senders[p] = <<>>))
    BY <1>4, <1>9 DEF CheckSender, SenderOk, Received
  <2>3. ~ Pending(p)
    <3>1. TransferOK(p) /\ RwIn(p)
      BY <2>2, MeetParts DEF RwIn, Received
    <3>2. QED
      BY <3>1 DEF TransferOK
  <2>4. Accepts(p, t)
    <3>1. Ph(p) = Received
      BY <1>1, <2>2, <2>3, EffIs
    <3>2. QED
      BY <1>2, <2>2, <3>1, ReceiverAccepts
  <2>5. p # t /\ ~ Tr(p) /\ ~ TrEnds(p)
    BY <2>3, <2>4 DEF Accepts
  <2>6. /\ reg'[t].to = p /\ reg'[t].res = r /\ reg'[t].ok = TRUE /\ reg'[t].activate # TRUE
        /\ \A u \in Thread \ {t} : reg'[u] = reg[u]
    <3>1. reg'[t] = [reg[t] EXCEPT !.res = r] /\ \A u \in Thread \ {t} : reg'[u] = reg[u]
      BY <1>1, <2>1
    <3>2. reg[t] \in Locals
      BY <1>1
    <3>3. QED
      BY <1>3, <1>6, <3>1, <3>2 DEF Locals
  <2>7. /\ st'[p] = (st[p] \ (IpcMask \cup {"ready"})) \cup {"transfer"}
        /\ \A u \in Thread \ {p} : st'[u] = st[u]
    BY <1>1, <2>1
  <2>8. \A s \in Thread \ {t} : OwesSame(s)
    BY <1>2, <2>6, StaysOwes, StaysRemains
  <2>9. /\ Transfers(t, p)' /\ \A u \in Thread \ {p} : ~ Owes(t, u)' /\ ~ Transfers(t, u)'
        /\ \A u \in Thread : ~ Transfers(t, u)
    <3>1. pc'[t] = "copy"
      BY <1>1, <2>1
    <3>2. QED
      BY <1>2, <2>6, <3>1 DEF Owes, Transfers
  <2>10. \A u \in Thread : Listed1(u)' <=> Listed1(u)
    BY <2>1, SameListed
  <2>11. Looked(p)
    <3>1. Remains(p) /\ SameRegs(p)
      BY <1>2, <1>5, <2>5, <2>6, StaysRemains DEF SameRegs
    <3>2. Ph(p)' = {} /\ (Refused(p)' => Refused(p)) /\ Tr(p)' /\ ~ TrEnds(p)' /\ ~ Pending(p)'
      <4>1. chg[p].add \cap IpcMask = {} /\ chg[p].del \cap IpcMask = {}
        BY <2>3 DEF Pending
      <4>2. Ph(p)' = {}
        BY <1>5, <2>7, <4>1 DEF Ph, Eff, Change, IpcMask
      <4>3. Refused(p)' => Refused(p)
        BY <1>5, <2>7 DEF Refused, Eff, Change
      <4>4. QED
        BY <1>5, <2>3, <2>5, <2>7, <4>2, <4>3 DEF Tr, TrEnds, Pending
    <3>3. QED
      BY <2>4, <2>8, <2>9, <2>10, <3>1, <3>2, Interrupted
  <2>12. Looked(t)
    <3>1. /\ Ph(t)' = Ph(t) /\ (Tr(t)' <=> Tr(t)) /\ (TrEnds(t)' <=> TrEnds(t))
          /\ (Pending(t)' <=> Pending(t))
      BY <1>1, <1>5, <2>5, <2>7, QuietFlags
    <3>2. pc'[t] = "copy" /\ sent'[t] = FALSE /\ got'[t] = FALSE
      BY <1>1, <1>5, <1>6, <2>1
    <3>3. ~ Past(t)' /\ pc'[t] \notin Out /\ pc'[t] \notin After /\ pc'[t] \notin Waiting
      BY <3>2 DEF Past, After, Waiting, Out
    <3>4. OutOK(t)' /\ SentOK(t)' /\ ReceiveOK(t)' /\ AfterOK(t)'
      BY <3>3 DEF OutOK, SentOK, ReceiveOK, AfterOK
    <3>5. UnsentOK(t)'
      BY <1>6, <2>6, <3>1, <3>2, <3>3 DEF UnsentOK
    <3>6. TransferOK(t)'
      BY <1>2, <1>6, <2>6, <2>10, <3>1, <3>2 DEF TransferOK
    <3>7. \A s \in Thread : ~ Owes(s, t)'
      BY <1>6, <2>5, <2>8, <2>9 DEF OwesSame
    <3>8. QED
      BY <3>4, <3>5, <3>6, <3>7 DEF ThreadOK, Looked, OwesOK
  <2>13. \A u \in Thread \ {t, p} : Left1(t, u)
    <3>1. \A u \in Thread \ {t, p} : Calm(u)
      BY <1>1, <1>2, <1>5, <2>6, <2>7, QuietCalm, StaysRemains DEF SameRegs
    <3>2. QED
      BY <2>9, <2>10, <3>1 DEF Left1
  <2>14. QED
    BY <2>8, <2>11, <2>12, <2>13, Assemble
<1>10. QED
  BY <1>5, <1>7, <1>8, <1>9 DEF HandshakeCase

\* The DRQ of t to p: p gets the flags h, and t the changes del and add.
Asked(t, p, h, del, add) ==
    /\ p # t
    /\ drq'[t] = "reply" /\ pc' = pc /\ partner' = partner /\ \A u \in Thread \ {t} : drq'[u] = drq[u]
    /\ st'[p] = h /\ chg'[p] = NoChange
    /\ \A u \in Thread \ {p} : st'[u] = st[u]
    /\ \A u \in Thread \ {p, t} : chg'[u] = chg[u]
    /\ chg'[t].del = (chg[t].del \ add) \cup del
    /\ chg'[t].add = (chg[t].add \ del) \cup add

AskFails(t, h, del, add, F) ==
    /\ h = F /\ del = IpcMask /\ add = {}
    /\ reg' = [reg EXCEPT ![t].res = "failed"]
    /\ UNCHANGED <<senders, sent, got>>
AskQueues(t, p, h, del, add, F) ==
    /\ h = F /\ del = {} /\ add = {}
    /\ reg' = [reg EXCEPT ![t].res = "queued"]
    /\ senders' = [senders EXCEPT ![p] = Append(@, t)]
    /\ UNCHANGED <<sent, got>>
AskStarts(t, h, del, add, F, r) ==
    /\ h = (F \ (IpcMask \cup {"ready"})) \cup {"transfer"} /\ del = {"send_wait"} /\ add = {"ready"}
    /\ reg' = [reg EXCEPT ![t].res = r]
    /\ UNCHANGED <<senders, sent, got>>
AskDone(t, p, h, del, add, F) ==
    /\ h = (F \ IpcMask) \cup {"ready"}
    /\ \/ reg[t].from # None /\ del = {"send_wait"} /\ add = {"receive_wait"}
       \/ reg[t].from = None /\ del = IpcMask /\ add = {}
    /\ reg' = [reg EXCEPT ![t].res = "done", ![p].tag = "msg"]
    /\ senders' = senders
    /\ \E open : TransferMsg(t, p, open, TRUE)

LEMMA AskCases ==
  ASSUME SendInv, MeetOK, NEW t \in Thread, RemoteIpcSend(t), NEW p \in Thread, p = reg[t].to
  PROVE  /\ pc[t] = "drq" /\ drq[t] = "send"
         /\ \E r, h, del, add :
              /\ r = CheckSender(p, t, Eff(p)) /\ Asked(t, p, h, del, add)
              /\ \/ AskFails(t, h, del, add, Eff(p))
                 \/ r = "queued" /\ AskQueues(t, p, h, del, add, Eff(p))
                 \/ r \in {"open", "closed"} /\ AskStarts(t, h, del, add, Eff(p), r)
                 \/ r \in {"open", "closed"} /\ AskDone(t, p, h, del, add, Eff(p))
<1>1. /\ TypeInv /\ TypeOK /\ PathOK(t) /\ SenderInv(t)
      /\ st \in [Thread -> SUBSET Flag] /\ chg \in [Thread -> Changes]
      /\ drq \in [Thread -> {"none", "send", "abort", "reply"}]
  BY MeetParts DEF TypeOK
<1>2. /\ drq[t] = "send" /\ pc[t] = "drq" /\ ~ Local(p, t) /\ p # t
  BY <1>1 DEF RemoteIpcSend, PathOK, Local
<1>3. PICK F : F = Eff(p) /\ F = Change(st[p], p)
  BY DEF Eff
<1>4. PICK f : f = [st EXCEPT ![p] = F]
  OBVIOUS
<1>5. PICK g : g = ChangeTaken(p)
  OBVIOUS
<1>6. /\ F \in SUBSET Flag /\ g \in [Thread -> Changes]
      /\ g[p] = NoChange /\ \A u \in Thread \ {p} : g[u] = chg[u]
  <2>1. F \in SUBSET Flag /\ g \in [Thread -> Changes]
    BY <1>1, <1>3, <1>5, ChangeType
  <2>2. g = [chg EXCEPT ![p] = NoChange]
    BY <1>5 DEF ChangeTaken
  <2>3. QED
    BY <1>1, <2>1, <2>2
<1>7. f[p] = F /\ (\A u \in Thread \ {p} : f[u] = st[u]) /\ f \in [Thread -> SUBSET Flag]
  BY <1>1, <1>4, <1>6
<1>8. PICK r : r = CheckSender(p, t, F)
  OBVIOUS
<1>9. ASSUME NEW h, NEW del, NEW add, XcpuStateChange(p, t, del, add, [f EXCEPT ![p] = h], g)
      PROVE  Asked(t, p, h, del, add)
  <2>1. /\ st' = [f EXCEPT ![p] = h]
        /\ chg' = [g EXCEPT ![t] = [del |-> (@.del \ add) \cup del, add |-> (@.add \ del) \cup add]]
    BY <1>2, <1>9 DEF XcpuStateChange
  <2>2. st'[p] = h /\ \A u \in Thread \ {p} : st'[u] = st[u]
    BY <1>7, <2>1
  <2>3. /\ chg'[p] = NoChange /\ \A u \in Thread \ {p, t} : chg'[u] = chg[u]
        /\ chg'[t] = [del |-> (chg[t].del \ add) \cup del, add |-> (chg[t].add \ del) \cup add]
    BY <1>2, <1>6, <2>1
  <2>4. /\ drq'[t] = "reply" /\ (\A u \in Thread \ {t} : drq'[u] = drq[u])
        /\ pc' = pc /\ partner' = partner
    BY <1>1 DEF RemoteIpcSend
  <2>5. QED
    BY <1>2, <2>2, <2>3, <2>4 DEF Asked
<1>10. /\ f = [f EXCEPT ![p] = F]
       /\ [f EXCEPT ![p] = (@ \ (IpcMask \cup {"ready"})) \cup {"transfer"}] =
              [f EXCEPT ![p] = (F \ (IpcMask \cup {"ready"})) \cup {"transfer"}]
       /\ [f EXCEPT ![p] = (@ \ IpcMask) \cup {"ready"}] =
              [f EXCEPT ![p] = (F \ IpcMask) \cup {"ready"}]
  BY <1>7
<1>11. \/ /\ r = "failed" /\ XcpuStateChange(p, t, IpcMask, {}, f, g)
          /\ reg' = [reg EXCEPT ![t].res = r] /\ UNCHANGED <<senders, sent, got>>
       \/ /\ r = "queued" /\ senders' = [senders EXCEPT ![p] = Append(@, t)]
          /\ st' = f /\ chg' = g
          /\ reg' = [reg EXCEPT ![t].res = r] /\ UNCHANGED <<sent, got>>
       \/ /\ r \in {"open", "closed"}
          /\ XcpuStateChange(p, t, {"send_wait"}, {"ready"},
                 [f EXCEPT ![p] = (@ \ (IpcMask \cup {"ready"})) \cup {"transfer"}], g)
          /\ reg' = [reg EXCEPT ![t].res = r] /\ UNCHANGED <<senders, sent, got>>
       \/ /\ r \in {"open", "closed"}
          /\ \/ /\ reg[t].from # None
                /\ XcpuStateChange(p, t, {"send_wait"}, {"receive_wait"},
                                   [f EXCEPT ![p] = (@ \ IpcMask) \cup {"ready"}], g)
             \/ /\ reg[t].from = None
                /\ XcpuStateChange(p, t, IpcMask, {},
                                   [f EXCEPT ![p] = (@ \ IpcMask) \cup {"ready"}], g)
          /\ (\E open : TransferMsg(t, p, open, TRUE))
          /\ reg' = [reg EXCEPT ![t].res = "done", ![p].tag = "msg"] /\ senders' = senders
  <2>1. r = CheckSender(p, t, f[p])
    BY <1>7, <1>8
  <2>2. QED
    BY <1>3, <1>4, <1>5, <2>1 DEF RemoteIpcSend, history
<1>12. CASE /\ r = "failed" /\ XcpuStateChange(p, t, IpcMask, {}, f, g)
            /\ reg' = [reg EXCEPT ![t].res = r] /\ UNCHANGED <<senders, sent, got>>
  <2>1. Asked(t, p, F, IpcMask, {})
    BY <1>9, <1>10, <1>12
  <2>2. AskFails(t, F, IpcMask, {}, F)
    BY <1>12 DEF AskFails
  <2>3. QED
    BY <1>2, <1>3, <1>8, <2>1, <2>2
<1>13. CASE /\ r = "queued" /\ senders' = [senders EXCEPT ![p] = Append(@, t)]
            /\ st' = f /\ chg' = g
            /\ reg' = [reg EXCEPT ![t].res = r] /\ UNCHANGED <<sent, got>>
  <2>1. Asked(t, p, F, {}, {})
    <3>1. /\ drq'[t] = "reply" /\ (\A u \in Thread \ {t} : drq'[u] = drq[u])
          /\ pc' = pc /\ partner' = partner
      BY <1>1 DEF RemoteIpcSend
    <3>2. chg'[t] = chg[t] /\ chg'[p] = NoChange /\ \A u \in Thread \ {p, t} : chg'[u] = chg[u]
      BY <1>2, <1>6, <1>13
    <3>3. QED
      BY <1>2, <1>7, <1>13, <3>1, <3>2 DEF Asked
  <2>2. AskQueues(t, p, F, {}, {}, F)
    BY <1>13 DEF AskQueues
  <2>3. QED
    BY <1>2, <1>3, <1>8, <1>13, <2>1, <2>2
<1>14. CASE /\ r \in {"open", "closed"}
            /\ XcpuStateChange(p, t, {"send_wait"}, {"ready"},
                 [f EXCEPT ![p] = (@ \ (IpcMask \cup {"ready"})) \cup {"transfer"}], g)
            /\ reg' = [reg EXCEPT ![t].res = r] /\ UNCHANGED <<senders, sent, got>>
  <2>1. PICK h : h = (F \ (IpcMask \cup {"ready"})) \cup {"transfer"}
    OBVIOUS
  <2>2. Asked(t, p, h, {"send_wait"}, {"ready"})
    BY <1>9, <1>10, <1>14, <2>1
  <2>3. AskStarts(t, h, {"send_wait"}, {"ready"}, F, r)
    BY <1>14, <2>1 DEF AskStarts
  <2>4. QED
    BY <1>2, <1>3, <1>8, <1>14, <2>2, <2>3
<1>15. CASE /\ r \in {"open", "closed"}
            /\ \/ /\ reg[t].from # None
                  /\ XcpuStateChange(p, t, {"send_wait"}, {"receive_wait"},
                                   [f EXCEPT ![p] = (@ \ IpcMask) \cup {"ready"}], g)
               \/ /\ reg[t].from = None
                  /\ XcpuStateChange(p, t, IpcMask, {},
                                   [f EXCEPT ![p] = (@ \ IpcMask) \cup {"ready"}], g)
            /\ (\E open : TransferMsg(t, p, open, TRUE))
            /\ reg' = [reg EXCEPT ![t].res = "done", ![p].tag = "msg"] /\ senders' = senders
  <2>1. PICK h : h = (F \ IpcMask) \cup {"ready"}
    OBVIOUS
  <2>2. PICK del, add : /\ XcpuStateChange(p, t, del, add, [f EXCEPT ![p] = h], g)
                        /\ \/ reg[t].from # None /\ del = {"send_wait"} /\ add = {"receive_wait"}
                           \/ reg[t].from = None /\ del = IpcMask /\ add = {}
    BY <1>10, <1>15, <2>1
  <2>3. Asked(t, p, h, del, add)
    BY <1>9, <2>2
  <2>4. AskDone(t, p, h, del, add, F)
    BY <1>15, <2>1, <2>2 DEF AskDone
  <2>5. QED
    BY <1>2, <1>3, <1>8, <1>15, <2>3, <2>4
<1>16. QED
  BY <1>11, <1>12, <1>13, <1>14, <1>15

\* The sender whose DRQ is handled.
LEMMA AskedSender ==
  ASSUME SendInv, MeetOK, NEW t \in Thread, RemoteIpcSend(t)
  PROVE  /\ pc[t] = "drq" /\ drq[t] = "send" /\ reg[t].to \in Thread
         /\ ~ Past(t) /\ sent[t] = FALSE /\ got[t] = FALSE /\ ~ Tr(t) /\ ~ TrEnds(t)
         /\ ~ Pending(t) /\ ~ Refused(t) /\ ~ RwIn(t) /\ ~ Listed1(t) /\ Ph(t) = Sending
         /\ reg[t].ok = TRUE /\ reg[t].activate # TRUE
         /\ \A s \in Thread : ~ Owes(s, t)
         /\ \A u \in Thread \ {t} : Stays(u)
<1>1. TypeInv /\ TypeOK /\ PathOK(t) /\ SenderInv(t) /\ UnsentOK(t) /\ pc \in [Thread -> Labels]
  BY MeetParts
<1>2. drq[t] = "send" /\ pc[t] = "drq" /\ reg[t].to \in Thread
  <2>1. drq[t] = "send"
    BY DEF RemoteIpcSend
  <2>2. QED
    BY <1>1, <2>1, ToType DEF PathOK
<1>3. \A u \in Thread \ {t} : Stays(u)
  BY <1>1, OutsideMoves DEF Outside, Drq
<1>4. ~ Pending(t) /\ ~ Tf(t)
  BY <1>1, <1>2 DEF SenderInv, PendingOK, FailedOK
<1>5. ~ Refused(t)
  BY <1>1, <1>4, EffIs
<1>6. /\ ~ Past(t) /\ sent[t] = FALSE /\ got[t] = FALSE /\ ~ Tr(t) /\ ~ TrEnds(t)
      /\ reg[t].activate # TRUE /\ ~ Listed1(t) /\ reg[t].ok = TRUE
      /\ \A s \in Thread : ~ Owes(s, t)
  BY <1>2, <1>4, UnsentYet, Unsent
<1>7. Ph(t) = Sending
  BY <1>1, <1>2, <1>6 DEF UnsentOK, Out
<1>8. ~ RwIn(t)
  <2>1. "receive_wait" \notin st[t] \cap IpcMask
    BY <1>1, <1>4, <1>7, EffIs DEF Sending
  <2>2. QED
    BY <2>1 DEF RwIn, IpcMask
<1>9. QED
  BY <1>2, <1>3, <1>4, <1>5, <1>6, <1>7, <1>8

\* ... and what the answer changes for it.
LEMMA AskedFlags ==
  ASSUME SendInv, MeetOK, NEW t \in Thread, RemoteIpcSend(t), NEW p \in Thread, NEW h,
         NEW del \in SUBSET IpcMask, NEW add \in SUBSET {"ready", "receive_wait"},
         Asked(t, p, h, del, add)
  PROVE  /\ Ph(t)' = ((Sending \ del) \cup add) \cap IpcMask
         /\ ~ Refused(t)' /\ ~ Tr(t)' /\ ~ TrEnds(t)' /\ ~ RwIn(t)'
<1>1. TypeOK
  BY MeetParts
<1>2. ~ Pending(t) /\ ~ Refused(t) /\ ~ Tr(t) /\ ~ TrEnds(t) /\ ~ RwIn(t) /\ Ph(t) = Sending
  BY AskedSender
<1>3. /\ st'[t] = st[t]
      /\ chg'[t].del = (chg[t].del \ add) \cup del /\ chg'[t].add = (chg[t].add \ del) \cup add
  BY DEF Asked
<1>4. del \in SUBSET Flag /\ add \in SUBSET {"ready", "receive_wait", "transfer_failed"}
      /\ "transfer" \notin del /\ "transfer_failed" \notin add
  BY DEF Flag, FullMask, IpcMask
<1>5. /\ Ph(t)' = ((Ph(t) \ del) \cup add) \cap IpcMask
      /\ Refused(t)' <=> (Refused(t) /\ "transfer_failed" \notin del) \/ "transfer_failed" \in add
      /\ (Tr(t)' <=> Tr(t)) /\ (RwIn(t)' <=> RwIn(t))
      /\ TrEnds(t)' <=> TrEnds(t) \/ "transfer" \in del
  BY <1>1, <1>2, <1>3, <1>4, RemoteEff
<1>6. QED
  BY <1>2, <1>4, <1>5

\* A sender that has its answer, and has not sent.
LEMMA AnsweredUnsent ==
  ASSUME NEW t \in Thread, pc'[t] = "drq", drq'[t] = "reply",
         sent'[t] = FALSE, got'[t] = FALSE, reg'[t].ok = TRUE, reg'[t].activate # TRUE,
         ~ Tr(t)', ~ TrEnds(t)', ~ RwIn(t)',
         \/ reg'[t].res = "failed" /\ Ph(t)' = {}
         \/ reg'[t].res \in {"open", "closed"} /\ Ph(t)' = {}
         \/ reg'[t].res = "queued" /\ Ph(t)' = Sending /\ Listed1(t)',
         \A s \in Thread : ~ Owes(s, t)'
  PROVE  Looked(t)
<1>1. ~ Past(t)' /\ pc'[t] \notin Out /\ pc'[t] \notin After
  BY DEF Past, After, Waiting, Out
<1>2. OutOK(t)' /\ SentOK(t)' /\ ReceiveOK(t)' /\ AfterOK(t)'
  BY <1>1 DEF OutOK, SentOK, ReceiveOK, AfterOK
<1>3. UnsentOK(t)'
  BY <1>1 DEF UnsentOK, StillWaits
<1>4. TransferOK(t)'
  BY DEF TransferOK
<1>5. QED
  BY <1>2, <1>3, <1>4 DEF ThreadOK, Looked, OwesOK

\* The DRQ only sets the result of the sender.
LEMMA AskedLocals ==
  ASSUME TypeInv, NEW t \in Thread, NEW v \in {"failed", "queued", "open", "closed"},
         reg' = [reg EXCEPT ![t].res = v]
  PROVE  /\ reg'[t].to = reg[t].to /\ reg'[t].ok = reg[t].ok /\ reg'[t].activate = reg[t].activate
         /\ reg'[t].res = v
         /\ \A u \in Thread \ {t} : reg'[u] = reg[u]
<1>1. reg \in [Thread -> Locals]
  BY DEF TypeInv, TypeOK
<1>2. reg'[t] = [reg[t] EXCEPT !.res = v] /\ \A u \in Thread \ {t} : reg'[u] = reg[u]
  BY <1>1
<1>3. reg[t] \in Locals
  BY <1>1
<1>4. QED
  BY <1>2, <1>3 DEF Locals

\* The receiver's CPU refuses the message, or puts the sender in its list.
LEMMA AskedInVain ==
  ASSUME SendInv, MeetOK, NEW t \in Thread, RemoteIpcSend(t), NEW p \in Thread, p = reg[t].to,
         NEW del, NEW add, Asked(t, p, Eff(p), del, add),
         \/ AskFails(t, Eff(p), del, add, Eff(p))
         \/ AskQueues(t, p, Eff(p), del, add, Eff(p))
  PROVE  MeetOK'
<1>1. TypeInv /\ TypeOK /\ reg \in [Thread -> Locals]
  BY MeetParts DEF TypeOK
<1>2. /\ pc[t] = "drq" /\ drq[t] = "send"
      /\ sent[t] = FALSE /\ got[t] = FALSE /\ reg[t].ok = TRUE /\ reg[t].activate # TRUE
      /\ ~ Listed1(t)
      /\ (\A s \in Thread : ~ Owes(s, t)) /\ \A u \in Thread \ {t} : Stays(u)
  BY AskedSender
<1>3. p # t /\ drq'[t] = "reply" /\ pc'[t] = "drq"
  BY <1>2 DEF Asked
<1>4. UNCHANGED <<sent, got>>
  BY DEF AskFails, AskQueues
<1>5. /\ reg'[t].ok = TRUE /\ reg'[t].activate # TRUE
      /\ \A u \in Thread \ {t} : reg'[u] = reg[u]
      /\ \/ reg'[t].res = "failed" /\ AskFails(t, Eff(p), del, add, Eff(p))
         \/ reg'[t].res = "queued" /\ AskQueues(t, p, Eff(p), del, add, Eff(p))
  <2>1. CASE AskFails(t, Eff(p), del, add, Eff(p))
    <3>1. reg' = [reg EXCEPT ![t].res = "failed"]
      BY <2>1 DEF AskFails
    <3>2. QED
      BY <1>1, <1>2, <2>1, <3>1, AskedLocals
  <2>2. CASE AskQueues(t, p, Eff(p), del, add, Eff(p))
    <3>1. reg' = [reg EXCEPT ![t].res = "queued"]
      BY <2>2 DEF AskQueues
    <3>2. QED
      BY <1>1, <1>2, <2>2, <3>1, AskedLocals
  <2>3. QED
    BY <2>1, <2>2
<1>6. OwesSame(t)
  BY <1>2, <1>3, <1>5, OwesNone
<1>7. \A s \in Thread \ {t} : OwesSame(s)
  BY <1>2, <1>5, StaysOwes, StaysRemains
<1>8. \A s \in Thread : ~ Owes(s, t)'
  BY <1>2, <1>6, <1>7 DEF OwesSame
<1>9. \A u \in Thread \ {t} : Listed1(u)' <=> Listed1(u)
  <2>1. CASE senders' = senders
    BY <2>1, SameListed
  <2>2. CASE senders' = [senders EXCEPT ![p] = Append(@, t)]
    <3>1. Joins(p, t)
      BY <1>1, <2>2, ListsJoined
    <3>2. QED
      BY <3>1 DEF Joins, Listed1
  <2>3. QED
    BY <2>1, <2>2 DEF AskFails, AskQueues
<1>10. Looked(t)
  <2>1. CASE reg'[t].res = "failed" /\ AskFails(t, Eff(p), del, add, Eff(p))
    <3>1. del = IpcMask /\ add = {}
      BY <2>1 DEF AskFails
    <3>2. /\ Ph(t)' = ((Sending \ del) \cup add) \cap IpcMask
          /\ ~ Refused(t)' /\ ~ Tr(t)' /\ ~ TrEnds(t)' /\ ~ RwIn(t)'
      BY <3>1, AskedFlags
    <3>3. Ph(t)' = {}
      BY <3>1, <3>2 DEF Sending, IpcMask
    <3>4. QED
      BY <1>2, <1>3, <1>4, <1>5, <1>8, <2>1, <3>2, <3>3, AnsweredUnsent
  <2>2. CASE reg'[t].res = "queued" /\ AskQueues(t, p, Eff(p), del, add, Eff(p))
    <3>1. del = {} /\ add = {}
      BY <2>2 DEF AskQueues
    <3>2. /\ Ph(t)' = ((Sending \ del) \cup add) \cap IpcMask
          /\ ~ Refused(t)' /\ ~ Tr(t)' /\ ~ TrEnds(t)' /\ ~ RwIn(t)'
      BY <3>1, AskedFlags
    <3>3. Ph(t)' = Sending
      BY <3>1, <3>2 DEF Sending, IpcMask
    <3>4. Listed1(t)'
      <4>1. Joins(p, t)
        BY <1>1, <2>2, ListsJoined DEF AskQueues
      <4>2. QED
        BY <4>1 DEF Joins, Listed1
    <3>5. QED
      BY <1>2, <1>3, <1>4, <1>5, <1>8, <2>2, <3>2, <3>3, <3>4, AnsweredUnsent
  <2>3. QED
    BY <1>5, <2>1, <2>2
<1>11. Calm(p)
  <2>1. Remains(p) /\ SameRegs(p)
    BY <1>2, <1>3, <1>4, <1>5, StaysRemains DEF SameRegs
  <2>2. chg'[p] = NoChange /\ st'[p] = Change(st[p], p)
    BY DEF Asked, Eff
  <2>3. QED
    BY <1>1, <2>1, <2>2, ChangesCalm
<1>12. \A u \in Thread \ {t, p} : Calm(u)
  <2>1. \A u \in Thread \ {t, p} : Untouched(u)
    BY <1>2, <1>4, <1>5 DEF Asked, Untouched, SameRegs
  <2>2. QED
    BY <1>1, <2>1, QuietCalm, StaysRemains DEF Untouched
<1>13. \A u \in Thread \ {t} : Left1(t, u)
  <2>1. \A u \in Thread \ {t} : Calm(u)
    BY <1>11, <1>12
  <2>2. QED
    BY <1>6, <1>9, <2>1 DEF Left1, OwesSame
<1>14. QED
  BY <1>7, <1>10, <1>13, Assemble

\* The receiver that takes the message of t now.
LEMMA AskedReceiver ==
  ASSUME SendInv, MeetOK, PickedNeverGone, NEW t \in Thread, RemoteIpcSend(t),
         NEW p \in Thread, CheckSender(p, t, Eff(p)) \in {"open", "closed"}
  PROVE  Accepts(p, t)
<1>1. Ph(p) = Received /\ (partner[p] = t \/ (partner[p] = Anyone /\ senders[p] = <<>>))
  BY DEF CheckSender, SenderOk, Ph, Received
<1>2. pc[t] = "drq" /\ drq[t] = "send"
  BY AskedSender
<1>3. QED
  BY <1>1, <1>2, ReceiverAccepts

\* ... is put to sleep until the sender has copied the message.
LEMMA AskedToWait ==
  ASSUME SendInv, MeetOK, PickedNeverGone, NEW t \in Thread, RemoteIpcSend(t),
         NEW p \in Thread, p = reg[t].to, Accepts(p, t),
         NEW h, NEW del, NEW add, NEW r \in {"open", "closed"}, Asked(t, p, h, del, add),
         AskStarts(t, h, del, add, Eff(p), r)
  PROVE  MeetOK'
<1>1. TypeInv /\ TypeOK /\ reg \in [Thread -> Locals]
  BY MeetParts DEF TypeOK
<1>2. /\ pc[t] = "drq" /\ drq[t] = "send"
      /\ sent[t] = FALSE /\ got[t] = FALSE /\ reg[t].ok = TRUE /\ reg[t].activate # TRUE
      /\ ~ Listed1(t)
      /\ (\A s \in Thread : ~ Owes(s, t)) /\ \A u \in Thread \ {t} : Stays(u)
  BY AskedSender
<1>3. p # t /\ drq'[t] = "reply" /\ pc'[t] = "drq"
  BY <1>2 DEF Asked
<1>4. /\ UNCHANGED <<senders, sent, got>> /\ del = {"send_wait"} /\ add = {"ready"}
      /\ h = (Eff(p) \ (IpcMask \cup {"ready"})) \cup {"transfer"}
      /\ reg' = [reg EXCEPT ![t].res = r]
  BY DEF AskStarts
<1>5. /\ reg'[t].to = p /\ reg'[t].ok = TRUE /\ reg'[t].activate # TRUE /\ reg'[t].res = r
      /\ \A u \in Thread \ {t} : reg'[u] = reg[u]
  <2>1. /\ reg'[t].to = reg[t].to /\ reg'[t].ok = reg[t].ok /\ reg'[t].activate = reg[t].activate
        /\ reg'[t].res = r
        /\ \A u \in Thread \ {t} : reg'[u] = reg[u]
    BY <1>1, <1>4, AskedLocals
  <2>2. QED
    BY <1>2, <2>1
<1>6. \A s \in Thread \ {t} : OwesSame(s)
  BY <1>2, <1>5, StaysOwes, StaysRemains
<1>7. /\ Transfers(t, p)' /\ \A u \in Thread \ {p} : ~ Owes(t, u)' /\ ~ Transfers(t, u)'
      /\ \A u \in Thread : ~ Transfers(t, u)
  BY <1>2, <1>3, <1>5 DEF Owes, Transfers
<1>8. \A u \in Thread : Listed1(u)' <=> Listed1(u)
  BY <1>4, SameListed
<1>9. \A s \in Thread : ~ Owes(s, t)'
  BY <1>2, <1>3, <1>6, <1>7 DEF OwesSame
<1>10. Looked(t)
  <2>1. /\ Ph(t)' = ((Sending \ del) \cup add) \cap IpcMask
        /\ ~ Refused(t)' /\ ~ Tr(t)' /\ ~ TrEnds(t)' /\ ~ RwIn(t)'
    <3>1. del \in SUBSET IpcMask /\ add \in SUBSET {"ready", "receive_wait"}
      BY <1>4 DEF IpcMask
    <3>2. QED
      BY <3>1, AskedFlags
  <2>2. Ph(t)' = {}
    BY <1>4, <2>1 DEF Sending, IpcMask
  <2>3. QED
    BY <1>2, <1>3, <1>4, <1>5, <1>9, <2>1, <2>2, AnsweredUnsent
<1>11. Looked(p)
  <2>1. Remains(p) /\ SameRegs(p)
    BY <1>2, <1>3, <1>4, <1>5, StaysRemains DEF SameRegs
  <2>2. st'[p] = h /\ chg'[p] = NoChange
    BY DEF Asked
  <2>3. Eff(p)' = st'[p]
    BY <2>2 DEF Eff, Change, NoChange
  <2>4. Ph(p)' = {} /\ (Refused(p)' => Refused(p))
    BY <1>4, <2>2, <2>3 DEF Ph, Refused, IpcMask
  <2>5. Tr(p)' /\ ~ TrEnds(p)' /\ ~ Pending(p)'
    BY <1>4, <2>2 DEF Tr, TrEnds, Pending, NoChange
  <2>6. QED
    BY <1>6, <1>7, <1>8, <2>1, <2>4, <2>5, Interrupted
<1>12. \A u \in Thread \ {t, p} : Left1(t, u)
  <2>1. \A u \in Thread \ {t, p} : Untouched(u)
    BY <1>2, <1>4, <1>5 DEF Asked, Untouched, SameRegs
  <2>2. \A u \in Thread \ {t, p} : Calm(u)
    BY <1>1, <2>1, QuietCalm, StaysRemains DEF Untouched
  <2>3. QED
    BY <1>7, <1>8, <2>2 DEF Left1
<1>13. QED
  BY <1>6, <1>10, <1>11, <1>12, Assemble

\* The receiver who has been given the message at once.
LEMMA Handed ==
  ASSUME SendInv, MeetOK, NEW t \in Thread, NEW p \in Thread, Accepts(p, t),
         Remains(p), reg'[p].ok = reg[p].ok, reg'[p].activate = reg[p].activate,
         reg'[p].tag = "msg", sent'[p] = sent[p], got'[p] = TRUE,
         Ph(p)' = {}, Refused(p)' => Refused(p), ~ Tr(p)', ~ TrEnds(p)', ~ Pending(p)',
         Listed1(p)' => Listed1(p), \A s \in Thread : ~ Owes(s, p)'
  PROVE  Looked(p)
<1>1. /\ SentOK(p) /\ AfterOK(p) /\ TransferOK(p) /\ Past(p)
  BY MeetParts DEF Accepts
<1>2. /\ Past(p)' /\ pc'[p] = pc[p] /\ pc[p] \notin Out /\ pc[p] \notin {"pull", "pulled"}
      /\ CanTake(p) /\ CanTake(p)'
  BY <1>1 DEF Accepts, Remains, Past, After, Waiting, Out, CanTake
<1>3. OutOK(p)' /\ UnsentOK(p)'
  BY <1>2 DEF OutOK, UnsentOK
<1>4. SentOK(p)'
  BY <1>1, <1>2 DEF SentOK, Remains
<1>5. ReceiveOK(p)'
  BY <1>2 DEF ReceiveOK, Received, Taking
<1>6. AfterOK(p)'
  BY <1>1, <1>2 DEF AfterOK, Accepts, Remains
<1>7. TransferOK(p)'
  BY <1>1, <1>2 DEF TransferOK, Remains
<1>8. QED
  BY <1>3, <1>4, <1>5, <1>6, <1>7 DEF ThreadOK, Looked, OwesOK

\* The sender whose message has been handed over, and who goes on to receive.
LEMMA AnsweredSent ==
  ASSUME NEW t \in Thread, pc'[t] = "drq", drq'[t] = "reply", reg'[t].res = "done",
         sent'[t] = TRUE, got'[t] = FALSE, reg'[t].ok = TRUE, reg'[t].activate # TRUE,
         ~ Refused(t)', ~ Tr(t)', ~ TrEnds(t)', ~ RwIn(t)', ~ Listed1(t)',
         Ph(t)' = IF reg'[t].from # None THEN Received ELSE {},
         \A s \in Thread : ~ Owes(s, t)'
  PROVE  Looked(t)
<1>1. Past(t)' /\ pc'[t] \notin Out /\ pc'[t] \notin After
  BY DEF Past, After, Waiting, Out
<1>2. OutOK(t)' /\ UnsentOK(t)' /\ AfterOK(t)'
  BY <1>1 DEF OutOK, UnsentOK, AfterOK
<1>3. SentOK(t)'
  BY DEF SentOK
<1>4. ReceiveOK(t)'
  <2>1. CanTake(t)' <=> reg'[t].from # None
    BY DEF CanTake
  <2>2. pc'[t] \notin {"pull", "pulled"}
    OBVIOUS
  <2>3. QED
    BY <2>1, <2>2 DEF ReceiveOK, Received, Taking
<1>5. TransferOK(t)'
  BY DEF TransferOK
<1>6. QED
  BY <1>2, <1>3, <1>4, <1>5 DEF ThreadOK, Looked, OwesOK

\* The receiver's CPU hands over a message without map items.
LEMMA AskedToTake ==
  ASSUME SendInv, MeetOK, NEW t \in Thread, RemoteIpcSend(t),
         NEW p \in Thread, p = reg[t].to, Accepts(p, t),
         NEW h, NEW del, NEW add, Asked(t, p, h, del, add),
         AskDone(t, p, h, del, add, Eff(p))
  PROVE  MeetOK'
<1>1. TypeInv /\ TypeOK
  BY MeetParts
<1>2. /\ pc[t] = "drq" /\ drq[t] = "send"
      /\ sent[t] = FALSE /\ got[t] = FALSE /\ reg[t].ok = TRUE /\ reg[t].activate # TRUE
      /\ ~ Listed1(t)
      /\ (\A s \in Thread : ~ Owes(s, t)) /\ \A u \in Thread \ {t} : Stays(u)
  BY AskedSender
<1>3. p # t /\ drq'[t] = "reply" /\ pc'[t] = "drq" /\ got[p] = FALSE
  BY <1>2 DEF Asked, Accepts
<1>4. /\ h = (Eff(p) \ IpcMask) \cup {"ready"}
      /\ \/ reg[t].from # None /\ del = {"send_wait"} /\ add = {"receive_wait"}
         \/ reg[t].from = None /\ del = IpcMask /\ add = {}
      /\ senders' = senders
  BY DEF AskDone
<1>5. /\ \A u \in Thread : /\ reg'[u].to = reg[u].to /\ reg'[u].from = reg[u].from
                           /\ reg'[u].next = reg[u].next
                           /\ reg'[u].activate = reg[u].activate /\ reg'[u].ok = reg[u].ok
      /\ reg'[t].res = "done" /\ reg'[p].tag = "msg" /\ reg'[p].res = reg[p].res
      /\ \A u \in Thread \ {t, p} : reg'[u] = reg[u]
  <2>1. reg' = [reg EXCEPT ![t].res = "done", ![p].tag = "msg"]
    BY DEF AskDone
  <2>2. reg \in [Thread -> Locals]
    BY <1>1 DEF TypeOK
  <2>3. PICK g : g = [reg EXCEPT ![t].res = "done"]
    <3>1. \E g : g = [reg EXCEPT ![t].res = "done"]
      BY ONLY TRUE
    <3>2. QED
      BY ONLY <3>1
  <2>4. PICK k : k = reg' /\ k = [g EXCEPT ![p].tag = "msg"]
    <3>1. [g EXCEPT ![p].tag = "msg"] = reg'
      BY <2>1, <2>3
    <3>2. QED
      BY <3>1
  <2>5. /\ g \in [Thread -> Locals]
        /\ \A u \in Thread :
              /\ g[u].to = reg[u].to /\ g[u].from = reg[u].from /\ g[u].items = reg[u].items
              /\ g[u].res = IF u = t THEN "done" ELSE reg[u].res
              /\ g[u].next = reg[u].next /\ g[u].activate = reg[u].activate
              /\ g[u].ok = reg[u].ok /\ g[u].tag = reg[u].tag
    BY ONLY <2>2, <2>3, t \in Thread, SetRes
  <2>6. \A u \in Thread :
           /\ k[u].to = g[u].to /\ k[u].from = g[u].from /\ k[u].items = g[u].items
           /\ k[u].tag = IF u = p THEN "msg" ELSE g[u].tag
           /\ k[u].next = g[u].next /\ k[u].activate = g[u].activate
           /\ k[u].res = g[u].res /\ k[u].ok = g[u].ok
    BY ONLY <2>5, <2>4, p \in Thread, SetTag
  <2>7. \A u \in Thread \ {t, p} : g[u] = reg[u]
    BY ONLY <2>2, <2>3
  <2>8. \A u \in Thread \ {t, p} : k[u] = g[u]
    BY ONLY <2>5, <2>4
  <2>9. QED
    BY <2>4, <2>5, <2>6, <2>7, <2>8, <1>3
<1>6. /\ sent'[t] = TRUE /\ got'[p] = TRUE
      /\ \A u \in Thread \ {t} : sent'[u] = sent[u]
      /\ \A u \in Thread \ {p} : got'[u] = got[u]
  <2>1. PICK open : TransferMsg(t, p, open, TRUE)
    BY DEF AskDone
  <2>2. PICK ok \in BOOLEAN : ok = TRUE /\ TransferMsg(t, p, open, ok)
    BY <2>1
  <2>3. QED
    BY <1>1, <1>2, <1>3, <2>2, HandsOver
<1>7. OwesSame(t)
  BY <1>2, <1>3, <1>5, OwesNone
<1>8. \A s \in Thread \ {t} : OwesSame(s)
  BY <1>2, <1>5, StaysOwes, StaysRemains
<1>9. \A s \in Thread : OwesSame(s)
  BY <1>7, <1>8
<1>10. \A u \in Thread : Listed1(u)' <=> Listed1(u)
  BY <1>4, SameListed
<1>11. Looked(t)
  <2>1. /\ Ph(t)' = ((Sending \ del) \cup add) \cap IpcMask
        /\ ~ Refused(t)' /\ ~ Tr(t)' /\ ~ TrEnds(t)' /\ ~ RwIn(t)'
    <3>1. del \in SUBSET IpcMask /\ add \in SUBSET {"ready", "receive_wait"}
      BY <1>4 DEF IpcMask
    <3>2. QED
      BY <3>1, AskedFlags
  <2>2. Ph(t)' = IF reg'[t].from # None THEN Received ELSE {}
    <3>1. CASE reg[t].from # None /\ del = {"send_wait"} /\ add = {"receive_wait"}
      BY <1>5, <2>1, <3>1 DEF Sending, IpcMask, Received
    <3>2. CASE reg[t].from = None /\ del = IpcMask /\ add = {}
      BY <1>5, <2>1, <3>2 DEF Sending, IpcMask
    <3>3. QED
      BY <1>4, <3>1, <3>2
  <2>3. \A s \in Thread : ~ Owes(s, t)'
    BY <1>2, <1>9 DEF OwesSame
  <2>4. reg'[t].ok = TRUE /\ reg'[t].activate # TRUE /\ got'[t] = FALSE /\ ~ Listed1(t)'
    BY <1>2, <1>3, <1>5, <1>6, <1>10
  <2>5. QED
    BY <1>3, <1>5, <1>6, <2>1, <2>2, <2>3, <2>4, AnsweredSent
<1>12. Looked(p)
  <2>1. Remains(p) /\ sent'[p] = sent[p]
    BY <1>2, <1>3, <1>6, StaysRemains
  <2>2. st'[p] = h /\ chg'[p] = NoChange
    BY DEF Asked
  <2>3. Eff(p)' = st'[p]
    BY <2>2 DEF Eff, Change, NoChange
  <2>4. Ph(p)' = {} /\ (Refused(p)' => Refused(p))
    BY <1>4, <2>2, <2>3 DEF Ph, Refused, IpcMask
  <2>5. ~ Tr(p)' /\ ~ TrEnds(p)' /\ ~ Pending(p)'
    <3>1. chg[p].add \subseteq {"ready", "receive_wait", "transfer_failed"}
      BY <1>1 DEF TypeOK, Changes
    <3>2. "transfer" \notin Eff(p)
      BY <3>1 DEF Accepts, Tr, Eff, Change
    <3>3. QED
      BY <1>4, <2>2, <3>2 DEF Tr, TrEnds, Pending, NoChange
  <2>6. \A s \in Thread : ~ Owes(s, p)'
    BY <1>9 DEF Accepts, OwesSame
  <2>7. QED
    BY <1>5, <1>6, <1>10, <2>1, <2>4, <2>5, <2>6, Handed
<1>13. \A u \in Thread \ {t, p} : Left1(t, u)
  <2>1. \A u \in Thread \ {t, p} : Untouched(u)
    BY <1>2, <1>5, <1>6 DEF Asked, Untouched, SameRegs
  <2>2. \A u \in Thread \ {t, p} : Calm(u)
    BY <1>1, <2>1, QuietCalm, StaysRemains DEF Untouched
  <2>3. QED
    BY <1>7, <1>10, <2>2 DEF Left1, OwesSame
<1>14. QED
  BY <1>8, <1>11, <1>12, <1>13, Assemble

\* remote_ipc_send().
LEMMA RemoteIpcSendMeets ==
  ASSUME SendInv, MeetOK, PickedNeverGone, NEW t \in Thread, RemoteIpcSend(t)
  PROVE  MeetOK'
<1>1. PICK p \in Thread : p = reg[t].to
  BY AskedSender
<1>2. PICK r, h, del, add :
              /\ r = CheckSender(p, t, Eff(p)) /\ Asked(t, p, h, del, add)
              /\ \/ AskFails(t, h, del, add, Eff(p))
                 \/ r = "queued" /\ AskQueues(t, p, h, del, add, Eff(p))
                 \/ r \in {"open", "closed"} /\ AskStarts(t, h, del, add, Eff(p), r)
                 \/ r \in {"open", "closed"} /\ AskDone(t, p, h, del, add, Eff(p))
  BY <1>1, AskCases
<1>3. CASE AskFails(t, h, del, add, Eff(p)) \/ AskQueues(t, p, h, del, add, Eff(p))
  <2>1. h = Eff(p)
    BY <1>3 DEF AskFails, AskQueues
  <2>2. QED
    BY <1>1, <1>2, <1>3, <2>1, AskedInVain
<1>4. CASE r \in {"open", "closed"} /\ AskStarts(t, h, del, add, Eff(p), r)
  <2>1. Accepts(p, t)
    BY <1>2, <1>4, AskedReceiver
  <2>2. QED
    BY <1>1, <1>2, <1>4, <2>1, AskedToWait
<1>5. CASE r \in {"open", "closed"} /\ AskDone(t, p, h, del, add, Eff(p))
  <2>1. Accepts(p, t)
    BY <1>2, <1>5, AskedReceiver
  <2>2. QED
    BY <1>1, <1>2, <1>5, <2>1, AskedToTake
<1>6. QED
  BY <1>2, <1>3, <1>4, <1>5

-----------------------------------------------------------------------------
(* MeetInv is inductive. *)

LEMMA InitMeet == Init => MeetInv
<1> SUFFICES ASSUME Init PROVE MeetInv
  OBVIOUS
<1>1. QueueInv
  BY InitQueue
<1>2. CallsOK
  <2>1. PICK z \in Scenes : calls = z.calls
    BY DEF Init
  <2>2. QED
    BY <2>1, IpcAssumption DEF CallsOK
<1>3. ASSUME NEW t \in Thread
      PROVE  ThreadOK(t) /\ \A s \in Thread : OwesOK(s, t)
  <2>1. /\ st[t] = {"ready"} /\ chg[t] = NoChange /\ pc[t] = "user" /\ drq[t] = "none"
        /\ sent[t] = FALSE /\ \A s \in Thread : pc[s] = "user"
    BY DEF Init
  <2>2. Eff(t) = {"ready"}
    BY <2>1 DEF Eff, Change, NoChange
  <2>3. Ph(t) = {} /\ ~ Pending(t) /\ ~ Tr(t) /\ ~ TrEnds(t)
    BY <2>1, <2>2 DEF Ph, IpcMask, Pending, Tr, TrEnds, NoChange
  <2>4. OutOK(t) /\ UnsentOK(t) /\ SentOK(t) /\ ReceiveOK(t) /\ AfterOK(t)
    BY <2>1, <2>3 DEF OutOK, UnsentOK, SentOK, ReceiveOK, AfterOK, Past, After, Out, Waiting
  <2>5. TransferOK(t)
    BY <2>1, <2>3 DEF TransferOK, Waiting
  <2>6. \A s \in Thread : ~ Owes(s, t)
    BY <2>1 DEF Owes, Transfers
  <2>7. QED
    BY <2>4, <2>5, <2>6 DEF ThreadOK, OwesOK
<1>4. QED
  BY <1>1, <1>2, <1>3 DEF MeetInv

\* Nobody leaves its place.
LEMMA StutterMeets ==
  ASSUME TypeOK, MeetOK, UNCHANGED vars
  PROVE  MeetOK'
<1>1. /\ UNCHANGED <<chg, partner, drq, pc, reg, sent, got>> /\ st' = st /\ senders' = senders
  BY DEF vars, flags, history
<1>2. \A u \in Thread : Untouched(u)
  BY <1>1 DEF Untouched, SameRegs, Stays
<1>3. \A s \in Thread : OwesSame(s)
  BY <1>2, StaysOwes, StaysRemains DEF Untouched, SameRegs
<1>4. \A u \in Thread : Listed1(u)' <=> Listed1(u)
  BY <1>1, SameListed
<1>5. ASSUME NEW u \in Thread PROVE Left1(u, u)
  <2>1. Calm(u)
    BY <1>2, QuietCalm, StaysRemains DEF Untouched
  <2>2. QED
    BY <1>3, <1>4, <2>1 DEF Left1, OwesSame
<1>6. ASSUME NEW t \in Thread PROVE MeetOK'
  <2>1. \A u \in Thread : Left1(t, u)
    <3>1. \A u \in Thread : Calm(u) /\ (Listed1(u)' <=> Listed1(u))
      BY <1>5 DEF Left1
    <3>2. QED
      BY <1>3, <3>1 DEF Left1, OwesSame
  <2>2. QED
    BY <1>3, <2>1, Assemble
<1>7. QED
  BY <1>6 DEF MeetOK

LEMMA StepMeets ==
  ASSUME SendInv, MeetOK, CallsOK, PickedNeverGone, AbortsApart,
         NEW t \in Thread, Step(t) \/ DoIpc(t) \/ Outside(t)
  PROVE  MeetOK'
<1>1. CASE HandshakeReceiver(t) \/ RemoteHandshakeReceiver(t) \/ RemoteAnswer(t)
  BY <1>1, HandshakeMeets, RemoteHandshakeMeets, RemoteAnswerMeets
<1>2. ASSUME NEW ok \in BOOLEAN, Copy(t, ok) \/ Pull(t, ok)
      PROVE  MeetOK'
  BY <1>2, CopyMeets, PullMeets
<1>3. CASE Pick(t) \/ Activate(t) \/ Switched(t) \/ Receive(t)
  BY <1>3, PickMeets, ActivateMeets, ReceiveMeets
<1>4. CASE Pulled(t) \/ WakeUp(t) \/ End(t)
  BY <1>4, PulledMeets, WakeUpMeets, EndMeets
<1>5. CASE WaitOn(t) \/ Expired(t) \/ Cancel(t) \/ PrepareKill(t)
  BY <1>5, PlainMeets
<1>6. CASE SendWaited(t) \/ Aborted(t)
  BY <1>6, SendWaitedMeets, AbortedMeets
<1>7. CASE DoKill(t) \/ AbortSender(t) \/ NoMoreSenders(t) \/ Dead(t)
  BY <1>7, DyingMeets, AbortSenderMeets
<1>8. CASE RemoteIpcSend(t) \/ RemoteAbortSend(t) \/ TakeReply(t) \/ TakeChange(t)
  BY <1>8, RemoteIpcSendMeets, RemoteAbortMeets, TakeMeets
<1>9. CASE DoIpc(t)
  BY <1>9, DoIpcMeets
<1>10. QED
  BY <1>1, <1>2, <1>3, <1>4, <1>5, <1>6, <1>7, <1>8, <1>9, DrqSteps DEF Step, Outside

\* MeetInv is inductive as long as the sender that was picked waits and aborts
\* do not cross.
LEMMA NextMeet == MeetInv /\ PickedNeverGone /\ AbortsApart /\ [Next]_vars => MeetInv'
<1> SUFFICES ASSUME MeetInv, PickedNeverGone, AbortsApart, [Next]_vars PROVE MeetInv'
  OBVIOUS
<1>1. QueueInv /\ SendInv /\ CallsOK /\ MeetOK /\ TypeInv /\ TypeOK
  BY DEF MeetInv, MeetOK, QueueInv, SendInv, PathInv, TypeInv
<1>2. PickedStillWaits
  BY <1>1 DEF PickedNeverGone, PickedStillWaits, TypeInv, ToOK
<1>3. QueueInv'
  BY <1>1, <1>2, NextQueue
<1>4. MeetOK' /\ CallsOK'
  <2>1. CASE UNCHANGED vars
    <3>1. CallsOK'
      BY <1>1, <2>1 DEF vars, world, CallsOK
    <3>2. QED
      BY <1>1, <2>1, <3>1, StutterMeets
  <2>2. CASE Next
    <3>1. PICK t \in Thread : Step(t) \/ DoIpc(t) \/ Outside(t)
      BY <2>2 DEF Next, Drq, Outside
    <3>2. MeetOK'
      BY <1>1, <3>1, StepMeets
    <3>3. CallsOK'
      <4>1. CASE DoIpc(t)
        BY <1>1, <4>1, DoIpcStarts
      <4>2. CASE Step(t) \/ Outside(t)
        <5>1. calls' = calls
          BY <4>2 DEF Step, Outside, Drq, world, HandshakeReceiver, RemoteHandshakeReceiver,
             RemoteAnswer, Copy, Pull, Pick, Activate, Switched, Receive, Pulled, WakeUp, End,
             WaitOn, SendWaited, Aborted, DoKill, AbortSender, NoMoreSenders, Dead,
             RemoteIpcSend, RemoteAbortSend, TakeReply, TakeChange, Expired, Cancel, PrepareKill
        <5>2. QED
          BY <1>1, <5>1 DEF CallsOK
      <4>3. QED
        BY <3>1, <4>1, <4>2
    <3>4. QED
      BY <3>2, <3>3
  <2>3. QED
    BY <2>1, <2>2
<1>5. QED
  BY <1>3, <1>4 DEF MeetInv, MeetOK

-----------------------------------------------------------------------------
(* Each step is one of Rendezvous, or none. *)

\* The calls of all threads, which the refinement puts for call.
TheCalls == [t \in Thread |-> TheCall(t)]

\* Nobody makes a call, and nobody returns.
LEMMA SameCalls ==
  ASSUME NEW t \in Thread, \A u \in Thread \ {t} : Stays(u),
         pc'[t] \in Out <=> pc[t] \in Out,
         pc[t] \in Out \/ (reg'[t].to = reg[t].to /\ reg'[t].from = reg[t].from)
  PROVE  TheCalls' = TheCalls
<1>1. \A u \in Thread \ {t} : TheCall(u)' = TheCall(u)
  BY DEF TheCall, Stays
<1>2. TheCall(t)' = TheCall(t)
  <2>1. CASE pc[t] \in Out
    BY <2>1 DEF TheCall, Out
  <2>2. CASE pc[t] \notin Out
    BY <2>2 DEF TheCall, Out
  <2>3. QED
    BY <2>1, <2>2
<1>3. QED
  BY <1>1, <1>2 DEF TheCalls

\* A step that the callers do not see.
LEMMA Unseen ==
  ASSUME TheCalls' = TheCalls, UNCHANGED history
  PROVE  UNCHANGED R!vars
  BY DEF R!vars, TheCalls, history

\* A transfer is a meeting of two calls that want each other, or nothing.
LEMMA Handover ==
  ASSUME TypeOK, NEW s \in Thread, NEW r \in Thread, NEW open, NEW ok \in BOOLEAN,
         TransferMsg(s, r, open, ok), TheCalls' = TheCalls,
         sent[s] = FALSE, got[r] = FALSE, pc[s] \notin Out, pc[r] \notin Out,
         reg[s].to = r, reg[r].from \in {s, Anyone}, reg[r].to = None \/ sent[r] = TRUE
  PROVE  [R!Next]_(R!vars)
<1>1. /\ ok = TRUE => sent' = [sent EXCEPT ![s] = TRUE] /\ got' = [got EXCEPT ![r] = TRUE]
      /\ ok # TRUE => sent' = sent /\ got' = got
      /\ told' = told
  BY HandsOver
<1>2. CASE ok # TRUE
  BY <1>1, <1>2, Unseen DEF history
<1>3. CASE ok = TRUE
  <2>1. /\ TheCalls[s] = [to |-> reg[s].to, from |-> reg[s].from]
        /\ TheCalls[r] = [to |-> reg[r].to, from |-> reg[r].from]
    BY DEF TheCalls, TheCall, Out
  <2>2. TheCalls[s] # None /\ TheCalls[r] # None
    <3>1. reg[s] \in Locals /\ reg[r] \in Locals
      BY DEF TypeOK
    <3>2. /\ reg[s].to \in Thread \cup {None} /\ reg[s].from \in Thread \cup {None, Anyone}
          /\ reg[r].to \in Thread \cup {None} /\ reg[r].from \in Thread \cup {None, Anyone}
      BY <3>1, LocalTypes
    <3>3. QED
      BY <2>1, <3>2, NoneIsNoCall
  <2>3. R!Sends(s, r) /\ R!Receives(r, s)
    BY <2>1, <2>2 DEF R!Sends, R!Receives, TheCalls
  <2>4. R!Meet(s, r)
    BY <1>1, <1>3, <2>3 DEF R!Meet, TheCalls
  <2>5. QED
    BY <2>4 DEF R!Next
<1>4. QED
  BY <1>2, <1>3

\* Who receives has nothing more to send.
LEMMA HasSent ==
  ASSUME SendInv, MeetOK, NEW r \in Thread, Past(r), CanTake(r)
  PROVE  pc[r] \notin Out /\ (reg[r].to = None \/ sent[r] = TRUE)
<1>1. SentOK(r) /\ AfterOK(r)
  BY MeetParts
<1>2. pc[r] \notin Out
  BY DEF Past, After, Waiting, Out
<1>3. CASE pc[r] \in After
  <2>1. reg[r].to # None => sent[r] = reg[r].ok
    BY <1>1, <1>3 DEF AfterOK
  <2>2. reg[r].ok = TRUE
    BY DEF CanTake
  <2>3. reg[r].to # None => sent[r] = TRUE
    BY <2>1, <2>2, Zenon
  <2>4. QED
    BY <1>2, <2>3
<1>4. CASE pc[r] \in Waiting /\ sent[r] = TRUE
  BY <1>4, <1>2
<1>5. QED
  BY <1>2, <1>3, <1>4 DEF Past

\* The transfer by the sender.
LEMMA CopyRefines ==
  ASSUME SendInv, MeetOK, NEW t \in Thread, NEW ok \in BOOLEAN, Copy(t, ok)
  PROVE  [R!Next]_(R!vars)
<1>1. TypeInv /\ TypeOK /\ pc[t] = "copy"
  BY MeetParts DEF Copy, At
<1>2. PICK p \in Thread : p = reg[t].to
  BY <1>1, CopyParts
<1>3. Owes(t, p) /\ OwesOK(t, p) /\ got[p] = FALSE /\ sent[t] = FALSE
  BY <1>1, <1>2, CopyParts
<1>4. Past(p) /\ CanTake(p) /\ reg[p].from \in {t, Anyone}
  BY <1>3 DEF OwesOK
<1>5. pc[p] \notin Out /\ (reg[p].to = None \/ sent[p] = TRUE)
  BY <1>4, HasSent
<1>6. TheCalls' = TheCalls
  <2>1. /\ \A u \in Thread \ {t} : Stays(u)
        /\ pc'[t] = "pick" /\ reg'[t].to = reg[t].to /\ reg'[t].from = reg[t].from
    BY <1>1, CopyMoves DEF Goes
  <2>2. QED
    BY <1>1, <2>1, SameCalls DEF Out
<1>7. PICK open : TransferMsg(t, p, open, ok)
  BY <1>2 DEF Copy
<1>8. pc[t] \notin Out
  BY <1>1 DEF Out
<1>9. QED
  BY <1>1, <1>2, <1>3, <1>4, <1>5, <1>6, <1>7, <1>8, Handover

\* The transfer by the receiver.
LEMMA PullRefines ==
  ASSUME SendInv, MeetOK, PickedNeverGone, NEW t \in Thread, NEW ok \in BOOLEAN, Pull(t, ok)
  PROVE  [R!Next]_(R!vars)
<1>1. TypeInv /\ TypeOK /\ PathOK(t) /\ ReceiveOK(t) /\ AfterOK(t) /\ pc[t] = "pull"
  BY MeetParts DEF Pull, At
<1>2. PICK n \in Thread : Pulls(t, n, ok)
  BY PullDo
<1>3. n = reg[t].next /\ On(t, n)
  BY <1>2 DEF Pulls
<1>4. reg[n].to = t /\ pc[n] \in Waiting /\ sent[n] = FALSE
  BY <1>3, ListedSender
<1>5. Past(t) /\ CanTake(t) /\ got[t] = FALSE
  <2>1. Past(t)
    BY <1>1 DEF Past, After
  <2>2. QED
    BY <1>1, <2>1 DEF ReceiveOK
<1>6. pc[t] \notin Out /\ (reg[t].to = None \/ sent[t] = TRUE)
  BY <1>5, HasSent
<1>7. reg[t].from \in {n, Anyone}
  <2>1. partner[t] = n
    <3>1. reg[t].next # None
      BY <1>1 DEF TypeInv, ToOK
    <3>2. QED
      BY <1>1, <1>3, <3>1 DEF AfterOK, After, Picked
  <2>2. QED
    BY <1>1, <1>6, <2>1 DEF PathOK
<1>8. TheCalls' = TheCalls
  <2>1. /\ \A u \in Thread \ {t} : Stays(u)
        /\ pc'[t] \in {"end", "pulled"} /\ reg'[t].to = reg[t].to /\ reg'[t].from = reg[t].from
    BY <1>1, PullMoves DEF Goes
  <2>2. QED
    BY <1>1, <2>1, SameCalls DEF Out
<1>9. PICK open : TransferMsg(n, t, open, ok)
  BY <1>3 DEF Pull
<1>10. pc[n] \notin Out
  BY <1>4 DEF Waiting, Out
<1>11. QED
  BY <1>1, <1>4, <1>5, <1>6, <1>7, <1>8, <1>9, <1>10, Handover

\* What the receiver's CPU does with a DRQ, and what else comes from outside.
LEMMA OutsideRefines ==
  ASSUME SendInv, MeetOK, PickedNeverGone, NEW t \in Thread, Outside(t)
  PROVE  [R!Next]_(R!vars)
<1>1. TypeInv /\ TypeOK
  BY MeetParts
<1>2. TheCalls' = TheCalls
  <2>1. /\ \A u \in Thread \ {t} : Stays(u)
        /\ pc' = pc /\ reg'[t].to = reg[t].to /\ reg'[t].from = reg[t].from
    BY <1>1, OutsideMoves
  <2>2. QED
    BY <2>1, SameCalls
<1>3. CASE ~ RemoteIpcSend(t)
  <2>1. UNCHANGED history
    BY <1>3 DEF Outside, RemoteAbortSend, TakeReply, TakeChange, WaitOn, Expired, Cancel, PrepareKill
  <2>2. QED
    BY <1>2, <2>1, Unseen
<1>4. CASE RemoteIpcSend(t)
  <2>1. /\ pc[t] = "drq" /\ sent[t] = FALSE
    BY <1>4, AskedSender
  <2>2. PICK p \in Thread : p = reg[t].to
    BY <1>4, AskedSender
  <2>3. PICK r, h, del, add :
              /\ r = CheckSender(p, t, Eff(p)) /\ Asked(t, p, h, del, add)
              /\ \/ AskFails(t, h, del, add, Eff(p))
                 \/ r = "queued" /\ AskQueues(t, p, h, del, add, Eff(p))
                 \/ r \in {"open", "closed"} /\ AskStarts(t, h, del, add, Eff(p), r)
                 \/ r \in {"open", "closed"} /\ AskDone(t, p, h, del, add, Eff(p))
    BY <1>4, <2>2, AskCases
  <2>4. CASE UNCHANGED <<sent, got>> /\ told' = told
    BY <1>2, <2>4, Unseen DEF history
  <2>5. CASE r \in {"open", "closed"} /\ AskDone(t, p, h, del, add, Eff(p))
    <3>1. Accepts(p, t)
      BY <1>4, <2>3, <2>5, AskedReceiver
    <3>2. pc[p] \notin Out /\ (reg[p].to = None \/ sent[p] = TRUE)
      BY <3>1, HasSent DEF Accepts
    <3>3. got[p] = FALSE /\ reg[p].from \in {t, Anyone}
      BY <3>1 DEF Accepts
    <3>4. PICK open : TransferMsg(t, p, open, TRUE)
      BY <2>5 DEF AskDone
    <3>5. PICK ok \in BOOLEAN : ok = TRUE /\ TransferMsg(t, p, open, ok)
      BY <3>4
    <3>6. pc[t] \notin Out
      BY <2>1 DEF Out
    <3>7. QED
      BY <1>1, <1>2, <2>1, <2>2, <3>2, <3>3, <3>5, <3>6, Handover
  <2>6. told' = told
    BY <1>4 DEF RemoteIpcSend, TransferMsg, history
  <2>7. QED
    BY <2>3, <2>4, <2>5, <2>6 DEF AskFails, AskQueues, AskStarts
<1>5. QED
  BY <1>3, <1>4

\* The caller is told what has happened.
LEMMA EndTells ==
  ASSUME SendInv, MeetOK, NEW t \in Thread, End(t), ~ Tr(t)
  PROVE  /\ (reg[t].to # None /\ reg[t].ok) = sent[t]
         /\ (reg[t].from # None /\ reg[t].ok /\ st[t] \cap IpcMask = {} /\ reg[t].tag # "error")
               = got[t]
<1>1. /\ TypeInv /\ TypeOK /\ AfterOK(t) /\ ReceiveOK(t) /\ TransferOK(t)
      /\ (\A s \in Thread : OwesOK(s, t)) /\ pc[t] \in {"end", "transfer"}
      /\ reg[t] \in Locals /\ sent[t] \in BOOLEAN /\ got[t] \in BOOLEAN
  BY MeetParts, EndMoves
<1>2. reg[t].ok \in BOOLEAN
  BY <1>1, LocalTypes
<1>3. Past(t) /\ ~ Pending(t)
  BY <1>1 DEF Past, After, AfterOK
<1>4. Ph(t) = st[t] \cap IpcMask
  BY <1>1, <1>3, EffIs
<1>5. ~ Busy(t)
  BY <1>1 DEF Busy, Owes, OwesOK
<1>6. (reg[t].to # None /\ reg[t].ok) = sent[t]
  <2>1. /\ reg[t].to # None => sent[t] = reg[t].ok
        /\ reg[t].to = None => sent[t] = FALSE
    BY <1>1 DEF AfterOK, After
  <2>2. CASE reg[t].to # None
    BY <1>1, <1>2, <2>1, <2>2, Zenon
  <2>3. CASE reg[t].to = None
    BY <1>1, <2>1, <2>3, Zenon
  <2>4. QED
    BY <2>2, <2>3
<1>7. /\ CanTake(t) /\ Ph(t) = {} => (got[t] = TRUE <=> reg[t].tag # "error")
      /\ CanTake(t) /\ Ph(t) # {} => got[t] = FALSE
      /\ ~ CanTake(t) => got[t] = FALSE
  BY <1>1, <1>3, <1>5 DEF ReceiveOK
<1>8. CanTake(t) <=> reg[t].from # None /\ reg[t].ok
  BY <1>2 DEF CanTake
<1>9. (reg[t].from # None /\ reg[t].ok /\ st[t] \cap IpcMask = {} /\ reg[t].tag # "error") = got[t]
  <2>1. CASE CanTake(t) /\ Ph(t) = {}
    BY <1>1, <1>4, <1>7, <1>8, <2>1
  <2>2. CASE ~ (CanTake(t) /\ Ph(t) = {})
    BY <1>1, <1>4, <1>7, <1>8, <2>2
  <2>3. QED
    BY <2>1, <2>2
<1>10. QED
  BY <1>6, <1>9

\* The end of do_ipc().
LEMMA EndRefines ==
  ASSUME SendInv, MeetOK, NEW t \in Thread, End(t)
  PROVE  [R!Next]_(R!vars)
<1>1. /\ TypeInv /\ TypeOK /\ (\A u \in Thread \ {t} : Stays(u))
      /\ pc[t] \in {"end", "transfer"} /\ pc \in [Thread -> Labels]
      /\ sent' = sent /\ got' = got
  BY MeetParts, EndMoves DEF End
<1>2. CASE Tr(t)
  <2>1. /\ pc' = [pc EXCEPT ![t] = "transfer"] /\ reg' = reg /\ told' = told
    BY <1>2 DEF End, Goto, Tr
  <2>2. pc'[t] = "transfer"
    BY <1>1, <2>1
  <2>3. TheCalls' = TheCalls
    BY <1>1, <2>1, <2>2, SameCalls DEF Out
  <2>4. QED
    BY <1>1, <2>1, <2>3, Unseen DEF history
<1>3. CASE ~ Tr(t)
  <2>1. /\ pc' = [pc EXCEPT ![t] = "user"]
        /\ told' = [told EXCEPT ![t] =
                  <<reg[t].to # None /\ reg[t].ok,
                    reg[t].from # None /\ reg[t].ok /\ st[t] \cap IpcMask = {}
                                  /\ reg[t].tag # "error">>]
    BY <1>3 DEF End, Goto, Tr
  <2>2. told' = [told EXCEPT ![t] = <<sent[t], got[t]>>]
    BY <1>3, <2>1, EndTells
  <2>3. TheCalls' = [TheCalls EXCEPT ![t] = None]
    <3>1. TheCall(t)' = None
      BY <1>1, <2>1 DEF TheCall
    <3>2. \A u \in Thread \ {t} : TheCall(u)' = TheCall(u)
      BY <1>1 DEF TheCall, Stays
    <3>3. QED
      BY <3>1, <3>2 DEF TheCalls
  <2>4. TheCalls[t] # None
    <3>1. reg[t] \in Locals
      BY <1>1 DEF TypeOK
    <3>2. reg[t].to \in Thread \cup {None} /\ reg[t].from \in Thread \cup {None, Anyone}
      BY <3>1, LocalTypes
    <3>3. TheCalls[t] = [to |-> reg[t].to, from |-> reg[t].from]
      BY <1>1 DEF TheCalls, TheCall
    <3>4. QED
      BY <3>2, <3>3, NoneIsNoCall
  <2>5. R!Return(t)
    BY <1>1, <2>2, <2>3, <2>4 DEF R!Return, TheCalls
  <2>6. QED
    BY <2>5 DEF R!Next
<1>4. QED
  BY <1>2, <1>3

\* The start of do_ipc().
LEMMA DoIpcRefines ==
  ASSUME TypeInv, CallsOK, NEW t \in Thread, DoIpc(t)
  PROVE  [R!Next]_(R!vars)
<1>1. /\ told' = told /\ (\A u \in Thread \ {t} : Stays(u))
      /\ UNCHANGED <<st, partner, pc, reg, sent, got>> \/ Starts(t)
  BY DoIpcStarts DEF Untouched
<1>2. CASE UNCHANGED <<st, partner, pc, reg, sent, got>>
  <2>1. TheCalls' = TheCalls
    BY <1>1, <1>2, SameCalls
  <2>2. QED
    BY <1>1, <1>2, <2>1, Unseen DEF history
<1>3. CASE Starts(t)
  <2>1. PICK k : k = [to |-> reg'[t].to, from |-> reg'[t].from]
    OBVIOUS
  <2>2. k \in R!Phases
    BY <1>3, <2>1 DEF Starts, R!Phases
  <2>3. TheCalls[t] = None
    BY <1>3 DEF Starts, TheCalls, TheCall
  <2>4. TheCalls' = [TheCalls EXCEPT ![t] = k]
    <3>1. TheCall(t)' = k
      BY <1>3, <2>1 DEF Starts, TheCall
    <3>2. \A u \in Thread \ {t} : TheCall(u)' = TheCall(u)
      BY <1>1 DEF TheCall, Stays
    <3>3. QED
      BY <3>1, <3>2 DEF TheCalls
  <2>5. R!Call(t, k)
    BY <1>1, <1>3, <2>3, <2>4 DEF R!Call, TheCalls, Starts
  <2>6. QED
    BY <2>2, <2>5 DEF R!Next
<1>4. QED
  BY <1>1, <1>2, <1>3

\* All other steps of do_ipc(), and the death of a thread.
LEMMA QuietRefines ==
  ASSUME TypeInv, NEW t \in Thread,
         \/ HandshakeReceiver(t) \/ RemoteHandshakeReceiver(t) \/ RemoteAnswer(t)
         \/ Pick(t) \/ Activate(t) \/ Switched(t) \/ Receive(t) \/ Pulled(t) \/ WakeUp(t)
         \/ SendWaited(t) \/ Aborted(t)
         \/ DoKill(t) \/ AbortSender(t) \/ NoMoreSenders(t) \/ Dead(t)
  PROVE  [R!Next]_(R!vars)
<1>1. UNCHANGED history
  BY DEF HandshakeReceiver, RemoteHandshakeReceiver, RemoteAnswer, Pick, Activate, Switched, Receive,
     Pulled, WakeUp, SendWaited, Aborted, DoKill, AbortSender, NoMoreSenders, Dead
<1>2. CASE \/ HandshakeReceiver(t) \/ RemoteHandshakeReceiver(t) \/ RemoteAnswer(t)
           \/ Pick(t) \/ Activate(t) \/ Switched(t) \/ Receive(t) \/ Pulled(t) \/ WakeUp(t)
           \/ SendWaited(t) \/ Aborted(t)
  <2>1. /\ \A u \in Thread \ {t} : Stays(u)
        /\ pc[t] \notin Out /\ pc'[t] \notin Out
        /\ reg'[t].to = reg[t].to /\ reg'[t].from = reg[t].from
    <3>1. CASE HandshakeReceiver(t) \/ RemoteHandshakeReceiver(t) \/ RemoteAnswer(t)
      BY <3>1, HandshakeMoves, RemoteHandshakeMoves, RemoteAnswerMoves DEF Goes, Out
    <3>2. CASE Pick(t) \/ Activate(t) \/ Switched(t) \/ Receive(t)
      BY <3>2, PickMoves, ActivateMoves, SwitchedMoves, ReceiveMoves DEF Goes, Out
    <3>3. CASE Pulled(t) \/ WakeUp(t) \/ SendWaited(t) \/ Aborted(t)
      BY <3>3, PulledMoves, WakeUpMoves, SendWaitedMoves, AbortedMoves DEF Goes, Out
    <3>4. QED
      BY <1>2, <3>1, <3>2, <3>3
  <2>2. QED
    BY <1>1, <2>1, SameCalls, Unseen
<1>3. CASE DoKill(t) \/ AbortSender(t) \/ NoMoreSenders(t) \/ Dead(t)
  <2>1. /\ \A u \in Thread \ {t} : Stays(u)
        /\ pc[t] \in Out /\ pc'[t] \in Out
    BY <1>3, KillMoves DEF Out
  <2>2. QED
    BY <1>1, <2>1, SameCalls, Unseen
<1>4. QED
  BY <1>2, <1>3

\* Every step is one of synchronous IPC, or none.
LEMMA StepRefines ==
  ASSUME MeetInv, PickedNeverGone, [Next]_vars
  PROVE  [R!Next]_(R!vars)
<1>1. SendInv /\ CallsOK /\ MeetOK /\ TypeInv
  BY DEF MeetInv, MeetOK, QueueInv, SendInv, PathInv
<1>2. CASE UNCHANGED vars
  <2>1. TheCalls' = TheCalls /\ UNCHANGED history
    BY <1>2 DEF vars, history, TheCalls, TheCall
  <2>2. QED
    BY <2>1, Unseen
<1>3. CASE Next
  <2>1. PICK t \in Thread : Step(t) \/ DoIpc(t) \/ Outside(t)
    BY <1>3 DEF Next, Drq, Outside
  <2>2. CASE DoIpc(t)
    BY <1>1, <2>2, DoIpcRefines
  <2>3. CASE Outside(t)
    BY <1>1, <2>3, OutsideRefines
  <2>4. CASE Step(t)
    <3>1. ASSUME NEW ok \in BOOLEAN, Copy(t, ok) \/ Pull(t, ok)
          PROVE  [R!Next]_(R!vars)
      BY <1>1, <3>1, CopyRefines, PullRefines
    <3>2. CASE End(t)
      BY <1>1, <3>2, EndRefines
    <3>3. CASE WaitOn(t)
      BY <1>1, <3>3, OutsideRefines DEF Outside
    <3>4. CASE \/ HandshakeReceiver(t) \/ RemoteHandshakeReceiver(t) \/ RemoteAnswer(t)
               \/ Pick(t) \/ Activate(t) \/ Switched(t) \/ Receive(t) \/ Pulled(t) \/ WakeUp(t)
               \/ SendWaited(t) \/ Aborted(t)
               \/ DoKill(t) \/ AbortSender(t) \/ NoMoreSenders(t) \/ Dead(t)
      BY <1>1, <3>4, QuietRefines
    <3>5. QED
      BY <2>4, <3>1, <3>2, <3>3, <3>4 DEF Step
  <2>5. QED
    BY <2>1, <2>2, <2>3, <2>4
<1>4. QED
  BY <1>2, <1>3

-----------------------------------------------------------------------------
\* Until one of the races of IpcRaces has happened.

RaceInv == ~ raced => IpcInv /\ MeetInv /\ PickedNeverGone /\ AbortsApart

LEMMA InitRace == RaceInit => RaceInv
<1> SUFFICES ASSUME RaceInit PROVE RaceInv
  OBVIOUS
<1>1. IpcInv /\ MeetInv
  BY InitIpc, InitMeet DEF RaceInit
<1>2. \A t \in Thread : pc[t] = "user"
  BY DEF RaceInit, Init
<1>3. PickedNeverGone /\ AbortsApart
  BY <1>2 DEF PickedNeverGone, AbortsApart
<1>4. QED
  BY <1>1, <1>3 DEF RaceInv

\* A race, once seen, is not forgotten, and what is seen of the next state is
\* that it is none.
LEMMA RaceSeen ==
  ASSUME [RaceNext]_raceVars, ~ raced', ~ raced => PickedNeverGone /\ AbortsApart
  PROVE  ~ raced /\ [Next]_vars /\ PickedNeverGone' /\ AbortsApart'
<1>1. CASE RaceNext
  BY <1>1 DEF RaceNext
<1>2. CASE UNCHANGED raceVars
  <2>1. UNCHANGED vars /\ raced' = raced
    BY <1>2 DEF raceVars
  <2>2. UNCHANGED <<st, chg, senders, pc, reg>>
    BY <2>1 DEF vars, flags
  <2>3. QED
    BY <2>1, <2>2 DEF PickedNeverGone, AbortsApart
<1>3. QED
  BY <1>1, <1>2

LEMMA NextRace == RaceInv /\ [RaceNext]_raceVars => RaceInv'
<1> SUFFICES ASSUME RaceInv, [RaceNext]_raceVars, ~ raced'
             PROVE  IpcInv' /\ MeetInv' /\ PickedNeverGone' /\ AbortsApart'
  BY DEF RaceInv
<1>1. ~ raced /\ [Next]_vars /\ PickedNeverGone' /\ AbortsApart'
  BY RaceSeen DEF RaceInv
<1>2. IpcInv /\ MeetInv /\ PickedNeverGone /\ AbortsApart
  BY <1>1 DEF RaceInv
<1>3. PickedStillWaits
  <2>1. TypeInv
    BY <1>2 DEF MeetInv, QueueInv, SendInv, PathInv
  <2>2. QED
    BY <1>2, <2>1 DEF PickedNeverGone, PickedStillWaits, TypeInv, ToOK
<1>4. IpcInv'
  BY <1>1, <1>2, <1>3, NextIpc
<1>5. MeetInv'
  BY <1>1, <1>2, NextMeet
<1>6. QED
  BY <1>1, <1>4, <1>5

(* set_caller() and reset_caller(): until a receiver has gone on with a       *)
(* sender that has left its list, or two aborts have crossed, a reply         *)
(* capability is held by one thread and leads to a caller that is still in    *)
(* that call, whose message has been received.                                *)
THEOREM ReplyCapabilityLive == RaceSpec => []CapLiveUntilRace
<1>1. RaceInv => CapLiveUntilRace
  BY CapsLive DEF RaceInv, CapLiveUntilRace
<1>2. QED
  BY <1>1, InitRace, NextRace, PTL DEF RaceSpec

(* do_ipc() implements synchronous IPC until the sender that a receiver has   *)
(* picked leaves its list, or the abort of a remote sender crosses that by    *)
(* its dying receiver: messages are handed over between two calls that want   *)
(* each other, once per phase, and each caller is told what has happened.     *)
THEOREM RendezvousImplemented == RaceSpec => ImplementsUntilRace
<1>1. RaceInit => R!Init
  BY DEF RaceInit, Init, R!Init, TheCall
<1>2. RaceInv /\ [RaceNext]_raceVars => [~ raced' => R!Next]_(R!vars)
  <2> SUFFICES ASSUME RaceInv, [RaceNext]_raceVars, ~ raced' PROVE [R!Next]_(R!vars)
    OBVIOUS
  <2>1. ~ raced /\ [Next]_vars
    BY RaceSeen DEF RaceInv
  <2>2. QED
    BY <2>1, StepRefines DEF RaceInv
<1>3. QED
  BY <1>1, <1>2, InitRace, NextRace, PTL DEF RaceSpec, ImplementsUntilRace
=============================================================================
