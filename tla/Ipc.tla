---------------------------------- MODULE Ipc ----------------------------------
(* Synchronous IPC between threads on several CPUs: do_ipc() with its         *)
(* handshake, the senders that wait at a receiver, direct and remote          *)
(* transfers, timeouts, cancelling, and the death of a partner.               *)
(*                                                                            *)
(* A thread in the kernel holds its CPU until it waits, maps items or         *)
(* switches to its partner: a section of a few steps in which no other        *)
(* thread of this CPU and no interrupt comes in.  What another CPU does to a  *)
(* thread arrives as a DRQ or as a change of state that its own CPU applies.  *)
(* All threads have one priority; the lists of senders are in order of        *)
(* arrival.                                                                   *)
EXTENDS Naturals, Sequences, FiniteSets, SequencesExt

CONSTANTS Thread, Home, None, Anyone, Reply,
          Scenes     \* the calls each thread makes, and what comes in between

(* A call of a thread: to whom it sends, or nobody; from whom it receives, or *)
(* Anyone, or nobody; whether map items are sent; and the timeouts.           *)
Limit == {"never", "some", "zero"}
Call == [to : Thread \cup {None, Reply}, from : Thread \cup {None, Anyone},
         items : BOOLEAN, snd : Limit, rcv : Limit]

Event == {"cancel", "kill"} \X Thread

Scene == [calls : [Thread -> Seq(Call)], events : SUBSET Event]

ASSUME IpcAssumption ==
    /\ None \notin Thread /\ Anyone \notin Thread /\ Reply \notin Thread
    /\ Scenes \subseteq Scene
    /\ \A z \in Scenes, t \in Thread : \A i \in DOMAIN z.calls[t] :
          LET k == z.calls[t][i]
          IN t \notin {k.to, k.from} /\ {k.to, k.from} # {None}

\* Who is in no call is told from who is in one.
ASSUME NoneIsNoCall ==
    None \notin [to : Thread \cup {None}, from : Thread \cup {None, Anyone}]

VARIABLES
    st,        \* Context::_state: the flags of each thread
    chg,       \* _remote_state_change: flags to delete and to add
    partner,   \* Receiver::_partner
    caller,    \* Receiver::_caller: who waits for a reply
    senders,   \* Receiver::_sender_list
    alarm,     \* is the timeout of the thread set?
    drq,       \* the DRQ of the thread: "none", "send", "abort" or "reply"
    pc,        \* where the thread is in do_ipc()
    reg,       \* the local variables of do_ipc()
    calls,     \* the calls the thread still makes
    events,    \* who may still be cancelled or killed
    sent,      \* history: the message of this call has been handed over
    got,       \* history: a message has been received in this call
    told       \* history: what the last call was told

flags   == <<st, chg>>
history == <<sent, got, told>>
world   == <<calls, events>>
vars    == <<flags, partner, caller, senders, alarm, drq, pc, reg, world, history>>

IpcMask  == {"send_wait", "receive_wait", "receive_in_progress"}
Abort    == {"transfer_failed", "cancel", "timeout", "transfer"}
FullMask == IpcMask \cup Abort

Idle == [to |-> None, from |-> None, items |-> FALSE,
         snd |-> "never", rcv |-> "never", next |-> None, activate |-> FALSE,
         res |-> "none", ok |-> TRUE, tag |-> "none"]

NoChange == [del |-> {}, add |-> {}]

Init == /\ st = [t \in Thread |-> {"ready"}]
        /\ chg = [t \in Thread |-> NoChange]
        /\ partner = [t \in Thread |-> None]
        /\ caller = [t \in Thread |-> None]
        /\ senders = [t \in Thread |-> <<>>]
        /\ alarm = [t \in Thread |-> FALSE]
        /\ drq = [t \in Thread |-> "none"]
        /\ pc = [t \in Thread |-> "user"]
        /\ reg = [t \in Thread |-> Idle]
        /\ \E z \in Scenes : calls = z.calls /\ events = z.events
        /\ sent = [t \in Thread |-> FALSE]
        /\ got = [t \in Thread |-> FALSE]
        /\ told = [t \in Thread |-> <<FALSE, FALSE>>]

Goto(t, l) == pc' = [pc EXCEPT ![t] = l]
Local(t, p) == Home[t] = Home[p]
Listed(s) == \E p \in Thread : Contains(senders[p], s)
Unlisted(s) ==
    [p \in Thread |-> IF Contains(senders[p], s)
                      THEN RemoveAt(senders[p],
                                    CHOOSE i \in DOMAIN senders[p] : senders[p][i] = s)
                      ELSE senders[p]]

\* t holds its CPU with interrupts off; the transfer of items opens the lock.
InSection(t) ==
    \/ pc[t] \in {"send", "pick", "activate", "receive", "end"}
    \/ pc[t] = "copy" /\ ~ reg[t].items
    \/ pc[t] = "pull" /\ ~ reg[reg[t].next].items

Preemptible(c) == \A t \in Thread : Home[t] = c => ~ InSection(t)

\* t is at l, and has the CPU or is given it
At(t, l) == /\ pc[t] = l
            /\ InSection(t) \/ (Preemptible(Home[t]) /\ "ready" \in st[t])

\* handle_remote_state_change() of t whose flags are f: the changes are made
Change(f, t) == (f \ chg[t].del) \cup chg[t].add
ChangeTaken(t) == [chg EXCEPT ![t] = NoChange]

(* xcpu_state_change() of x on the CPU of t, where flags and changes are f, g *)
XcpuStateChange(t, x, del, add, f, g) ==
    IF Local(t, x)
    THEN /\ st' = [f EXCEPT ![x] = (@ \ del) \cup add]
         /\ chg' = g
    ELSE /\ st' = f
         /\ chg' = [g EXCEPT ![x] = [del |-> (@.del \ add) \cup del,
                                     add |-> (@.add \ del) \cup add]]

-----------------------------------------------------------------------------
(* Operations of the receiver that others call. *)

\* sender_ok(): whether p, with the flags f, takes the message of t now
SenderOk(p, t, f) ==
    IF f \cap IpcMask # {"receive_wait"} THEN "no"
    ELSE IF partner[p] = Anyone /\ senders[p] = <<>> THEN "open"
    ELSE IF partner[p] = t THEN "closed" ELSE "no"

\* check_sender() without its effect
CheckSender(p, t, f) ==
    IF "dead" \in f THEN "failed"
    ELSE IF SenderOk(p, t, f) # "no" THEN SenderOk(p, t, f)
    ELSE IF reg[t].snd = "zero" THEN "failed" ELSE "queued"

(* transfer_msg() from s to r, with the reply capability if r waits for anybody *)
TransferMsg(s, r, open, ok) ==
    /\ caller' = IF ok /\ open /\ partner[s] = r
                 THEN [caller EXCEPT ![r] = s] ELSE caller
    /\ sent' = [sent EXCEPT ![s] = @ \/ ok]
    /\ got' = [got EXCEPT ![r] = @ \/ ok]
    /\ UNCHANGED told

Tagged(ok) == IF ok THEN "msg" ELSE "error"

-----------------------------------------------------------------------------
(* The send phase. *)

\* The system call up to the handshake.  Who has nobody to reply to has an
\* invalid capability, and the call does nothing.
DoIpc(t) ==
    LET k  == Head(calls[t])
        to == IF k.to = Reply THEN caller[t] ELSE k.to
    IN
    /\ calls[t] # <<>> /\ At(t, "user") /\ "dying" \notin st[t]
    /\ calls' = [calls EXCEPT ![t] = Tail(@)]
    /\ IF k.to = Reply /\ to = None
       THEN UNCHANGED <<st, partner, caller, pc, reg, sent, got>>
       ELSE /\ partner' = [partner EXCEPT ![t] = k.from]
            /\ caller' = IF to # None /\ caller[t] = to
                         THEN [caller EXCEPT ![t] = None] ELSE caller
            /\ reg' = [reg EXCEPT ![t] =
                          [Idle EXCEPT !.to = to, !.from = k.from,
                              !.items = k.items, !.snd = k.snd, !.rcv = k.rcv]]
            /\ st' = [st EXCEPT ![t] = IF to = None
                                       THEN @ \cup {"receive_wait"} ELSE @]
            /\ Goto(t, IF to = None THEN "pick" ELSE "send")
            /\ sent' = [sent EXCEPT ![t] = FALSE]
            /\ got' = [got EXCEPT ![t] = FALSE]
    /\ UNCHANGED <<chg, senders, alarm, drq, events, told>>

\* The send phase has failed: the rest of do_ipc() has nothing to do.
SendFails(t) == /\ reg' = [reg EXCEPT ![t].ok = FALSE]
                /\ Goto(t, "end")

\* handshake_receiver(), and do_send_wait() up to the wait
HandshakeReceiver(t) ==
    LET p == reg[t].to
        r == CheckSender(p, t, st[p])
    IN
    /\ At(t, "send") /\ Local(t, p)
    /\ \/ /\ r = "failed"
          /\ SendFails(t)
          /\ st' = [st EXCEPT ![t] = @ \ IpcMask]
          /\ UNCHANGED <<senders, alarm>>
       \/ /\ r = "queued"
          /\ senders' = [senders EXCEPT ![p] = Append(@, t)]
          /\ st' = [st EXCEPT ![t] = (@ \cup {"send_wait"}) \
                          (IF @ \cap Abort = {} THEN {"ready"} ELSE {})]
          /\ alarm' = [alarm EXCEPT ![t] = reg[t].snd = "some"]
          /\ Goto(t, "sendWait")
          /\ UNCHANGED reg
       \/ /\ r \in {"open", "closed"}
          /\ st' = [st EXCEPT ![p] =
                       (@ \ (IpcMask \cup {"ready"})) \cup {"transfer"}]
          /\ alarm' = [alarm EXCEPT ![p] = FALSE]
          /\ reg' = [reg EXCEPT ![t].res = r]
          /\ Goto(t, "copy")
          /\ UNCHANGED senders
    /\ UNCHANGED <<chg, partner, caller, drq, world, history>>

\* remote_handshake_receiver(): a DRQ to the receiver, and the wait for the answer
RemoteHandshakeReceiver(t) ==
    /\ At(t, "send") /\ ~ Local(t, reg[t].to)
    /\ st' = [st EXCEPT ![t] = (@ \cup {"send_wait", "drq_wait"}) \ {"ready"}]
    /\ drq' = [drq EXCEPT ![t] = "send"]
    /\ Goto(t, "drq")
    /\ UNCHANGED <<chg, partner, caller, senders, alarm, reg, world, history>>

\* A DRQ to p is handled by its CPU, by the sender itself once p has none.
Handles(p) == "dead" \in st[p] \/ Preemptible(Home[p])

\* remote_ipc_send(), after the changes of state that wait for the receiver
RemoteIpcSend(t) ==
    LET p == reg[t].to
        f == [st EXCEPT ![p] = Change(@, p)]
        r == CheckSender(p, t, f[p])
        ready == [f EXCEPT ![p] = (@ \ IpcMask) \cup {"ready"}]
        taken == [f EXCEPT ![p] =
                     (@ \ (IpcMask \cup {"ready"})) \cup {"transfer"}]
    IN
    /\ drq[t] = "send" /\ Handles(p)
    /\ drq' = [drq EXCEPT ![t] = "reply"]
    /\ \/ /\ r = "failed"
          /\ XcpuStateChange(p, t, IpcMask, {}, f, ChangeTaken(p))
          /\ reg' = [reg EXCEPT ![t].res = r]
          /\ UNCHANGED <<caller, senders, history>>
       \/ /\ r = "queued"
          /\ senders' = [senders EXCEPT ![p] = Append(@, t)]
          /\ st' = f /\ chg' = ChangeTaken(p)
          /\ reg' = [reg EXCEPT ![t].res = r]
          /\ UNCHANGED <<caller, history>>
       \/ /\ r \in {"open", "closed"} /\ reg[t].items
          /\ XcpuStateChange(p, t, {"send_wait"}, {"ready"},
                             taken, ChangeTaken(p))
          /\ reg' = [reg EXCEPT ![t].res = r]
          /\ UNCHANGED <<caller, senders, history>>
       \/ /\ r \in {"open", "closed"} /\ ~ reg[t].items
          /\ TransferMsg(t, p, r = "open", TRUE)
          /\ IF reg[t].from # None
             THEN XcpuStateChange(p, t, {"send_wait"}, {"receive_wait"},
                                  ready, ChangeTaken(p))
             ELSE XcpuStateChange(p, t, IpcMask, {}, ready, ChangeTaken(p))
          /\ reg' = [reg EXCEPT ![t].res = "done", ![p].tag = "msg"]
          /\ UNCHANGED senders
    /\ UNCHANGED <<partner, alarm, pc, world>>

\* do_ipc() with the answer of the receiver's CPU
RemoteAnswer(t) ==
    /\ At(t, "drq") /\ "drq_wait" \notin st[t]
    /\ \/ /\ reg[t].res = "failed"
          /\ SendFails(t)
          /\ st' = [st EXCEPT ![t] = @ \ IpcMask]
          /\ UNCHANGED alarm
       \/ /\ reg[t].res = "queued"
          /\ Goto(t, "sendWait")
          /\ alarm' = [alarm EXCEPT ![t] = reg[t].snd = "some"]
          /\ UNCHANGED <<st, reg>>
       \/ /\ reg[t].res = "done" /\ Goto(t, "pick")
          /\ UNCHANGED <<st, reg, alarm>>
       \/ /\ reg[t].res \in {"open", "closed"} /\ Goto(t, "copy")
          /\ UNCHANGED <<st, reg, alarm>>
    /\ UNCHANGED <<chg, partner, caller, senders, drq, world, history>>

\* The transfer by the sender; with items it is preemptible and may fail.
Copy(t, ok) ==
    LET p == reg[t].to IN
    /\ At(t, "copy") /\ (ok \/ reg[t].items)
    /\ TransferMsg(t, p, reg[t].res = "open", ok)
    /\ st' = [st EXCEPT ![t] = (@ \ IpcMask) \cup
                 (IF ok /\ reg[t].from # None THEN {"receive_wait"} ELSE {})]
    /\ reg' = [reg EXCEPT ![t].ok = ok, ![t].activate = TRUE, ![p].tag = Tagged(ok)]
    /\ Goto(t, "pick")
    /\ UNCHANGED <<chg, partner, senders, alarm, drq, world>>

-----------------------------------------------------------------------------
(* The receive phase. *)

(* Mutation: a closed wait looks at the first sender only. *)
NextSenderFirst(t) ==
    IF senders[t] = <<>> \/ reg[t].from \notin {Anyone, Head(senders[t])}
    THEN None ELSE Head(senders[t])

\* get_next_sender()
NextSender(t) ==
    LET from == reg[t].from IN
    IF from = Anyone
    THEN IF senders[t] = <<>> THEN None ELSE Head(senders[t])
    ELSE IF Contains(senders[t], from) THEN from ELSE None

GetNextSender(t) ==
    LET n == IF "receive_wait" \in st[t] /\ reg[t].next = None
             THEN NextSender(t) ELSE reg[t].next
    IN /\ reg' = [reg EXCEPT ![t].next = n]
       /\ partner' = IF n # None /\ reg[t].from = Anyone
                     THEN [partner EXCEPT ![t] = n] ELSE partner

Pick(t) ==
    /\ At(t, "pick")
    /\ GetNextSender(t)
    /\ Goto(t, IF reg[t].activate THEN "activate" ELSE "receive")
    /\ UNCHANGED <<flags, caller, senders, alarm, drq, world, history>>

(* activate_ipc_partner(): a partner of this CPU may get the CPU at once,     *)
(* because the call says so or because it is more urgent.                     *)
Activate(t) ==
    LET p == reg[t].to IN
    /\ At(t, "activate")
    /\ XcpuStateChange(t, p, {"transfer"}, {"ready"}, st, chg)
    /\ \/ Goto(t, "receive")
       \/ /\ Local(t, p)
          /\ Goto(t, "switched")
    /\ UNCHANGED <<partner, caller, senders, alarm, drq, reg, world, history>>

\* ... and t goes on later, when other senders may have come.
Switched(t) ==
    /\ At(t, "switched")
    /\ GetNextSender(t)
    /\ Goto(t, "receive")
    /\ UNCHANGED <<flags, caller, senders, alarm, drq, world, history>>

\* Take the message of a waiting sender, or sleep, or have nothing to receive.
Receive(t) ==
    /\ At(t, "receive")
    /\ \/ /\ reg[t].next # None
          /\ st' = [st EXCEPT ![t] = (@ \ IpcMask) \cup {"receive_in_progress"}]
          /\ Goto(t, "pull")
          /\ UNCHANGED alarm
       \/ /\ reg[t].next = None /\ st[t] \cap FullMask = {"receive_wait"}
          /\ st' = [st EXCEPT ![t] = IF reg[t].rcv = "zero"
                                     THEN @ \cup {"timeout"} ELSE @ \ {"ready"}]
          /\ alarm' = [alarm EXCEPT ![t] = reg[t].rcv = "some"]
          /\ Goto(t, "asleep")
       \/ /\ reg[t].next = None /\ st[t] \cap FullMask # {"receive_wait"}
          /\ Goto(t, "end")
          /\ UNCHANGED <<st, alarm>>
    /\ UNCHANGED <<chg, partner, caller, senders, drq, reg, world, history>>

(* Mutation: the sender is not made ready. *)
SentFlagsAsleep(n) == IF reg[n].from # None THEN {"receive_wait"} ELSE {}

\* what a sender whose message has been taken gets
SentFlags(n) == {"ready"} \cup (IF reg[n].from # None THEN {"receive_wait"} ELSE {})

(* ipc_send_msg() of the sender that was picked, by the receiver; a sender of *)
(* this CPU may get the CPU at once.                                          *)
Pull(t, ok) ==
    LET n    == reg[t].next
        took == [st EXCEPT ![t] = @ \ IpcMask]
    IN
    /\ At(t, "pull") /\ (ok \/ reg[n].items)
    /\ TransferMsg(n, t, reg[t].from = Anyone, ok)
    /\ senders' = Unlisted(n)
    /\ \E switch \in {FALSE, Local(t, n)} :
          /\ Goto(t, IF switch THEN "pulled" ELSE "end")
          /\ LET f == IF switch THEN st ELSE took IN
             IF ok
             THEN XcpuStateChange(t, n, IpcMask \cup {"transfer"}, SentFlags(n),
                                  f, chg)
             ELSE XcpuStateChange(t, n, {}, {"transfer_failed", "ready"}, f, chg)
    /\ reg' = [reg EXCEPT ![t].tag = Tagged(ok), ![n].ok = ok]
    /\ UNCHANGED <<partner, alarm, drq, world>>

Pulled(t) ==
    /\ At(t, "pulled")
    /\ st' = [st EXCEPT ![t] = @ \ IpcMask]
    /\ Goto(t, "end")
    /\ UNCHANGED <<chg, partner, caller, senders, alarm, drq, reg, world, history>>

\* the end of goto_sleep()
WakeUp(t) ==
    /\ At(t, "asleep")
    /\ alarm' = [alarm EXCEPT ![t] = FALSE]
    /\ Goto(t, "end")
    /\ UNCHANGED <<flags, partner, caller, senders, drq, reg, world, history>>

(* Mutation: the reply capability stays with the partner. *)
ResetCallerNot(t) == caller

\* Who has its answer, or gives up, takes the reply capability from the partner.
ResetCaller(t) ==
    LET r == reg[t] IN
    IF r.to = r.from /\ r.to # None /\ caller[r.to] = t
    THEN [caller EXCEPT ![r.to] = None] ELSE caller

\* The end of do_ipc(), which waits for a transfer to t that goes on.
End(t) ==
    LET r == reg[t]
        f == st[t]
    IN
    /\ At(t, "end") \/ (At(t, "transfer") /\ "transfer" \notin f)
    /\ caller' = ResetCaller(t)
    /\ IF "transfer" \in f
       THEN /\ st' = [st EXCEPT ![t] = @ \ {"ready"}]
            /\ Goto(t, "transfer")
            /\ UNCHANGED <<reg, told>>
       ELSE /\ st' = [st EXCEPT ![t] = @ \ FullMask]
            /\ told' = [told EXCEPT ![t] =
                  <<r.to # None /\ r.ok,
                    r.from # None /\ r.ok /\ f \cap IpcMask = {}
                                  /\ r.tag # "error">>]
            /\ reg' = [reg EXCEPT ![t] = Idle]
            /\ Goto(t, "user")
    /\ UNCHANGED <<chg, partner, senders, alarm, drq, world, sent, got>>

-----------------------------------------------------------------------------
(* A wait that ends before its time. *)

(* Mutation: a sender that waits does not look at Thread_cancel. *)
WaitsIgnoresCancel(t) ==
    \/ /\ pc[t] = "sendWait"
       /\ st[t] \cap ({"send_wait"} \cup (Abort \ {"cancel"})) = {"send_wait"}
    \/ pc[t] \in {"drq", "abort"} /\ "drq_wait" \in st[t]
    \/ pc[t] = "transfer" /\ "transfer" \in st[t]

\* Each wait is a loop: who is made ready too early waits on.
Waits(t) ==
    \/ pc[t] = "sendWait" /\ st[t] \cap ({"send_wait"} \cup Abort) = {"send_wait"}
    \/ pc[t] \in {"drq", "abort"} /\ "drq_wait" \in st[t]
    \/ pc[t] = "transfer" /\ "transfer" \in st[t]

WaitOn(t) ==
    /\ Waits(t) /\ "ready" \in st[t] /\ Preemptible(Home[t])
    /\ st' = [st EXCEPT ![t] = @ \ {"ready"}]
    /\ UNCHANGED <<chg, partner, caller, senders, alarm, drq, pc, reg, world, history>>

\* The end of do_send_wait(), with abort_send() of the sender's own CPU.
SendWaited(t) ==
    LET p == reg[t].to
        aborts == "send_wait" \in st[t] /\ "transfer_failed" \notin st[t]
                  /\ {"cancel", "timeout"} \cap st[t] # {}
    IN
    /\ At(t, "sendWait") /\ ~ Waits(t)
    /\ alarm' = [alarm EXCEPT ![t] = FALSE]
    /\ \/ /\ "send_wait" \notin st[t]
          /\ Goto(t, "pick")
          /\ UNCHANGED <<st, reg, senders, drq>>
       \/ /\ {"send_wait", "transfer_failed"} \subseteq st[t]
          /\ st' = [st EXCEPT ![t] = @ \ FullMask]
          /\ SendFails(t)
          /\ UNCHANGED <<senders, drq>>
       \/ /\ aborts /\ Local(t, p) /\ Listed(t)
          /\ st' = [st EXCEPT ![t] = @ \ FullMask]
          /\ senders' = Unlisted(t)
          /\ SendFails(t)
          /\ UNCHANGED drq
       \/ /\ aborts /\ ~ Local(t, p)
          /\ st' = [st EXCEPT ![t] =
                       (@ \ (FullMask \cup {"ready"})) \cup {"drq_wait"}]
          /\ drq' = [drq EXCEPT ![t] = "abort"]
          /\ Goto(t, "abort")
          /\ UNCHANGED <<senders, reg>>
    /\ UNCHANGED <<chg, partner, caller, world, history>>

(* Mutation: the sender stays in the list of the receiver. *)
RemoteAbortSendLeaves(t) ==
    LET p == reg[t].to IN
    /\ drq[t] = "abort" /\ Handles(p)
    /\ st' = [st EXCEPT ![p] = Change(@, p)]
    /\ chg' = ChangeTaken(p)
    /\ reg' = [reg EXCEPT ![t].res = IF Listed(t) THEN "cancel" ELSE "done"]
    /\ drq' = [drq EXCEPT ![t] = "reply"]
    /\ UNCHANGED <<partner, caller, senders, alarm, pc, world, history>>

\* handle_remote_abort_send(), after the changes of state of the receiver
RemoteAbortSend(t) ==
    LET p == reg[t].to IN
    /\ drq[t] = "abort" /\ Handles(p)
    /\ st' = [st EXCEPT ![p] = Change(@, p)]
    /\ chg' = ChangeTaken(p)
    /\ reg' = [reg EXCEPT ![t].res = IF Listed(t) THEN "cancel" ELSE "done"]
    /\ senders' = Unlisted(t)
    /\ drq' = [drq EXCEPT ![t] = "reply"]
    /\ UNCHANGED <<partner, caller, alarm, pc, world, history>>

\* abort_send() with the answer of the receiver's CPU
Aborted(t) ==
    /\ At(t, "abort") /\ "drq_wait" \notin st[t]
    /\ \/ /\ reg[t].res = "cancel" /\ SendFails(t)
       \/ /\ reg[t].res = "done" /\ Goto(t, "pick") /\ UNCHANGED reg
    /\ UNCHANGED <<flags, partner, caller, senders, alarm, drq, world, history>>

\* A CPU takes what other CPUs have left for t.
TakeReply(t) ==
    /\ drq[t] = "reply" /\ Preemptible(Home[t])
    /\ st' = [st EXCEPT ![t] = Change((@ \ {"drq_wait"}) \cup {"ready"}, t)]
    /\ chg' = ChangeTaken(t)
    /\ drq' = [drq EXCEPT ![t] = "none"]
    /\ UNCHANGED <<partner, caller, senders, alarm, pc, reg, world, history>>

TakeChange(t) ==
    /\ chg[t] # NoChange /\ Preemptible(Home[t])
    /\ st' = [st EXCEPT ![t] = Change(@, t)]
    /\ chg' = ChangeTaken(t)
    /\ UNCHANGED <<partner, caller, senders, alarm, drq, pc, reg, world, history>>

\* IPC_timeout::expired()
Expired(t) ==
    /\ alarm[t] /\ Preemptible(Home[t])
    /\ alarm' = [alarm EXCEPT ![t] = FALSE]
    /\ st' = IF st[t] \cap IpcMask = {} \/ "receive_in_progress" \in st[t] THEN st
             ELSE [st EXCEPT ![t] = @ \cup {"ready", "timeout"}]
    /\ UNCHANGED <<chg, partner, caller, senders, drq, pc, reg, world, history>>

-----------------------------------------------------------------------------
(* Cancelling and killing. *)

\* ex_regs() with Exr_cancel
Cancel(t) ==
    /\ <<"cancel", t>> \in events /\ "dead" \notin st[t] /\ Preemptible(Home[t])
    /\ events' = events \ {<<"cancel", t>>}
    /\ st' = [st EXCEPT ![t] = @ \cup {"cancel", "ready"}]
    /\ UNCHANGED <<chg, partner, caller, senders, alarm, drq, pc, reg, calls, history>>

\* prepare_kill()
PrepareKill(t) ==
    /\ <<"kill", t>> \in events /\ Preemptible(Home[t])
    /\ events' = events \ {<<"kill", t>>}
    /\ st' = [st EXCEPT ![t] = @ \cup {"dying", "cancel", "ready"}]
    /\ UNCHANGED <<chg, partner, caller, senders, alarm, drq, pc, reg, calls, history>>

\* do_kill() on the way to user mode
DoKill(t) ==
    /\ At(t, "user") /\ "dying" \in st[t]
    /\ Goto(t, "kill")
    /\ UNCHANGED <<flags, partner, caller, senders, alarm, drq, reg, world, history>>

\* ipc_receiver_aborted() of each waiting sender, with a preemption point between
AbortSender(t) ==
    LET s == Head(senders[t]) IN
    /\ At(t, "kill") /\ senders[t] # <<>>
    /\ senders' = Unlisted(s)
    /\ XcpuStateChange(t, s, {}, {"transfer_failed", "ready"}, st, chg)
    /\ UNCHANGED <<partner, caller, alarm, drq, pc, reg, world, history>>

NoMoreSenders(t) ==
    /\ At(t, "kill") /\ senders[t] = <<>>
    /\ Goto(t, "dying")
    /\ UNCHANGED <<flags, partner, caller, senders, alarm, drq, reg, world, history>>

Dead(t) ==
    /\ At(t, "dying")
    /\ st' = [st EXCEPT ![t] = {"dead"}]
    /\ Goto(t, "dead")
    /\ UNCHANGED <<chg, partner, caller, senders, alarm, drq, reg, world, history>>

-----------------------------------------------------------------------------
Step(t) ==
    \/ HandshakeReceiver(t) \/ RemoteHandshakeReceiver(t) \/ RemoteAnswer(t)
    \/ \E ok \in BOOLEAN : Copy(t, ok) \/ Pull(t, ok)
    \/ Pick(t) \/ Activate(t) \/ Switched(t)
    \/ Receive(t) \/ Pulled(t) \/ WakeUp(t) \/ End(t)
    \/ WaitOn(t) \/ SendWaited(t) \/ Aborted(t)
    \/ DoKill(t) \/ AbortSender(t) \/ NoMoreSenders(t) \/ Dead(t)

Drq(t) == RemoteIpcSend(t) \/ RemoteAbortSend(t) \/ TakeReply(t)

Next == \E t \in Thread :
          \/ DoIpc(t) \/ Step(t) \/ Drq(t) \/ TakeChange(t)
          \/ Expired(t) \/ Cancel(t) \/ PrepareKill(t)

Spec == Init /\ [][Next]_vars

\* The threads and interrupts of a CPU get their turn, at one priority by their
\* time slices.  A timeout may be far off, and nobody need make a call.
Fairness == \A t \in Thread :
               WF_vars(Step(t)) /\ WF_vars(Drq(t)) /\ WF_vars(TakeChange(t))

FairSpec == Spec /\ Fairness

-----------------------------------------------------------------------------
Flag == FullMask \cup {"ready", "drq_wait", "dying", "dead"}

Changes == [del : SUBSET (IpcMask \cup {"transfer"}),
            add : SUBSET {"ready", "receive_wait", "transfer_failed"}]

Labels == {"user", "send", "drq", "sendWait", "abort", "copy", "pick", "activate",
           "switched", "receive", "pull", "pulled", "asleep", "transfer", "end",
           "kill", "dying", "dead"}

Locals == [to : Thread \cup {None}, from : Thread \cup {None, Anyone},
           items : BOOLEAN, snd : Limit, rcv : Limit,
           next : Thread \cup {None}, activate : BOOLEAN,
           res : {"none", "failed", "queued", "open", "closed", "done", "cancel"},
           ok : BOOLEAN, tag : {"none", "msg", "error"}]

TypeOK ==
    /\ st \in [Thread -> SUBSET Flag]
    /\ chg \in [Thread -> Changes]
    /\ partner \in [Thread -> Thread \cup {None, Anyone}]
    /\ caller \in [Thread -> Thread \cup {None}]
    /\ senders \in [Thread -> Seq(Thread)]
    /\ alarm \in [Thread -> BOOLEAN]
    /\ drq \in [Thread -> {"none", "send", "abort", "reply"}]
    /\ pc \in [Thread -> Labels]
    /\ reg \in [Thread -> Locals]
    /\ calls \in [Thread -> Seq(Call)]
    /\ events \subseteq Event
    /\ sent \in [Thread -> BOOLEAN]
    /\ got \in [Thread -> BOOLEAN]
    /\ told \in [Thread -> BOOLEAN \X BOOLEAN]

-----------------------------------------------------------------------------
(* Who takes a message takes it from a sender that still waits in its list.   *)
(* do_ipc() keeps the pointer to the sender it has picked while it maps items *)
(* or lets its partner run, and nothing makes sure of this.                   *)
PickedStillWaits ==
    \A t \in Thread : pc[t] = "pull" => Contains(senders[t], reg[t].next)

(* ... and the sender it has picked does not leave the list from the pick on. *)
PickedNeverGone ==
    \A t \in Thread :
       pc[t] \in {"activate", "switched", "receive", "pull"} /\ reg[t].next # None =>
          Contains(senders[t], reg[t].next)

(* The abort of a remote sender and that by its dying receiver do not cross:  *)
(* a sender that waits for the answer to its DRQ has not been told that its   *)
(* transfer has failed.  abort_send() deletes Thread_transfer_failed without  *)
(* a look, and the receiver's CPU says that the message was taken.            *)
AbortsApart ==
    \A t \in Thread :
       pc[t] = "abort" => "transfer_failed" \notin st[t] \cup chg[t].add

(* A thread that sleeps in its receive phase is in nobody's way: no sender it *)
(* accepts waits in its list.  Each looks for the other once and then sleeps, *)
(* so both looks must be one section of one CPU (get_next_sender() and        *)
(* goto_sleep(), check_sender() and the enqueue).                             *)
NoMissedRendezvous ==
    \A p \in Thread :
       pc[p] = "asleep" /\ st[p] \cap FullMask = {"receive_wait"} =>
           /\ partner[p] = Anyone => senders[p] = <<>>
           /\ partner[p] # Anyone => ~ Contains(senders[p], partner[p])

(* A reply capability leads to a thread that waits for this very reply: it    *)
(* has sent its message to the one who holds it, is in the same call still,   *)
(* and nobody else holds one for it (set_caller(), reset_caller()).           *)
ReplyCapIsLive ==
    \A p, t \in Thread : caller[p] = t =>
        /\ pc[t] # "user" /\ reg[t].to = p /\ reg[t].from = p /\ sent[t]
        /\ \A q \in Thread : caller[q] = t => q = p

TheCall(t) == IF pc[t] \in {"user", "kill", "dying", "dead"} THEN None
              ELSE [to |-> reg[t].to, from |-> reg[t].from]

R == INSTANCE Rendezvous WITH call <- [t \in Thread |-> TheCall(t)]

(* do_ipc() implements synchronous IPC: messages are handed over between two  *)
(* calls that want each other, the send phase first, once per phase, and each *)
(* caller is told what has happened, however timeouts, cancels and the death  *)
(* of the partner race with a transfer (do_ipc(), abort_send(), do_kill()).   *)
ImplementsRendezvous == R!Spec

Cancelled(t) == "cancel" \in st[t] /\ TheCall(t) # None

(* Who is cancelled, or killed, in a call does not stay in it: "this function *)
(* blocks until ... the IPC is canceled, or the thread is killed" (do_ipc()). *)
CancelEnds == \A t \in Thread : Cancelled(t) ~> (TheCall(t) = None)

(* No wait of do_ipc() and do_send_wait() sleeps through Thread_cancel: a     *)
(* call that is cancelled ends, unless its send phase comes to an end on      *)
(* another CPU; abort_send() then deletes the flag and asks there whether the *)
(* message has been taken, and if so the call goes on.                        *)
CancelHeard ==
    \A t \in Thread : Cancelled(t) ~> (TheCall(t) = None \/ pc[t] = "abort")

\* t depends on what another thread or CPU has begun.
Engaged(t) ==
    \/ "transfer" \in st[t]
    \/ pc[t] \in {"drq", "abort"}
    \/ pc[t] = "sendWait" /\ sent[t]
    \/ pc[t] = "asleep" /\ got[t]

(* Nobody is left alone in the middle of a handshake: a receiver that was put *)
(* to sleep for a transfer, a sender whose message has been taken and one     *)
(* that waits for the answer to its DRQ go on (remote_ipc_send(),             *)
(* ipc_send_msg(), activate_ipc_partner()).                                   *)
HandshakeEnds == \A t \in Thread : Engaged(t) ~> ~ Engaged(t)
=============================================================================
