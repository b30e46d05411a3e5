----------------------------- MODULE Rendezvous -----------------------------
(***************************************************************************)
(* What synchronous IPC promises.  A call has a send phase, a receive      *)
(* phase or both, one after the other.  A message is handed over when a    *)
(* thread in its send phase meets one in its receive phase that accepts    *)
(* it, and only then.  A call may end at any time, and its caller is told  *)
(* of both phases what has happened.                                       *)
(***************************************************************************)
CONSTANTS Thread, None, Anyone

VARIABLES call,    \* [Thread -> None or whom the call is to and from]
          sent,    \* [Thread -> its message of this call has been handed over]
          got,     \* [Thread -> it was given a message in this call]
          told     \* [Thread -> what it was told of its last call]

vars == <<call, sent, got, told>>

Phases == [to : Thread \cup {None}, from : Thread \cup {None, Anyone}]

Init == /\ call = [t \in Thread |-> None]
        /\ sent = [t \in Thread |-> FALSE]
        /\ got = [t \in Thread |-> FALSE]
        /\ told = [t \in Thread |-> <<FALSE, FALSE>>]

Call(t, k) == /\ call[t] = None
              /\ call' = [call EXCEPT ![t] = k]
              /\ sent' = [sent EXCEPT ![t] = FALSE]
              /\ got' = [got EXCEPT ![t] = FALSE]
              /\ UNCHANGED told

Sends(s, r) == call[s] # None /\ call[s].to = r /\ ~ sent[s]

Receives(r, s) == /\ call[r] # None /\ call[r].from \in {s, Anyone} /\ ~ got[r]
                  /\ call[r].to = None \/ sent[r]

Meet(s, r) == /\ Sends(s, r) /\ Receives(r, s)
              /\ sent' = [sent EXCEPT ![s] = TRUE]
              /\ got' = [got EXCEPT ![r] = TRUE]
              /\ UNCHANGED <<call, told>>

Return(t) == /\ call[t] # None
             /\ call' = [call EXCEPT ![t] = None]
             /\ told' = [told EXCEPT ![t] = <<sent[t], got[t]>>]
             /\ UNCHANGED <<sent, got>>

Next == \E t \in Thread :
          \/ \E k \in Phases : Call(t, k)
          \/ \E r \in Thread : Meet(t, r)
          \/ Return(t)

Spec == Init /\ [][Next]_vars
=============================================================================
