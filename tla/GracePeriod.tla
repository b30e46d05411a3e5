----------------------------- MODULE GracePeriod -----------------------------
(***************************************************************************)
(* What RCU promises its users: an object that was unlinked is reclaimed   *)
(* only when no CPU uses it any more, and is not used again unless linked. *)
(***************************************************************************)
EXTENDS Naturals

CONSTANTS Cpu, Item

VARIABLES status,     \* [Item -> "linked", "called" or "reclaimed"]
          holding     \* [Cpu -> the objects its kernel code uses]

vars == <<status, holding>>

Init == /\ status = [i \in Item |-> "linked"]
        /\ holding = [p \in Cpu |-> {}]

Link(i) == /\ status[i] = "reclaimed"
           /\ status' = [status EXCEPT ![i] = "linked"]
           /\ UNCHANGED holding

Use(p, i) == /\ status[i] = "linked"
             /\ holding' = [holding EXCEPT ![p] = @ \cup {i}]
             /\ UNCHANGED status

Release(p) == /\ holding' = [holding EXCEPT ![p] = {}]
              /\ UNCHANGED status

Unlink(i) == /\ status[i] = "linked"
             /\ status' = [status EXCEPT ![i] = "called"]
             /\ UNCHANGED holding

Reclaim(S) == /\ \A i \in S : /\ status[i] = "called"
                              /\ \A p \in Cpu : i \notin holding[p]
              /\ status' = [i \in Item |-> IF i \in S THEN "reclaimed" ELSE status[i]]
              /\ UNCHANGED holding

Next == \/ \E i \in Item : Link(i) \/ Unlink(i) \/ \E p \in Cpu : Use(p, i)
        \/ \E p \in Cpu : Release(p)
        \/ \E S \in SUBSET Item : Reclaim(S)

Spec == Init /\ [][Next]_vars
=============================================================================
