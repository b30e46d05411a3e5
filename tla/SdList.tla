------------------------------- MODULE SdList -------------------------------
(***************************************************************************)
(* cxx::Sd_list and cxx::D_list_cyclic (fiasco/src/lib/libk/cxx/dlist):    *)
(* an intrusive cyclic list.  The links live in the items, the list object *)
(* is nothing but a head pointer.  A hook record k == [next, prev] holds   *)
(* the links of ALL items, and every list is one head pointer h; an        *)
(* operation on a list returns the new hooks and the new head.             *)
(*                                                                         *)
(* Nothing ties an item to a list: an item can be removed "from" a list it *)
(* is not in.  The operators say what the code then does, because the      *)
(* scheduler shares the one hook of a Sched_context between a ready queue  *)
(* and the blocked list of a Sched_constraint.                             *)
(***************************************************************************)
EXTENDS Naturals, FiniteSets

CONSTANT Nil          \* the null pointer

Pos == {"Back", "Front"}

\* The constructor of an item clears _dli_next; _dli_prev stays undefined and
\* is never read before a link is made.  It is modelled as the null pointer.
NoHooks(Item) == [next |-> [e \in Item |-> Nil], prev |-> [e \in Item |-> Nil]]

InList(k, e) == k.next[e] # Nil

SelfInsert(k, e) ==
    [next |-> [k.next EXCEPT ![e] = e], prev |-> [k.prev EXCEPT ![e] = e]]

InsertBefore(k, e, s) ==
    [next |-> [k.next EXCEPT ![e] = s, ![k.prev[s]] = e],
     prev |-> [k.prev EXCEPT ![e] = k.prev[s], ![s] = e]]

Push(k, h, e, pos) ==
    IF h = Nil
    THEN [hook |-> SelfInsert(k, e), head |-> e]
    ELSE [hook |-> InsertBefore(k, e, h),
          head |-> IF pos = "Front" THEN e ELSE h]

\* D_list_cyclic::remove
Unlink(k, e) ==
    [next |-> [k.next EXCEPT ![k.prev[e]] = k.next[e], ![e] = Nil],
     prev |-> [k.prev EXCEPT ![k.next[e]] = k.prev[e]]]

\* The last item of a ring empties whatever list it is removed from.
RemoveItem(k, h, e) ==
    IF k.next[e] = e
    THEN [hook |-> [k EXCEPT !.next[e] = Nil], head |-> Nil]
    ELSE [hook |-> Unlink(k, e), head |-> IF h = e THEN k.next[e] ELSE h]

-----------------------------------------------------------------------------
(* Walking a list, as its Iterator does: from the head until the walk is   *)
(* back at the head.  A broken ring ends the walk at Nil; a ring that does *)
(* not return to the head is cut after as many steps as there are items.   *)

Steps(k, h) ==
    LET at[n \in Nat] ==
          IF n = 0 THEN h
          ELSE IF at[n-1] = Nil \/ k.next[at[n-1]] = h THEN Nil
          ELSE k.next[at[n-1]]
    IN  at

AsSeq(k, h) ==
    LET at  == Steps(k, h)
        len == CHOOSE n \in 0 .. Cardinality(DOMAIN k.next) :
                  /\ \A m \in 0 .. n-1 : at[m] # Nil
                  /\ n < Cardinality(DOMAIN k.next) => at[n] = Nil
    IN  [n \in 1 .. len |-> at[n-1]]

Members(k, h) ==
    LET s == AsSeq(k, h) IN {s[n] : n \in DOMAIN s}

\* Every linked item has a linked successor and predecessor that point back.
RingsClosed(k) ==
    \A e \in DOMAIN k.next :
        k.next[e] # Nil =>
            /\ k.next[e] \in DOMAIN k.next
            /\ k.prev[e] \in DOMAIN k.next
            /\ k.prev[k.next[e]] = e
            /\ k.next[k.prev[e]] = e
=============================================================================
