-------------------------- MODULE ReadyQueue_proofs --------------------------
(***************************************************************************)
(* Lemmas about the operators of SdList and ReadyQueue: what they return   *)
(* is well-typed whatever list an item is removed from, the new value of   *)
(* prio_highest exists, and on a list that is in order, a ring, each       *)
(* operation is one on the sequence, or the set, of its items.             *)
(***************************************************************************)
EXTENDS ReadyQueue, TLAPS, WellFoundedInduction, SequenceTheorems, FiniteSetTheorems,
        SequencesExt

(* A nonempty set of naturals that is bounded has a greatest element.      *)
LEMMA GreatestElement ==
    ASSUME NEW n \in Nat, NEW S, S \subseteq 0 .. n, S # {}
    PROVE  \E x \in S : \A y \in S : y <= x
<1> DEFINE T == {n - x : x \in S}
<1>1. T \subseteq Nat /\ T # {}
  <2>1. \A x \in S : n - x \in Nat
    OBVIOUS
  <2>2. T # {}
    OBVIOUS
  <2> QED
    BY <2>1, <2>2
<1>2. \E d \in T : \A e \in T : ~ (<<e, d>> \in OpToRel(<, Nat))
  BY <1>1, NatLessThanWellFounded, WFMin
<1>3. PICK d \in T : \A e \in T : ~ (<<e, d>> \in OpToRel(<, Nat))
  BY <1>2
<1>4. \A e \in T : ~ (e < d)
  BY <1>1, <1>3 DEF OpToRel
<1>5. PICK x \in S : d = n - x
  OBVIOUS
<1>6. \A y \in S : y <= x
  BY <1>4, <1>5
<1> QED
  BY <1>6

(* The loop that lowers prio_highest ends at a priority whose list is not  *)
(* empty, or at 0, and passes over no list that is not.                    *)
LEMMA LowerHighestStops ==
    ASSUME NEW top \in Prio, NEW queue
    PROVE  LET p == LowerHighest(queue, top)
           IN  /\ p \in 0 .. top
               /\ p = 0 \/ queue[p] # Nil
               /\ \A r \in p+1 .. top : queue[r] = Nil
<1> DEFINE Used == {p \in 0 .. top : queue[p] # Nil}
           Stops(p) == /\ p = 0 \/ queue[p] # Nil
                       /\ \A r \in p+1 .. top : queue[r] = Nil
<1>1. top \in Nat
  BY MaxPrioAssumption DEF Prio
<1>2. \E p \in 0 .. top : Stops(p)
  <2>1. CASE Used = {}
    <3>1. Stops(0)
      BY <1>1, <2>1
    <3> QED
      BY <1>1, <3>1
  <2>2. CASE Used # {}
    <3>1. PICK p \in Used : \A q \in Used : q <= p
      BY <1>1, <2>2, GreatestElement
    <3>2. Stops(p)
      BY <1>1, <3>1
    <3> QED
      BY <3>1, <3>2
  <2> QED
    BY <2>1, <2>2
<1> QED
  BY <1>2 DEF LowerHighest

-----------------------------------------------------------------------------
(* Types.  Hook(Item) and Rq(Item) are what the variables of the            *)
(* specifications range over; no lemma assumes that an item is in the list  *)
(* it is removed from, or that a ring is closed.                            *)

OrNull(Item) == Item \cup {Nil}
Hook(Item) == [next : [Item -> OrNull(Item)], prev : [Item -> OrNull(Item)]]
Rq(Item) == [queue : [Prio -> OrNull(Item)], highest : Prio]

(* Linking an item keeps hooks and head well-typed.                         *)
LEMMA PushType ==
    ASSUME NEW Item, NEW k \in Hook(Item), NEW h \in OrNull(Item),
           NEW e \in Item, NEW pos
    PROVE  /\ Push(k, h, e, pos).hook \in Hook(Item)
           /\ Push(k, h, e, pos).head \in Item
<1>1. CASE h = Nil
  BY <1>1 DEF Push, SelfInsert, Hook, OrNull
<1>2. CASE h # Nil
  <2>1. h \in Item /\ k.prev[h] \in OrNull(Item)
    BY <1>2 DEF OrNull, Hook
  <2>2. InsertBefore(k, e, h) \in Hook(Item)
    BY <2>1 DEF InsertBefore, Hook, OrNull
  <2> QED
    BY <1>2, <2>1, <2>2 DEF Push
<1> QED
  BY <1>1, <1>2

(* So does unlinking one, from whatever list.                               *)
LEMMA RemoveItemType ==
    ASSUME NEW Item, NEW k \in Hook(Item), NEW h \in OrNull(Item), NEW e \in Item
    PROVE  /\ RemoveItem(k, h, e).hook \in Hook(Item)
           /\ RemoveItem(k, h, e).head \in OrNull(Item)
<1>1. k.next[e] \in OrNull(Item) /\ k.prev[e] \in OrNull(Item)
  BY DEF Hook
<1>2. CASE k.next[e] = e
  BY <1>2 DEF RemoveItem, Hook, OrNull
<1>3. CASE k.next[e] # e
  <2>1. Unlink(k, e) \in Hook(Item)
    BY <1>1 DEF Unlink, Hook, OrNull
  <2> QED
    BY <1>1, <1>3, <2>1 DEF RemoveItem
<1> QED
  BY <1>2, <1>3

(* Nothing is removed from an empty list but its head, and an empty list    *)
(* stays empty unless the item is Nil itself.                               *)
LEMMA RemoveFromEmpty ==
    ASSUME NEW k, NEW e, e # Nil
    PROVE  RemoveItem(k, Nil, e).head = Nil
BY DEF RemoveItem

LEMMA EnqueueType ==
    ASSUME NEW Item, NEW k \in Hook(Item), NEW q \in Rq(Item), NEW e \in Item,
           NEW p \in Prio, NEW pos
    PROVE  /\ Enqueue(k, q, e, p, pos).hook \in Hook(Item)
           /\ Enqueue(k, q, e, p, pos).rq \in Rq(Item)
<1>1. CASE InList(k, e)
  BY <1>1 DEF Enqueue
<1>2. CASE ~ InList(k, e)
  <2> DEFINE r == Push(k, q.queue[p], e, pos)
  <2>1. q.queue[p] \in OrNull(Item) /\ q.highest \in Prio
    BY DEF Rq
  <2>2. r.hook \in Hook(Item) /\ r.head \in Item
    BY <2>1, PushType
  <2>3. [q.queue EXCEPT ![p] = r.head] \in [Prio -> OrNull(Item)]
    BY <2>2 DEF Rq, OrNull
  <2> QED
    BY <1>2, <2>1, <2>2, <2>3 DEF Enqueue, Rq
<1> QED
  BY <1>1, <1>2

LEMMA ReadyDequeueType ==
    ASSUME NEW Item, NEW k \in Hook(Item), NEW q \in Rq(Item), NEW e \in Item,
           NEW p \in Prio
    PROVE  /\ ReadyDequeue(k, q, e, p).hook \in Hook(Item)
           /\ ReadyDequeue(k, q, e, p).rq \in Rq(Item)
<1>1. CASE ~ InList(k, e)
  BY <1>1 DEF ReadyDequeue
<1>2. CASE InList(k, e)
  <2> DEFINE r     == RemoveItem(k, q.queue[p], e)
             queue == [q.queue EXCEPT ![p] = r.head]
  <2>1. q.queue[p] \in OrNull(Item) /\ q.highest \in Prio
    BY DEF Rq
  <2>2. r.hook \in Hook(Item) /\ r.head \in OrNull(Item)
    BY <2>1, RemoveItemType
  <2>3. queue \in [Prio -> OrNull(Item)]
    BY <2>2 DEF Rq
  <2>4. LowerHighest(queue, q.highest) \in Prio
    <3> HIDE DEF queue
    <3>1. LowerHighest(queue, q.highest) \in 0 .. q.highest
      BY <2>1, LowerHighestStops
    <3> QED
      BY <2>1, <3>1, MaxPrioAssumption DEF Prio
  <2> QED
    BY <1>2, <2>2, <2>3, <2>4 DEF ReadyDequeue, Rq
<1> QED
  BY <1>1, <1>2

LEMMA RequeueType ==
    ASSUME NEW Item, NEW k \in Hook(Item), NEW q \in Rq(Item), NEW e \in Item,
           NEW p \in Prio
    PROVE  /\ Requeue(k, q, e, p).hook \in Hook(Item)
           /\ Requeue(k, q, e, p).rq \in Rq(Item)
<1>1. CASE ~ InList(k, e)
  BY <1>1, EnqueueType DEF Requeue
<1>2. CASE InList(k, e)
  <2>1. k.next[e] \in OrNull(Item)
    BY DEF Hook
  <2> QED
    BY <1>2, <2>1 DEF Requeue, Rq
<1> QED
  BY <1>1, <1>2

-----------------------------------------------------------------------------
(* Rings.  A list that is in order is a cyclic ring, and read from its head *)
(* a sequence; each operation on the list is one on that sequence.           *)

\* The one behind position i of a ring of n.
Behind(n, i) == IF i = n THEN 1 ELSE i + 1

Once(s) == \A i, j \in DOMAIN s : s[i] = s[j] => i = j

Linked(k, s) ==
    \A i \in DOMAIN s : /\ k.next[s[i]] = s[Behind(Len(s), i)]
                        /\ k.prev[s[Behind(Len(s), i)]] = s[i]

HeadOf(s) == IF s = <<>> THEN Nil ELSE s[1]

\* The list whose head pointer is h holds the items of s, in that order.
IsRing(Item, k, h, s) == s \in Seq(Item) /\ Once(s) /\ h = HeadOf(s) /\ Linked(k, s)

LEMMA BehindIn ==
    ASSUME NEW n \in Nat, NEW i \in 1 .. n
    PROVE  Behind(n, i) \in 1 .. n /\ \E j \in 1 .. n : Behind(n, j) = i
<1>1. Behind(n, i) \in 1 .. n
  BY DEF Behind
<1>2. CASE i = 1
  BY <1>1, <1>2 DEF Behind
<1>3. CASE i # 1
  <2>1. i - 1 \in 1 .. n /\ Behind(n, i - 1) = i
    BY <1>3 DEF Behind
  <2> QED
    BY <1>1, <2>1
<1> QED
  BY <1>2, <1>3

\* Read from its head, a ring is the sequence it holds.
LEMMA RingSteps ==
    ASSUME NEW Item, Nil \notin Item, IsFiniteSet(Item),
           NEW k \in Hook(Item), NEW h, NEW s, IsRing(Item, k, h, s)
    PROVE  \A n \in Nat : Steps(k, h)[n] = IF n < Len(s) THEN s[n + 1] ELSE Nil
<1> DEFINE f == [n \in Nat |-> IF n < Len(s) THEN s[n + 1] ELSE Nil]
           Walk(g) == [n \in Nat |->
                         IF n = 0 THEN h
                         ELSE IF g[n-1] = Nil \/ k.next[g[n-1]] = h THEN Nil
                         ELSE k.next[g[n-1]]]
<1>0. /\ s \in Seq(Item) /\ Len(s) \in Nat /\ DOMAIN s = 1 .. Len(s)
      /\ \A i \in 1 .. Len(s) : s[i] \in Item /\ s[i] # Nil
  BY DEF IsRing
<1>1. f[0] = h
  BY <1>0 DEF IsRing, HeadOf
<1>2. ASSUME NEW n \in Nat, n # 0
      PROVE  f[n] = IF f[n-1] = Nil \/ k.next[f[n-1]] = h THEN Nil ELSE k.next[f[n-1]]
  <2>1. n - 1 \in Nat
    BY <1>2
  <2>2. CASE n < Len(s)
    <3>1. f[n] = s[n + 1] /\ f[n - 1] = s[n] /\ n \in 1 .. Len(s) /\ n + 1 \in 1 .. Len(s)
      BY <1>0, <1>2, <2>1, <2>2
    <3>2. k.next[s[n]] = s[n + 1] /\ h = s[1] /\ s[n + 1] # s[1]
      BY <1>0, <2>2, <3>1 DEF IsRing, Linked, Behind, Once, HeadOf
    <3> QED
      BY <1>0, <3>1, <3>2
  <2>3. CASE n = Len(s)
    <3>1. f[n] = Nil /\ f[n - 1] = s[n] /\ n \in 1 .. Len(s)
      BY <1>0, <1>2, <2>1, <2>3
    <3>2. k.next[s[n]] = s[1] /\ h = s[1]
      BY <1>0, <2>3, <3>1 DEF IsRing, Linked, Behind, HeadOf
    <3> QED
      BY <3>1, <3>2
  <2>4. CASE n > Len(s)
    BY <1>0, <1>2, <2>1, <2>4
  <2> HIDE DEF f, Walk
  <2>5. n \in Nat /\ Len(s) \in Nat
    BY <1>0
  <2>6. n < Len(s) \/ n = Len(s) \/ n > Len(s)
    BY <2>5
  <2> QED
    BY <2>2, <2>3, <2>4, <2>6
<1>3. f = Walk(f)
  BY <1>1, <1>2
<1>4. Steps(k, h) = Walk(Steps(k, h))
  BY <1>3 DEF Steps
<1> DEFINE g == Steps(k, h)
<1> HIDE DEF g, f
<1>5. g[0] = h /\ \A n \in Nat \ {0} :
        g[n] = IF g[n-1] = Nil \/ k.next[g[n-1]] = h THEN Nil ELSE k.next[g[n-1]]
  BY <1>4 DEF g
<1> DEFINE Wrong == {n \in Nat : g[n] # f[n]}
<1>6. Wrong = {}
  <2> SUFFICES ASSUME Wrong # {} PROVE FALSE
    OBVIOUS
  <2>1. PICK n \in Wrong : \A m \in Wrong : ~ (<<m, n>> \in OpToRel(<, Nat))
    BY NatLessThanWellFounded, WFMin
  <2>2. n # 0
    BY <1>1, <1>5
  <2>3. n - 1 \in Nat /\ n - 1 < n
    BY <2>2
  <2>4. g[n - 1] = f[n - 1]
    BY <2>1, <2>3 DEF OpToRel
  <2> QED
    BY <1>2, <1>5, <2>2, <2>4
<1> QED
  BY <1>6 DEF f, g

\* It has no more items than there are.
LEMMA OnceIsShort ==
    ASSUME NEW Item, Nil \notin Item, IsFiniteSet(Item),
           NEW s \in Seq(Item), Once(s)
    PROVE  Len(s) \in 0 .. Cardinality(Item) /\ Cardinality(Item) \in Nat
<1>1. s \in Injection(1 .. Len(s), Item)
  BY DEF Once, Injection, IsInjective
<1>2. IsFiniteSet(Item) /\ Cardinality(Item) \in Nat
  BY FS_CardinalityType
<1>3. Cardinality(1 .. Len(s)) <= Cardinality(Item)
  BY <1>1, <1>2, FS_Injection
<1>4. Len(s) \in Nat /\ Cardinality(1 .. Len(s)) = Len(s)
  <2>1. Len(s) \in Nat /\ 1 \in Int /\ Len(s) \in Int
    OBVIOUS
  <2>2. Cardinality(1 .. Len(s)) = IF 1 > Len(s) THEN 0 ELSE Len(s) - 1 + 1
    BY <2>1, FS_Interval
  <2> QED
    BY <2>1, <2>2
<1> QED
  BY <1>2, <1>3, <1>4

LEMMA RingAsSeq ==
    ASSUME NEW Item, Nil \notin Item, IsFiniteSet(Item),
           NEW k \in Hook(Item), NEW h, NEW s, IsRing(Item, k, h, s)
    PROVE  AsSeq(k, h) = s
<1> DEFINE at == Steps(k, h)
           N  == Cardinality(Item)
           Ends(n) == /\ \A m \in 0 .. n - 1 : at[m] # Nil
                      /\ n < N => at[n] = Nil
<1>0. /\ s \in Seq(Item) /\ Len(s) \in Nat
      /\ \A i \in 1 .. Len(s) : s[i] \in Item /\ s[i] # Nil
  BY DEF IsRing
<1>1. \A n \in Nat : at[n] = IF n < Len(s) THEN s[n + 1] ELSE Nil
  BY RingSteps
<1>2. Len(s) \in 0 .. N /\ N \in Nat
  BY OnceIsShort DEF IsRing
<1>3. DOMAIN k.next = Item
  BY DEF Hook
<1> HIDE DEF at, N
<1>4. Ends(Len(s))
  BY <1>0, <1>1, <1>2
<1>5. ASSUME NEW n \in 0 .. N, Ends(n) PROVE n = Len(s)
  <2>1. CASE n < Len(s)
    BY <1>0, <1>1, <1>2, <1>5, <2>1
  <2>2. CASE n > Len(s)
    BY <1>0, <1>1, <1>2, <1>5, <2>2
  <2> QED
    BY <1>2, <2>1, <2>2
<1>6. (CHOOSE n \in 0 .. N : Ends(n)) = Len(s)
  BY <1>2, <1>4, <1>5
<1>7. AsSeq(k, h) = [n \in 1 .. Len(s) |-> at[n - 1]]
  BY <1>3, <1>6 DEF AsSeq, at, N
<1>8. [n \in 1 .. Len(s) |-> at[n - 1]] = [n \in 1 .. Len(s) |-> s[n]]
  BY <1>0, <1>1
<1> QED
  BY <1>0, <1>7, <1>8

-----------------------------------------------------------------------------
\* Hooks that agree on the items of a ring hold the ring.
LEMMA RingKept ==
    ASSUME NEW Item, Nil \notin Item, IsFiniteSet(Item),
           NEW k, NEW l, NEW h, NEW s, IsRing(Item, k, h, s),
           \A i \in DOMAIN s : l.next[s[i]] = k.next[s[i]] /\ l.prev[s[i]] = k.prev[s[i]]
    PROVE  IsRing(Item, l, h, s)
<1>1. Len(s) \in Nat /\ DOMAIN s = 1 .. Len(s)
  BY DEF IsRing
<1>2. \A i \in DOMAIN s : Behind(Len(s), i) \in DOMAIN s
  BY <1>1, BehindIn
<1> QED
  BY <1>2 DEF IsRing, Linked

\* Where the ring goes on when the item at i is taken out.
Skip(i, j) == IF j < i THEN j ELSE j + 1

LEMMA SkipBehind ==
    ASSUME NEW n \in Nat, n > 1, NEW i \in 1 .. n, NEW j \in 1 .. n - 1
    PROVE  /\ Skip(i, j) \in 1 .. n /\ Skip(i, j) # i
           /\ Behind(n, i) # i
           /\ Skip(i, Behind(n - 1, j)) = IF Behind(n, Skip(i, j)) = i THEN Behind(n, i)
                                         ELSE Behind(n, Skip(i, j))
           /\ Behind(n, Skip(i, j)) # Behind(n, i)
BY DEF Skip, Behind

LEMMA RemoveAtSkips ==
    ASSUME NEW S, NEW s \in Seq(S), NEW i \in 1 .. Len(s)
    PROVE  /\ RemoveAt(s, i) \in Seq(S)
           /\ Len(RemoveAt(s, i)) = Len(s) - 1
           /\ \A j \in 1 .. Len(s) - 1 : RemoveAt(s, i)[j] = s[Skip(i, j)]
<1> DEFINE f == SubSeq(s, 1, i - 1)
           g == SubSeq(s, i + 1, Len(s))
<1>1. /\ f \in Seq(S) /\ Len(f) = i - 1
      /\ \A j \in 1 .. i - 1 : f[j] = s[j]
  BY SubSeqProperties
<1>2. /\ g \in Seq(S) /\ Len(g) = Len(s) - i
      /\ \A j \in 1 .. Len(s) - i : g[j] = s[i + j]
  BY SubSeqProperties
<1>3. /\ f \o g \in Seq(S) /\ Len(f \o g) = Len(f) + Len(g)
      /\ \A j \in 1 .. Len(f) + Len(g) :
            (f \o g)[j] = IF j <= Len(f) THEN f[j] ELSE g[j - Len(f)]
  BY <1>1, <1>2, ConcatProperties
<1>4. RemoveAt(s, i) = f \o g
  BY DEF RemoveAt
<1> HIDE DEF f, g
<1>5. Len(s) \in Nat /\ Len(f) + Len(g) = Len(s) - 1
  BY <1>1, <1>2
<1>6. ASSUME NEW j \in 1 .. Len(s) - 1 PROVE (f \o g)[j] = s[Skip(i, j)]
  <2>1. CASE j < i
    BY <1>1, <1>3, <1>5, <2>1 DEF Skip
  <2>2. CASE ~ (j < i)
    <3>1. (f \o g)[j] = g[j - Len(f)] /\ j - Len(f) \in 1 .. Len(s) - i
      BY <1>1, <1>3, <1>5, <2>2
    <3>2. i + (j - Len(f)) = j + 1
      BY <1>1, <1>5
    <3> QED
      BY <1>2, <2>2, <3>1, <3>2 DEF Skip
  <2> QED
    BY <2>1, <2>2
<1> QED
  BY <1>3, <1>4, <1>5, <1>6

\* Sd_list::remove() takes one item out of the ring and leaves the order of the others.
LEMMA RemoveRing ==
    ASSUME NEW Item, Nil \notin Item, IsFiniteSet(Item),
           NEW k \in Hook(Item), NEW h, NEW s, IsRing(Item, k, h, s), NEW i \in DOMAIN s
    PROVE  LET r == RemoveItem(k, h, s[i])
           IN  IsRing(Item, r.hook, r.head, RemoveAt(s, i))
<1> DEFINE n == Len(s)
           e == s[i]
           u == RemoveAt(s, i)
           a == k.prev[e]
           b == k.next[e]
           r == RemoveItem(k, h, e)
<1>1. /\ s \in Seq(Item) /\ n \in Nat /\ DOMAIN s = 1 .. n /\ i \in 1 .. n
      /\ \A j \in 1 .. n : s[j] \in Item /\ s[j] # Nil
      /\ \A j, m \in 1 .. n : s[j] = s[m] => j = m
      /\ h = s[1]
  BY DEF IsRing, Once, HeadOf
<1>2. \A j \in 1 .. n : /\ Behind(n, j) \in 1 .. n
                        /\ k.next[s[j]] = s[Behind(n, j)] /\ k.prev[s[Behind(n, j)]] = s[j]
  BY <1>1, BehindIn DEF IsRing, Linked
<1>3. u \in Seq(Item) /\ Len(u) = n - 1 /\ \A j \in 1 .. n - 1 : u[j] = s[Skip(i, j)]
  <2> HIDE DEF e, u, a, b, r
  <2>1. s \in Seq(Item) /\ i \in 1 .. Len(s)
    BY <1>1
  <2>2. /\ RemoveAt(s, i) \in Seq(Item) /\ Len(RemoveAt(s, i)) = Len(s) - 1
        /\ \A j \in 1 .. Len(s) - 1 : RemoveAt(s, i)[j] = s[Skip(i, j)]
    BY ONLY <2>1, RemoveAtSkips
  <2> QED
    BY ONLY <2>2 DEF u
<1>4. DOMAIN k.next = Item /\ DOMAIN k.prev = Item
  BY DEF Hook
<1>5. CASE n = 1
  <2>1. i = 1 /\ b = e
    BY <1>1, <1>2, <1>5 DEF Behind
  <2>2. u = <<>>
    BY <1>3, <1>5
  <2>3. r.head = Nil
    BY <2>1 DEF RemoveItem
  <2> QED
    BY <2>2, <2>3 DEF IsRing, Once, Linked, HeadOf
<1>6. CASE n # 1
  <2>0. n > 1
    BY <1>1, <1>6
  <2> HIDE DEF n, u
  <2>1. PICK m \in 1 .. n : Behind(n, m) = i
    BY <1>1, BehindIn
  <2>2. a = s[m] /\ b = s[Behind(n, i)] /\ b # e /\ Behind(n, i) # i /\ Behind(n, i) \in 1 .. n
    <3>1. Behind(n, i) # i /\ Behind(n, i) \in 1 .. n
      BY <1>1, <2>0 DEF Behind
    <3> QED
      BY <1>1, <1>2, <2>1, <3>1
  <2>3. /\ r.hook.next = [k.next EXCEPT ![a] = b, ![e] = Nil]
        /\ r.hook.prev = [k.prev EXCEPT ![b] = a]
        /\ r.head = IF h = e THEN b ELSE h
    BY <2>2 DEF RemoveItem, Unlink
  <2> HIDE DEF r, a, b
  <2>4. \A j, l \in 1 .. n - 1 : u[j] = u[l] => j = l
    BY <1>1, <1>3, <2>0 DEF Skip
  <2>5. u # <<>> /\ r.head = u[1]
    <3>1. u # <<>> /\ u[1] = s[Skip(i, 1)]
      BY <1>1, <1>3, <2>0
    <3>2. CASE i = 1
      BY <1>1, <2>0, <2>2, <2>3, <3>1, <3>2 DEF Skip, Behind
    <3>3. CASE i # 1
      BY <1>1, <2>3, <3>1, <3>3 DEF Skip
    <3> QED
      BY <3>1, <3>2, <3>3
  <2>6. ASSUME NEW j \in 1 .. n - 1
        PROVE  /\ r.hook.next[u[j]] = u[Behind(n - 1, j)]
               /\ r.hook.prev[u[Behind(n - 1, j)]] = u[j]
    <3> DEFINE x == Skip(i, j)
               y == Behind(n, x)
    <3>1. /\ x \in 1 .. n /\ x # i /\ y # Behind(n, i)
          /\ Skip(i, Behind(n - 1, j)) = IF y = i THEN Behind(n, i) ELSE y
      BY <1>1, <2>0, SkipBehind
    <3>2. Behind(n - 1, j) \in 1 .. n - 1 /\ y \in 1 .. n
      BY <1>1, <2>0, <3>1, BehindIn
    <3>3. u[j] = s[x] /\ u[Behind(n - 1, j)] = s[IF y = i THEN Behind(n, i) ELSE y]
      BY <1>3, <3>1, <3>2
    <3>4. k.next[s[x]] = s[y] /\ k.prev[s[y]] = s[x] /\ s[x] # e
      BY <1>1, <1>2, <3>1
    <3>5. a \in Item /\ b \in Item /\ e \in Item /\ s[x] \in Item /\ s[y] \in Item
      BY <1>1, <2>2, <3>1, <3>2
    <3> HIDE DEF x, y
    <3>6. CASE y = i
      <4>1. a = s[x]
        BY <3>4, <3>6 DEF a
      <4> QED
        BY <1>4, <2>2, <2>3, <3>3, <3>4, <3>5, <3>6, <4>1
    <3>7. CASE y # i
      <4>1. s[y] # e /\ s[y] # b
        BY <1>1, <2>2, <3>1, <3>2, <3>7
      <4>2. s[x] # a
        BY <1>2, <2>1, <2>2, <3>4, <4>1
      <4> QED
        BY <1>4, <2>3, <3>3, <3>4, <3>5, <3>7, <4>1, <4>2
    <3> QED
      BY <3>6, <3>7
  <2>7. DOMAIN u = 1 .. n - 1
    BY <1>3
  <2> QED
    BY <1>3, <2>4, <2>5, <2>6, <2>7 DEF IsRing, Once, Linked, HeadOf, u, r
<1> QED
  BY <1>5, <1>6

\* What else it changes: nothing but that the item is linked no more.
LEMMA RemoveFrame ==
    ASSUME NEW Item, Nil \notin Item, IsFiniteSet(Item),
           NEW k \in Hook(Item), NEW h, NEW s, IsRing(Item, k, h, s), NEW i \in DOMAIN s,
           NEW e, e = s[i], NEW x \in Item
    PROVE  LET l == RemoveItem(k, h, e).hook
           IN  /\ (\A j \in DOMAIN s : s[j] # x) => l.next[x] = k.next[x] /\ l.prev[x] = k.prev[x]
               /\ l.next[x] # Nil => k.next[x] # Nil /\ x # e
<1> DEFINE n == Len(s)
           l == RemoveItem(k, h, e).hook
<1>1. /\ n \in Nat /\ DOMAIN s = 1 .. n /\ i \in 1 .. n
      /\ \A j \in 1 .. n : s[j] \in Item /\ s[j] # Nil
      /\ \A j, m \in 1 .. n : s[j] = s[m] => j = m
      /\ e = s[i]
  BY DEF IsRing, Once
<1>2. \A j \in 1 .. n : /\ Behind(n, j) \in 1 .. n
                        /\ k.next[s[j]] = s[Behind(n, j)] /\ k.prev[s[Behind(n, j)]] = s[j]
  BY <1>1, BehindIn DEF IsRing, Linked
<1>4. DOMAIN k.next = Item /\ DOMAIN k.prev = Item
  BY DEF Hook
<1>5. PICK m \in 1 .. n : Behind(n, m) = i
  BY <1>1, BehindIn
<1>6. k.prev[e] = s[m] /\ k.next[e] = s[Behind(n, i)] /\ k.next[s[m]] = e /\ e \in Item /\ e # Nil
  BY <1>1, <1>2, <1>5
<1>7. \/ l.next = [k.next EXCEPT ![e] = Nil] /\ l.prev = k.prev
      \/ /\ l.next = [k.next EXCEPT ![s[m]] = k.next[e], ![e] = Nil]
         /\ l.prev = [k.prev EXCEPT ![k.next[e]] = s[m]]
  BY <1>6 DEF RemoveItem, Unlink
<1> HIDE DEF l
<1>8. (\A j \in DOMAIN s : s[j] # x) => x # e /\ x # s[m] /\ x # k.next[e]
  BY <1>1, <1>2, <1>5, <1>6
<1>9. (\A j \in DOMAIN s : s[j] # x) => l.next[x] = k.next[x] /\ l.prev[x] = k.prev[x]
  BY <1>4, <1>7, <1>8
<1>10. l.next[x] # Nil => k.next[x] # Nil /\ x # e
  BY <1>4, <1>6, <1>7
<1> QED
  BY <1>9, <1>10 DEF l

-----------------------------------------------------------------------------
\* What is added stands in front of the others, or behind them.
Put(s, e, pos) == IF pos = "Front" THEN <<e>> \o s ELSE Append(s, e)

LEMMA PutIndex ==
    ASSUME NEW Item, Nil \notin Item, IsFiniteSet(Item),
           NEW s \in Seq(Item), NEW e \in Item, NEW pos
    PROVE  /\ Put(s, e, pos) \in Seq(Item)
           /\ Len(Put(s, e, pos)) = Len(s) + 1
           /\ \A j \in 1 .. Len(s) + 1 :
                 Put(s, e, pos)[j] = IF pos = "Front"
                                     THEN IF j = 1 THEN e ELSE s[j - 1]
                                     ELSE IF j = Len(s) + 1 THEN e ELSE s[j]
<1>1. CASE pos = "Front"
  <2>1. <<e>> \in Seq(Item) /\ Len(<<e>>) = 1 /\ <<e>>[1] = e
    OBVIOUS
  <2>2. /\ <<e>> \o s \in Seq(Item) /\ Len(<<e>> \o s) = 1 + Len(s)
        /\ \A j \in 1 .. 1 + Len(s) :
              (<<e>> \o s)[j] = IF j <= 1 THEN <<e>>[j] ELSE s[j - 1]
    BY <2>1, ConcatProperties
  <2> QED
    BY <1>1, <2>1, <2>2 DEF Put
<1>2. CASE pos # "Front"
  BY <1>2 DEF Put
<1> QED
  BY <1>1, <1>2

\* Sd_list::push() adds an item to the ring, next to its head.
LEMMA PushRing ==
    ASSUME NEW Item, Nil \notin Item, IsFiniteSet(Item),
           NEW k \in Hook(Item), NEW h, NEW s, IsRing(Item, k, h, s), NEW e \in Item, NEW pos,
           \A i \in DOMAIN s : s[i] # e
    PROVE  LET r == Push(k, h, e, pos)
           IN  IsRing(Item, r.hook, r.head, Put(s, e, pos))
<1> DEFINE n == Len(s)
           u == Put(s, e, pos)
           r == Push(k, h, e, pos)
<1>1. /\ s \in Seq(Item) /\ n \in Nat /\ DOMAIN s = 1 .. n
      /\ \A j \in 1 .. n : s[j] \in Item /\ s[j] # Nil /\ s[j] # e
      /\ \A j, m \in 1 .. n : s[j] = s[m] => j = m
      /\ h = HeadOf(s) /\ e # Nil
  BY DEF IsRing, Once
<1>2. \A j \in 1 .. n : /\ Behind(n, j) \in 1 .. n
                        /\ k.next[s[j]] = s[Behind(n, j)] /\ k.prev[s[Behind(n, j)]] = s[j]
  BY <1>1, BehindIn DEF IsRing, Linked
<1>3. DOMAIN k.next = Item /\ DOMAIN k.prev = Item
  BY DEF Hook
<1>4. /\ u \in Seq(Item) /\ Len(u) = n + 1 /\ DOMAIN u = 1 .. n + 1
      /\ \A j \in 1 .. n + 1 : u[j] = IF pos = "Front"
                                      THEN IF j = 1 THEN e ELSE s[j - 1]
                                      ELSE IF j = n + 1 THEN e ELSE s[j]
  BY <1>1, PutIndex
<1>5. Once(u)
  BY <1>1, <1>4 DEF Once
<1>6. CASE s = <<>>
  <2>1. n = 0 /\ h = Nil
    BY <1>1, <1>6 DEF HeadOf
  <2>2. r = [hook |-> SelfInsert(k, e), head |-> e]
    BY <2>1 DEF Push
  <2>3. u[1] = e /\ Len(u) = 1 /\ DOMAIN u = 1 .. 1
    BY <1>4, <2>1
  <2>4. r.head = e /\ r.hook.next[e] = e /\ r.hook.prev[e] = e
    BY <1>3, <2>2 DEF SelfInsert
  <2> QED
    BY <1>4, <1>5, <2>3, <2>4 DEF IsRing, Linked, HeadOf, Behind
<1>7. CASE s # <<>>
  <2>1. n > 0 /\ h = s[1] /\ h # Nil /\ h \in Item
    BY <1>1, <1>7 DEF HeadOf
  <2>2. k.prev[h] = s[n] /\ s[n] \in Item
    <3>1. n \in 1 .. n /\ Behind(n, n) = 1
      BY <1>1, <2>1 DEF Behind
    <3> HIDE DEF n
    <3> QED
      BY <1>1, <1>2, <2>1, <3>1
  <2>3. /\ r.hook.next = [k.next EXCEPT ![e] = s[1], ![s[n]] = e]
        /\ r.hook.prev = [k.prev EXCEPT ![e] = s[n], ![s[1]] = e]
        /\ r.head = IF pos = "Front" THEN e ELSE s[1]
    BY <2>1, <2>2 DEF Push, InsertBefore
  <2> HIDE DEF r, n, u
  <2>4. /\ r.hook.next[e] = s[1] /\ r.hook.prev[e] = s[n]
        /\ r.hook.next[s[n]] = e /\ r.hook.prev[s[1]] = e
    BY <1>1, <1>3, <2>1, <2>2, <2>3
  <2>5. \A j \in 1 .. n : /\ j # n => r.hook.next[s[j]] = s[j + 1]
                          /\ j # 1 => r.hook.prev[s[j]] = s[j - 1]
    <3> SUFFICES ASSUME NEW j \in 1 .. n
                 PROVE  /\ j # n => r.hook.next[s[j]] = s[j + 1]
                        /\ j # 1 => r.hook.prev[s[j]] = s[j - 1]
      OBVIOUS
    <3>1. j # n => r.hook.next[s[j]] = s[j + 1]
      BY <1>1, <1>2, <1>3, <2>1, <2>3 DEF Behind
    <3>2. CASE j # 1
      <4>1. j - 1 \in 1 .. n /\ Behind(n, j - 1) = j
        BY <1>1, <3>2 DEF Behind
      <4>2. k.prev[s[j]] = s[j - 1] /\ s[j] # s[1] /\ s[j] # e
        BY <1>1, <1>2, <2>1, <3>2, <4>1
      <4> QED
        BY <1>1, <1>3, <2>3, <3>1, <4>2
    <3> QED
      BY <3>1, <3>2
  <2>6. ASSUME NEW j \in 1 .. n + 1
        PROVE  /\ r.hook.next[u[j]] = u[Behind(n + 1, j)]
               /\ r.hook.prev[u[Behind(n + 1, j)]] = u[j]
    <3>1. Behind(n + 1, j) \in 1 .. n + 1
      BY <1>1 DEF Behind
    <3>2. CASE pos = "Front"
      <4>1. u[j] = (IF j = 1 THEN e ELSE s[j - 1])
            /\ u[Behind(n + 1, j)] = (IF j = n + 1 THEN e ELSE s[j])
        BY <1>1, <1>4, <2>1, <3>1, <3>2 DEF Behind
      <4>2. CASE j = 1
        BY <1>1, <2>1, <2>4, <4>1, <4>2
      <4>3. CASE j = n + 1
        BY <1>1, <2>1, <2>4, <4>1, <4>3
      <4>4. CASE j # 1 /\ j # n + 1
        <5>1. j \in 1 .. n /\ j - 1 \in 1 .. n /\ j - 1 # n /\ (j - 1) + 1 = j
          BY <1>1, <4>4
        <5> QED
          BY <2>5, <4>1, <4>4, <5>1
      <4> QED
        BY <4>2, <4>3, <4>4
    <3>3. CASE pos # "Front"
      <4>1. u[j] = (IF j = n + 1 THEN e ELSE s[j])
            /\ u[Behind(n + 1, j)] = (IF j = n + 1 THEN s[1] ELSE IF j = n THEN e ELSE s[j + 1])
        BY <1>1, <1>4, <2>1, <3>1, <3>3 DEF Behind
      <4>2. CASE j = n + 1
        BY <1>1, <2>1, <2>4, <4>1, <4>2
      <4>3. CASE j = n
        BY <1>1, <2>1, <2>4, <4>1, <4>3
      <4>4. CASE j # n /\ j # n + 1
        <5>1. j \in 1 .. n /\ j + 1 \in 1 .. n /\ j + 1 # 1 /\ (j + 1) - 1 = j
          BY <1>1, <4>4
        <5> QED
          BY <2>5, <4>1, <4>4, <5>1
      <4> QED
        BY <4>2, <4>3, <4>4
    <3> QED
      BY <3>2, <3>3
  <2>7. u # <<>> /\ r.head = u[1]
    BY <1>1, <1>4, <2>1, <2>3
  <2> QED
    BY <1>4, <1>5, <2>6, <2>7 DEF IsRing, Linked, HeadOf, r, u
<1> QED
  BY <1>6, <1>7

\* The items of other rings are left alone, and what was linked stays so.
LEMMA PushFrame ==
    ASSUME NEW Item, Nil \notin Item, IsFiniteSet(Item),
           NEW k \in Hook(Item), NEW h, NEW s, IsRing(Item, k, h, s), NEW e \in Item, NEW pos,
           NEW x \in Item, x # e
    PROVE  LET l == Push(k, h, e, pos).hook
           IN  /\ (\A j \in DOMAIN s : s[j] # x) => l.next[x] = k.next[x] /\ l.prev[x] = k.prev[x]
               /\ l.next[x] # Nil => k.next[x] # Nil
<1> DEFINE n == Len(s)
           l == Push(k, h, e, pos).hook
<1>1. /\ s \in Seq(Item) /\ n \in Nat /\ DOMAIN s = 1 .. n
      /\ \A j \in 1 .. n : s[j] \in Item /\ s[j] # Nil
      /\ h = HeadOf(s) /\ e # Nil
  BY DEF IsRing
<1>2. \A j \in 1 .. n : /\ Behind(n, j) \in 1 .. n
                        /\ k.next[s[j]] = s[Behind(n, j)] /\ k.prev[s[Behind(n, j)]] = s[j]
  BY <1>1, BehindIn DEF IsRing, Linked
<1>3. DOMAIN k.next = Item /\ DOMAIN k.prev = Item
  BY DEF Hook
<1>4. CASE s = <<>>
  <2>1. h = Nil
    BY <1>1, <1>4 DEF HeadOf
  <2> QED
    BY <1>3, <2>1 DEF Push, SelfInsert
<1>5. CASE s # <<>>
  <2>1. n > 0 /\ h = s[1] /\ h # Nil /\ h \in Item
    BY <1>1, <1>5 DEF HeadOf
  <2>2. k.prev[h] = s[n] /\ s[n] \in Item /\ k.next[s[n]] = s[1] /\ 1 \in 1 .. n /\ n \in 1 .. n
    <3>1. 1 \in 1 .. n /\ n \in 1 .. n /\ Behind(n, n) = 1
      BY <1>1, <2>1 DEF Behind
    <3> HIDE DEF n
    <3> QED
      BY <1>1, <1>2, <2>1, <3>1
  <2>3. /\ l.next = [k.next EXCEPT ![e] = s[1], ![s[n]] = e]
        /\ l.prev = [k.prev EXCEPT ![e] = s[n], ![s[1]] = e]
    BY <2>1, <2>2 DEF Push, InsertBefore
  <2> HIDE DEF l, n
  <2>4. (\A j \in DOMAIN s : s[j] # x) => l.next[x] = k.next[x] /\ l.prev[x] = k.prev[x]
    BY <1>1, <1>3, <2>2, <2>3
  <2>5. l.next[x] # Nil => k.next[x] # Nil
    BY <1>1, <1>3, <2>2, <2>3
  <2> QED
    BY <2>4, <2>5 DEF l
<1> QED
  BY <1>4, <1>5

\* The order when the turn goes to the one behind position i.
TurnTo(s, i) == SubSeq(s, i + 1, Len(s)) \o SubSeq(s, 1, i)

\* Rotating the list keeps the ring and moves its head.
LEMMA TurnRing ==
    ASSUME NEW Item, Nil \notin Item, IsFiniteSet(Item),
           NEW k \in Hook(Item), NEW h, NEW s, IsRing(Item, k, h, s), NEW i \in DOMAIN s
    PROVE  /\ IsRing(Item, k, k.next[s[i]], TurnTo(s, i))
           /\ \A x : (\E j \in DOMAIN TurnTo(s, i) : TurnTo(s, i)[j] = x)
                        <=> \E j \in DOMAIN s : s[j] = x
<1> DEFINE n == Len(s)
           u == TurnTo(s, i)
           f == SubSeq(s, i + 1, n)
           g == SubSeq(s, 1, i)
           At(j) == IF j <= n - i THEN i + j ELSE j - (n - i)
<1>1. /\ s \in Seq(Item) /\ n \in Nat /\ DOMAIN s = 1 .. n /\ i \in 1 .. n
      /\ \A j \in 1 .. n : s[j] \in Item
      /\ \A j, m \in 1 .. n : s[j] = s[m] => j = m
  BY DEF IsRing, Once
<1>2. \A j \in 1 .. n : /\ Behind(n, j) \in 1 .. n
                        /\ k.next[s[j]] = s[Behind(n, j)] /\ k.prev[s[Behind(n, j)]] = s[j]
  BY <1>1, BehindIn DEF IsRing, Linked
<1>3. /\ f \in Seq(Item) /\ Len(f) = n - i
      /\ \A j \in 1 .. n - i : f[j] = s[i + j]
  <2>1. \A j \in i + 1 .. n : s[j] \in Item
    BY <1>1
  <2>2. i + 1 \in Int /\ n \in Int
    BY <1>1
  <2>3. /\ f \in Seq(Item) /\ Len(f) = (IF i + 1 <= n THEN n - (i + 1) + 1 ELSE 0)
        /\ \A j \in 1 .. n - (i + 1) + 1 : f[j] = s[i + 1 + j - 1]
    BY <2>1, <2>2, SubSeqProperties
  <2> HIDE DEF f, n, u
  <2>4. Len(f) = n - i /\ n - (i + 1) + 1 = n - i
    BY <1>1, <2>3
  <2>5. \A j \in 1 .. n - i : i + 1 + j - 1 = i + j
    BY <1>1
  <2> QED
    BY <2>3, <2>4, <2>5
<1>4. /\ g \in Seq(Item) /\ Len(g) = i
      /\ \A j \in 1 .. i : g[j] = s[j]
  <2>1. \A j \in 1 .. i : s[j] \in Item
    BY <1>1
  <2>2. 1 \in Int /\ i \in Int
    BY <1>1
  <2>3. /\ g \in Seq(Item) /\ Len(g) = (IF 1 <= i THEN i - 1 + 1 ELSE 0)
        /\ \A j \in 1 .. i - 1 + 1 : g[j] = s[1 + j - 1]
    BY <2>1, <2>2, SubSeqProperties
  <2> HIDE DEF g
  <2> QED
    BY <1>1, <2>3
<1>5. u = f \o g
  BY DEF TurnTo
<1> HIDE DEF f, g, u, n
<1>6. /\ f \o g \in Seq(Item) /\ Len(f \o g) = Len(f) + Len(g)
      /\ \A j \in 1 .. Len(f) + Len(g) :
            (f \o g)[j] = IF j <= Len(f) THEN f[j] ELSE g[j - Len(f)]
  BY <1>3, <1>4, ConcatProperties
<1>7. u \in Seq(Item) /\ Len(u) = n /\ DOMAIN u = 1 .. n
  BY <1>1, <1>3, <1>4, <1>5, <1>6
<1>8. \A j \in 1 .. n : At(j) \in 1 .. n /\ u[j] = s[At(j)]
  <2> SUFFICES ASSUME NEW j \in 1 .. n PROVE At(j) \in 1 .. n /\ u[j] = s[At(j)]
    OBVIOUS
  <2>1. u[j] = IF j <= n - i THEN f[j] ELSE g[j - (n - i)]
    BY <1>1, <1>3, <1>4, <1>5, <1>6
  <2>2. CASE j <= n - i
    <3>1. j \in 1 .. n - i
      BY <1>1, <2>2
    <3> QED
      BY <1>1, <1>3, <2>1, <2>2, <3>1
  <2>3. CASE ~ (j <= n - i)
    <3>1. j - (n - i) \in 1 .. i
      BY <1>1, <2>3
    <3> QED
      BY <1>1, <1>4, <2>1, <2>3, <3>1
  <2> QED
    BY <2>2, <2>3
<1>9. \A j \in 1 .. n : Behind(n, j) \in 1 .. n /\ At(Behind(n, j)) = Behind(n, At(j))
  BY <1>1 DEF Behind
<1>10. \A j, m \in 1 .. n : At(j) = At(m) => j = m
  BY <1>1
<1>11. \A m \in 1 .. n : \E j \in 1 .. n : At(j) = m
  <2> SUFFICES ASSUME NEW m \in 1 .. n PROVE \E j \in 1 .. n : At(j) = m
    OBVIOUS
  <2>1. CASE m > i
    <3>1. m - i \in 1 .. n /\ At(m - i) = m
      BY <1>1, <2>1
    <3> QED
      BY <3>1
  <2>2. CASE ~ (m > i)
    <3>1. m + (n - i) \in 1 .. n /\ At(m + (n - i)) = m
      BY <1>1, <2>2
    <3> QED
      BY <3>1
  <2> QED
    BY <2>1, <2>2
<1>12. At(1) = Behind(n, i) /\ 1 \in 1 .. n
  BY <1>1 DEF Behind
<1> HIDE DEF At
<1>13. u # <<>> /\ k.next[s[i]] = u[1]
  <2>1. u # <<>>
    BY <1>1, <1>7
  <2>2. k.next[s[i]] = s[At(1)]
    BY <1>1, <1>2, <1>12
  <2> QED
    BY <1>8, <1>12, <2>1, <2>2
<1>14. Once(u)
  BY <1>1, <1>7, <1>8, <1>10 DEF Once
<1>15. ASSUME NEW j \in 1 .. n PROVE k.next[u[j]] = u[Behind(n, j)] /\ k.prev[u[Behind(n, j)]] = u[j]
  BY <1>2, <1>8, <1>9
<1>16. IsRing(Item, k, k.next[s[i]], u)
  BY <1>7, <1>13, <1>14, <1>15 DEF IsRing, Linked, HeadOf
<1>17. \A x : (\E j \in DOMAIN u : u[j] = x) <=> \E j \in DOMAIN s : s[j] = x
  <2> SUFFICES ASSUME NEW x
               PROVE  (\E j \in 1 .. n : u[j] = x) <=> \E j \in 1 .. n : s[j] = x
    BY <1>1, <1>7
  <2>1. ASSUME NEW j \in 1 .. n, u[j] = x PROVE \E m \in 1 .. n : s[m] = x
    BY <1>8, <2>1
  <2>2. ASSUME NEW m \in 1 .. n, s[m] = x PROVE \E j \in 1 .. n : u[j] = x
    BY <1>8, <1>11, <2>2
  <2> QED
    BY <2>1, <2>2
<1> QED
  BY <1>16, <1>17 DEF u

-----------------------------------------------------------------------------
\* The list whose head pointer is h is in order and holds the items of M.
RingOf(Item, k, h, M) ==
    \E s : IsRing(Item, k, h, s) /\ M = {s[i] : i \in DOMAIN s}

\* What is in a list is linked, to others of the list; only the empty one has no head.
LEMMA RingFacts ==
    ASSUME NEW Item, Nil \notin Item, IsFiniteSet(Item),
           NEW k \in Hook(Item), NEW h, NEW M, RingOf(Item, k, h, M)
    PROVE  /\ M \subseteq Item
           /\ IF M = {} THEN h = Nil ELSE h \in M /\ h # Nil
           /\ \A x \in M : /\ InList(k, x) /\ k.next[x] \in M /\ k.prev[x] \in M
                           /\ k.prev[k.next[x]] = x /\ k.next[k.prev[x]] = x
           /\ Members(k, h) = M
<1>1. PICK s : IsRing(Item, k, h, s) /\ M = {s[i] : i \in DOMAIN s}
  BY DEF RingOf
<1>2. /\ s \in Seq(Item) /\ Len(s) \in Nat /\ DOMAIN s = 1 .. Len(s)
      /\ \A i \in 1 .. Len(s) : s[i] \in Item /\ s[i] # Nil
      /\ h = HeadOf(s)
  BY <1>1 DEF IsRing
<1>3. \A i \in 1 .. Len(s) :
         /\ Behind(Len(s), i) \in 1 .. Len(s)
         /\ k.next[s[i]] = s[Behind(Len(s), i)] /\ k.prev[s[Behind(Len(s), i)]] = s[i]
  BY <1>1, <1>2, BehindIn DEF IsRing, Linked
<1>4. M \subseteq Item
  BY <1>1, <1>2
<1>5. IF M = {} THEN h = Nil ELSE h \in M /\ h # Nil
  <2>1. CASE s = <<>>
    <3>1. DOMAIN s = {} /\ h = Nil
      BY <1>2, <2>1 DEF HeadOf
    <3> QED
      BY <1>1, <3>1
  <2>2. CASE s # <<>>
    <3>1. h = s[1] /\ 1 \in DOMAIN s /\ s[1] # Nil
      BY <1>2, <2>2 DEF HeadOf
    <3> QED
      BY <1>1, <3>1
  <2> QED
    BY <2>1, <2>2
<1>6. ASSUME NEW x \in M
      PROVE  /\ InList(k, x) /\ k.next[x] \in M /\ k.prev[x] \in M
             /\ k.prev[k.next[x]] = x /\ k.next[k.prev[x]] = x
  <2>1. PICK i \in 1 .. Len(s) : x = s[i]
    BY <1>1, <1>2
  <2>2. PICK j \in 1 .. Len(s) : Behind(Len(s), j) = i
    BY <1>2, BehindIn
  <2>3. k.next[x] = s[Behind(Len(s), i)] /\ k.prev[k.next[x]] = x /\ InList(k, x)
    BY <1>2, <1>3, <2>1 DEF InList
  <2>4. k.prev[x] = s[j] /\ k.next[s[j]] = x
    BY <1>3, <2>1, <2>2
  <2> QED
    BY <1>1, <1>2, <1>3, <2>3, <2>4
<1>7. Members(k, h) = M
  <2>1. AsSeq(k, h) = s
    BY <1>1, RingAsSeq
  <2> QED
    BY <1>1, <2>1 DEF Members
<1> QED
  BY <1>4, <1>5, <1>6, <1>7

\* Hooks that agree on the items of a list hold the list.
LEMMA RingStays ==
    ASSUME NEW Item, Nil \notin Item, IsFiniteSet(Item),
           NEW k, NEW l, NEW h, NEW M, RingOf(Item, k, h, M),
           \A x \in M : l.next[x] = k.next[x] /\ l.prev[x] = k.prev[x]
    PROVE  RingOf(Item, l, h, M)
<1>1. PICK s : IsRing(Item, k, h, s) /\ M = {s[i] : i \in DOMAIN s}
  BY DEF RingOf
<1>2. IsRing(Item, l, h, s)
  BY <1>1, RingKept
<1> QED
  BY <1>1, <1>2 DEF RingOf

\* Sd_list::push() of an item that is not linked, as the lists see it.
LEMMA RingPush ==
    ASSUME NEW Item, Nil \notin Item, IsFiniteSet(Item),
           NEW k \in Hook(Item), NEW h, NEW M, RingOf(Item, k, h, M),
           NEW e \in Item, ~ InList(k, e), NEW pos
    PROVE  LET r == Push(k, h, e, pos)
           IN  /\ RingOf(Item, r.hook, r.head, M \cup {e})
               /\ \A x \in Item : InList(r.hook, x) <=> InList(k, x) \/ x = e
               /\ \A g, N : RingOf(Item, k, g, N) /\ N \cap M = {} => RingOf(Item, r.hook, g, N)
<1> DEFINE r == Push(k, h, e, pos)
<1>1. PICK s : IsRing(Item, k, h, s) /\ M = {s[i] : i \in DOMAIN s}
  BY DEF RingOf
<1>2. e \notin M /\ M \subseteq Item /\ s \in Seq(Item)
  BY <1>1, RingFacts DEF IsRing
<1>3. RingOf(Item, r.hook, r.head, M \cup {e})
  <2>1. IsRing(Item, r.hook, r.head, Put(s, e, pos))
    BY <1>1, <1>2, PushRing
  <2>2. M \cup {e} = {Put(s, e, pos)[i] : i \in DOMAIN Put(s, e, pos)}
    <3>1. /\ Len(s) \in Nat /\ DOMAIN s = 1 .. Len(s)
          /\ Put(s, e, pos) \in Seq(Item) /\ Len(Put(s, e, pos)) = Len(s) + 1
          /\ \A j \in 1 .. Len(s) + 1 :
                 Put(s, e, pos)[j] = IF pos = "Front"
                                     THEN IF j = 1 THEN e ELSE s[j - 1]
                                     ELSE IF j = Len(s) + 1 THEN e ELSE s[j]
      BY <1>2, PutIndex
    <3> DEFINE u == Put(s, e, pos)
               n == Len(s)
    <3>2. DOMAIN u = 1 .. n + 1
      BY <3>1
    <3> HIDE DEF u, n
    <3>3. ASSUME NEW j \in 1 .. n + 1 PROVE u[j] \in M \cup {e}
      <4>1. n \in Nat /\ (u[j] = e \/ (j - 1 \in 1 .. n /\ u[j] = s[j - 1]) \/ (j \in 1 .. n /\ u[j] = s[j]))
        BY <3>1 DEF u, n
      <4> QED
        BY <1>1, <3>1, <4>1 DEF n
    <3>4. ASSUME NEW x \in M \cup {e} PROVE \E j \in 1 .. n + 1 : u[j] = x
      <4>1. CASE x = e
        <5>1. 1 \in 1 .. n + 1 /\ n + 1 \in 1 .. n + 1 /\ (u[1] = e \/ u[n + 1] = e)
          BY <3>1 DEF u, n
        <5> QED
          BY <4>1, <5>1
      <4>2. CASE x # e
        <5>1. PICK i \in 1 .. n : s[i] = x
          BY <1>1, <3>1, <4>2 DEF n
        <5>2. n \in Nat /\ i \in 1 .. n + 1 /\ i + 1 \in 1 .. n + 1 /\ i + 1 # 1 /\ i # n + 1
              /\ (i + 1) - 1 = i
          BY <3>1 DEF n
        <5>3. u[i] = s[i] \/ u[i + 1] = s[i]
          BY <3>1, <5>2 DEF u, n
        <5> QED
          BY <5>1, <5>2, <5>3
      <4> QED
        BY <4>1, <4>2
    <3> QED
      BY <3>2, <3>3, <3>4 DEF u
  <2> QED
    BY <2>1, <2>2 DEF RingOf
<1>4. r.hook \in Hook(Item)
  <2>1. h \in OrNull(Item)
    BY <1>2, RingFacts DEF OrNull
  <2> QED
    BY <2>1, PushType
<1>5. ASSUME NEW x \in Item, x # e
      PROVE  /\ x \notin M => r.hook.next[x] = k.next[x] /\ r.hook.prev[x] = k.prev[x]
             /\ r.hook.next[x] # Nil => k.next[x] # Nil
  BY <1>1, <1>5, PushFrame
<1>6. ASSUME NEW x \in Item PROVE InList(r.hook, x) <=> InList(k, x) \/ x = e
  <2>1. CASE x \in M \cup {e}
    BY <1>3, <1>4, <2>1, RingFacts
  <2>2. CASE x \notin M \cup {e}
    BY <1>5, <2>2 DEF InList
  <2> QED
    BY <2>1, <2>2, <1>3, <1>4, RingFacts
<1>7. ASSUME NEW g, NEW N, RingOf(Item, k, g, N), N \cap M = {}
      PROVE  RingOf(Item, r.hook, g, N)
  <2>1. N \subseteq Item /\ e \notin N
    BY <1>7, RingFacts
  <2>2. \A x \in N : r.hook.next[x] = k.next[x] /\ r.hook.prev[x] = k.prev[x]
    BY <1>5, <1>7, <2>1
  <2> HIDE DEF r
  <2> QED
    BY <1>7, <2>2, RingStays
<1> QED
  BY <1>3, <1>6, <1>7

\* Sd_list::remove() of an item that is in the list.
LEMMA RingRemove ==
    ASSUME NEW Item, Nil \notin Item, IsFiniteSet(Item),
           NEW k \in Hook(Item), NEW h, NEW M, RingOf(Item, k, h, M), NEW e \in M
    PROVE  LET r == RemoveItem(k, h, e)
           IN  /\ RingOf(Item, r.hook, r.head, M \ {e})
               /\ \A x \in Item : InList(r.hook, x) <=> InList(k, x) /\ x # e
               /\ \A g, N : RingOf(Item, k, g, N) /\ N \cap M = {} => RingOf(Item, r.hook, g, N)
<1> DEFINE r == RemoveItem(k, h, e)
<1>1. PICK s : IsRing(Item, k, h, s) /\ M = {s[i] : i \in DOMAIN s}
  BY DEF RingOf
<1>2. /\ s \in Seq(Item) /\ Len(s) \in Nat /\ DOMAIN s = 1 .. Len(s)
      /\ M \subseteq Item /\ e \in Item
      /\ \A i, j \in 1 .. Len(s) : s[i] = s[j] => i = j
  BY <1>1, RingFacts DEF IsRing, Once
<1>3. PICK i \in 1 .. Len(s) : e = s[i]
  BY <1>1, <1>2
<1>4. RingOf(Item, r.hook, r.head, M \ {e})
  <2> DEFINE u == RemoveAt(s, i)
             n == Len(s)
  <2>1. IsRing(Item, r.hook, r.head, u)
    BY <1>1, <1>2, <1>3, RemoveRing
  <2>2. /\ u \in Seq(Item) /\ Len(u) = n - 1
        /\ \A j \in 1 .. n - 1 : u[j] = s[Skip(i, j)]
    <3> HIDE DEF u, n
    <3>1. s \in Seq(Item) /\ i \in 1 .. Len(s)
      BY <1>2
    <3>2. /\ RemoveAt(s, i) \in Seq(Item) /\ Len(RemoveAt(s, i)) = Len(s) - 1
          /\ \A j \in 1 .. Len(s) - 1 : RemoveAt(s, i)[j] = s[Skip(i, j)]
      BY ONLY <3>1, RemoveAtSkips
    <3> QED
      BY <3>2 DEF u, n
  <2>3. DOMAIN u = 1 .. n - 1 /\ n \in Nat /\ i \in 1 .. n
    BY <1>2, <2>2
  <2>4. \A x : x \in M <=> \E j \in 1 .. n : s[j] = x
    BY <1>1, <1>2
  <2> HIDE DEF u, n
  <2>5. ASSUME NEW j \in 1 .. n - 1 PROVE u[j] \in M \ {e}
    <3>1. Skip(i, j) \in 1 .. n /\ Skip(i, j) # i
      BY <2>3 DEF Skip
    <3> QED
      BY <1>2, <1>3, <2>2, <2>4, <3>1 DEF n
  <2>6. ASSUME NEW x \in M \ {e} PROVE \E j \in 1 .. n - 1 : u[j] = x
    <3>1. PICK j \in 1 .. n : s[j] = x /\ j # i
      BY <1>3, <2>4
    <3>2. CASE j < i
      <4>1. j \in 1 .. n - 1 /\ Skip(i, j) = j
        BY <2>3, <3>2 DEF Skip
      <4> QED
        BY <2>2, <3>1, <4>1
    <3>3. CASE ~ (j < i)
      <4>1. j - 1 \in 1 .. n - 1 /\ Skip(i, j - 1) = j
        BY <2>3, <3>1, <3>3 DEF Skip
      <4> QED
        BY <2>2, <3>1, <4>1
    <3> QED
      BY <3>2, <3>3
  <2>7. M \ {e} = {u[j] : j \in DOMAIN u}
    BY <2>3, <2>5, <2>6
  <2> QED
    BY <2>1, <2>7 DEF RingOf
<1>5. r.hook \in Hook(Item)
  <2>1. h \in OrNull(Item)
    BY <1>2, RingFacts DEF OrNull
  <2> QED
    BY <1>2, <2>1, RemoveItemType
<1>6. ASSUME NEW x \in Item
      PROVE  /\ x \notin M => r.hook.next[x] = k.next[x] /\ r.hook.prev[x] = k.prev[x]
             /\ r.hook.next[x] # Nil => k.next[x] # Nil /\ x # e
  <2>1. (\A j \in DOMAIN s : s[j] # x) <=> x \notin M
    BY <1>1
  <2>2. i \in DOMAIN s
    BY <1>2
  <2> HIDE DEF r
  <2>3. /\ (\A j \in DOMAIN s : s[j] # x) => r.hook.next[x] = k.next[x] /\ r.hook.prev[x] = k.prev[x]
        /\ r.hook.next[x] # Nil => k.next[x] # Nil /\ x # e
    BY <1>1, <1>3, <2>2, RemoveFrame DEF r
  <2> QED
    BY <2>1, <2>3
<1>7. ASSUME NEW x \in Item PROVE InList(r.hook, x) <=> InList(k, x) /\ x # e
  <2>1. CASE x \in M \ {e}
    <3>1. InList(r.hook, x)
      BY <1>4, <1>5, <2>1, RingFacts
    <3>2. InList(k, x)
      BY <2>1, RingFacts
    <3> QED
      BY <2>1, <3>1, <3>2
  <2>2. CASE x \notin M
    <3>1. x # e
      BY <2>2
    <3> QED
      BY <1>6, <2>2, <3>1 DEF InList
  <2>3. CASE x = e
    BY <1>6, <2>3 DEF InList
  <2> QED
    BY <2>1, <2>2, <2>3
<1>8. ASSUME NEW g, NEW N, RingOf(Item, k, g, N), N \cap M = {}
      PROVE  RingOf(Item, r.hook, g, N)
  <2>1. N \subseteq Item
    BY <1>8, RingFacts
  <2>2. \A x \in N : r.hook.next[x] = k.next[x] /\ r.hook.prev[x] = k.prev[x]
    BY <1>6, <1>8, <2>1
  <2> HIDE DEF r
  <2> QED
    BY <1>8, <2>2, RingStays
<1> QED
  BY <1>4, <1>7, <1>8

\* Moving the head to the one behind an item of the list.
LEMMA RingTurn ==
    ASSUME NEW Item, Nil \notin Item, IsFiniteSet(Item),
           NEW k \in Hook(Item), NEW h, NEW M, RingOf(Item, k, h, M), NEW e \in M
    PROVE  RingOf(Item, k, k.next[e], M)
<1>1. PICK s : IsRing(Item, k, h, s) /\ M = {s[i] : i \in DOMAIN s}
  BY DEF RingOf
<1>2. PICK i \in DOMAIN s : e = s[i]
  BY <1>1
<1>3. /\ IsRing(Item, k, k.next[s[i]], TurnTo(s, i))
      /\ \A x : (\E j \in DOMAIN TurnTo(s, i) : TurnTo(s, i)[j] = x)
                   <=> \E j \in DOMAIN s : s[j] = x
  BY <1>1, TurnRing
<1>4. M = {TurnTo(s, i)[j] : j \in DOMAIN TurnTo(s, i)}
  BY <1>1, <1>3
<1> QED
  BY <1>2, <1>3, <1>4 DEF RingOf

\* The empty list.
LEMMA RingEmpty ==
    ASSUME NEW Item, NEW k
    PROVE  RingOf(Item, k, Nil, {})
<1>1. IsRing(Item, k, Nil, <<>>)
  BY DEF IsRing, Once, HeadOf, Linked
<1>2. {} = {(<<>>)[i] : i \in DOMAIN <<>>}
  OBVIOUS
<1> QED
  BY <1>1, <1>2 DEF RingOf

=============================================================================
