--------------------------- MODULE TimeoutQ_proofs ---------------------------
(***************************************************************************)
(* For a wheel of any size and any number of timeouts: the scan forgets no *)
(* timeout, the one-shot timer sleeps through none, and the wheel          *)
(* implements timers that expire once and not early.                       *)
(***************************************************************************)
EXTENDS TimeoutQ, TLAPS, SequenceTheorems, WellFoundedInduction

-----------------------------------------------------------------------------
(* Sequences                                                                *)

LEMMA InsertElements ==
    ASSUME NEW s \in Seq(Timeout), NEW i \in 1 .. Len(s) + 1, NEW e \in Timeout
    PROVE  /\ InsertAt(s, i, e) \in Seq(Timeout)
           /\ Len(InsertAt(s, i, e)) = Len(s) + 1
           /\ InsertAt(s, i, e)[i] = e
           /\ \A j \in 1 .. i - 1 : InsertAt(s, i, e)[j] = s[j]
           /\ \A j \in i + 1 .. Len(s) + 1 : InsertAt(s, i, e)[j] = s[j - 1]
<1> DEFINE a == SubSeq(s, 1, i - 1)
           m == <<e>>
           z == SubSeq(s, i, Len(s))
<1>1. /\ a \in Seq(Timeout) /\ Len(a) = i - 1
      /\ \A j \in 1 .. i - 1 : a[j] = s[j]
  BY SubSeqProperties
<1>2. /\ z \in Seq(Timeout) /\ Len(z) = Len(s) - i + 1
      /\ \A j \in 1 .. Len(s) - i + 1 : z[j] = s[i + j - 1]
  BY SubSeqProperties
<1>3. m \in Seq(Timeout) /\ Len(m) = 1 /\ m[1] = e
  OBVIOUS
<1> HIDE DEF a, m, z
<1>4. /\ a \o m \in Seq(Timeout) /\ Len(a \o m) = i
      /\ \A j \in 1 .. i : (a \o m)[j] = IF j < i THEN s[j] ELSE e
  <2>1. /\ a \o m \in Seq(Timeout) /\ Len(a \o m) = Len(a) + Len(m)
        /\ \A j \in 1 .. Len(a) + Len(m) :
              (a \o m)[j] = IF j <= Len(a) THEN a[j] ELSE m[j - Len(a)]
    BY <1>1, <1>3, ConcatProperties
  <2> QED BY <1>1, <1>3, <2>1
<1> DEFINE c == a \o m
<1>5. c \in Seq(Timeout) /\ Len(c) = i /\ \A j \in 1 .. i : c[j] = IF j < i THEN s[j] ELSE e
  BY <1>4
<1>6. InsertAt(s, i, e) = c \o z
  BY DEF InsertAt, a, m, z
<1> HIDE DEF c
<1>7. /\ c \o z \in Seq(Timeout) /\ Len(c \o z) = Len(c) + Len(z)
      /\ \A j \in 1 .. Len(c) + Len(z) :
            (c \o z)[j] = IF j <= Len(c) THEN c[j] ELSE z[j - Len(c)]
  BY <1>2, <1>5, ConcatProperties
<1>8. ASSUME NEW j \in 1 .. Len(s) + 1
      PROVE  (c \o z)[j] = IF j < i THEN s[j] ELSE IF j = i THEN e ELSE s[j - 1]
  <2>1. CASE j <= i
    BY <1>2, <1>5, <1>7, <2>1
  <2>2. CASE ~ (j <= i)
    <3>1. j - i \in 1 .. Len(s) - i + 1 /\ (c \o z)[j] = z[j - i]
      BY <1>2, <1>5, <1>7, <2>2
    <3>2. z[j - i] = s[i + (j - i) - 1] /\ i + (j - i) - 1 = j - 1
      BY <1>2, <3>1
    <3>3. (c \o z)[j] = s[j - 1]
      BY <3>1, <3>2
    <3> QED BY <2>2, <3>3
  <2> QED BY <2>1, <2>2
<1>9. Len(c \o z) = Len(s) + 1
  BY <1>2, <1>5, <1>7
<1> DEFINE n == c \o z
<1> HIDE DEF n
<1>10. /\ n[i] = e
       /\ \A j \in 1 .. i - 1 : n[j] = s[j]
       /\ \A j \in i + 1 .. Len(s) + 1 : n[j] = s[j - 1]
  <2>1. \A j \in 1 .. Len(s) + 1 :
           n[j] = IF j < i THEN s[j] ELSE IF j = i THEN e ELSE s[j - 1]
    BY <1>8 DEF n
  <2>2. n[i] = e
    BY <2>1
  <2>3. ASSUME NEW j \in 1 .. i - 1 PROVE n[j] = s[j]
    BY <2>1
  <2>4. ASSUME NEW j \in i + 1 .. Len(s) + 1 PROVE n[j] = s[j - 1]
    BY <2>1
  <2> QED BY <2>2, <2>3, <2>4
<1> QED BY <1>6, <1>7, <1>9, <1>10, Zenon DEF n

LEMMA RemoveElements ==
    ASSUME NEW T, NEW s \in Seq(T), NEW i \in 1 .. Len(s)
    PROVE  /\ RemoveAt(s, i) \in Seq(T)
           /\ Len(RemoveAt(s, i)) = Len(s) - 1
           /\ \A j \in 1 .. Len(s) - 1 :
                 RemoveAt(s, i)[j] = IF j < i THEN s[j] ELSE s[j + 1]
<1> DEFINE a == SubSeq(s, 1, i - 1)
           z == SubSeq(s, i + 1, Len(s))
<1>1. /\ a \in Seq(T) /\ Len(a) = i - 1
      /\ \A j \in 1 .. i - 1 : a[j] = s[j]
  BY SubSeqProperties
<1>2. /\ z \in Seq(T) /\ Len(z) = Len(s) - i
      /\ \A j \in 1 .. Len(s) - i : z[j] = s[i + j]
  BY SubSeqProperties
<1> HIDE DEF a, z
<1>3. /\ a \o z \in Seq(T) /\ Len(a \o z) = Len(a) + Len(z)
      /\ \A j \in 1 .. Len(a) + Len(z) :
            (a \o z)[j] = IF j <= Len(a) THEN a[j] ELSE z[j - Len(a)]
  BY <1>1, <1>2, ConcatProperties
<1>4. RemoveAt(s, i) = a \o z
  BY DEF RemoveAt, a, z
<1>5. ASSUME NEW j \in 1 .. Len(s) - 1
      PROVE  (a \o z)[j] = IF j < i THEN s[j] ELSE s[j + 1]
  <2>1. CASE j < i
    BY <1>1, <1>2, <1>3, <2>1
  <2>2. CASE ~ (j < i)
    <3>1. j - (i - 1) \in 1 .. Len(s) - i /\ (a \o z)[j] = z[j - (i - 1)]
      BY <1>1, <1>2, <1>3, <2>2
    <3>2. z[j - (i - 1)] = s[i + (j - (i - 1))] /\ i + (j - (i - 1)) = j + 1
      BY <1>2, <3>1
    <3>3. (a \o z)[j] = s[j + 1]
      BY <3>1, <3>2
    <3> QED BY <2>2, <3>3
  <2> QED BY <2>1, <2>2
<1>6. Len(a \o z) = Len(s) - 1
  BY <1>1, <1>2, <1>3
<1> QED BY <1>3, <1>4, <1>5, <1>6

LEMMA TailElements ==
    ASSUME NEW T, NEW s \in Seq(T), s # <<>>
    PROVE  /\ Tail(s) = RemoveAt(s, 1)
           /\ 1 \in 1 .. Len(s) /\ Head(s) = s[1] /\ Head(s) \in T
<1>1. SubSeq(s, 1, 0) = <<>> /\ Tail(s) = SubSeq(s, 2, Len(s)) /\ Tail(s) \in Seq(T)
  BY SubSeqEmpty, TailIsSubSeq, HeadTailProperties
<1>2. <<>> \o Tail(s) = Tail(s)
  BY <1>1, ConcatEmptySeq
<1>3. 1 \in 1 .. Len(s) /\ Head(s) = s[1] /\ Head(s) \in T
  BY EmptySeq, HeadTailProperties
<1> QED BY <1>1, <1>2, <1>3 DEF RemoveAt

LEMMA LeastElement ==
    ASSUME NEW S, S \subseteq Nat, S # {}
    PROVE  \E x \in S : \A y \in S : x <= y
<1>1. \E x \in S : \A y \in S : ~ (<<y, x>> \in OpToRel(<, Nat))
  BY NatLessThanWellFounded, WFMin
<1>2. PICK x \in S : \A y \in S : ~ (<<y, x>> \in OpToRel(<, Nat))
  BY <1>1
<1>3. \A y \in S : ~ (y < x)
  BY <1>2 DEF OpToRel
<1> QED BY <1>3

LEMMA PlaceInList ==
    ASSUME NEW s \in Seq(Timeout), wakeup \in [Timeout -> Nat], NEW w \in Nat
    PROVE  /\ PlaceIn(s, w) \in 1 .. Len(s) + 1
           /\ \A j \in 1 .. PlaceIn(s, w) - 1 : wakeup[s[j]] < w
           /\ PlaceIn(s, w) = Len(s) + 1 \/ wakeup[s[PlaceIn(s, w)]] >= w
<1> DEFINE Fits(i) == /\ \A j \in 1 .. i - 1 : wakeup[s[j]] < w
                      /\ i = Len(s) + 1 \/ wakeup[s[i]] >= w
           S == {i \in 1 .. Len(s) + 1 : i = Len(s) + 1 \/ wakeup[s[i]] >= w}
<1>1. S \subseteq Nat /\ S # {}
  <2>1. Len(s) + 1 \in S
    OBVIOUS
  <2> QED BY <2>1
<1>2. PICK i \in S : \A j \in S : i <= j
  BY <1>1, LeastElement
<1>3. Fits(i)
  <2>1. ASSUME NEW j \in 1 .. i - 1 PROVE wakeup[s[j]] < w
    <3>1. j \notin S /\ j \in 1 .. Len(s)
      BY <1>2
    <3>2. wakeup[s[j]] \in Nat
      BY <3>1
    <3> QED BY <3>1, <3>2
  <2> QED BY <1>2, <2>1
<1>4. \E n \in 1 .. Len(s) + 1 : Fits(n)
  BY <1>2, <1>3
<1> QED BY <1>4 DEF PlaceIn

-----------------------------------------------------------------------------
(* The wheel                                                                *)

LEMMA Remainder ==
    ASSUME NEW p \in Nat \ {0}, NEW m \in Nat, NEW r \in 0 .. p - 1
    PROVE  (p * m + r) % p = r
  OBVIOUS

LEMMA Division ==
    ASSUME NEW d \in Nat, NEW p \in Nat \ {0}
    PROVE  d \div p \in Nat /\ d % p \in 0 .. p - 1 /\ d = p * (d \div p) + (d % p)
<1> DEFINE m == d \div p
           r == d - p * m
<1>1. m \in Nat /\ r \in 0 .. p - 1
  OBVIOUS
<1>2. d = p * m + r
  OBVIOUS
<1> HIDE DEF m, r
<1>3. (p * m + r) % p = r
  BY <1>1, Remainder
<1>4. d % p = r
  BY <1>2, <1>3, Zenon
<1>5. d % p \in 0 .. p - 1
  BY <1>1, <1>4, Zenon
<1>6. \A x : x = r => d = p * m + x
  BY <1>2
<1>7. d = p * m + (d % p)
  BY <1>4, <1>6, Zenon
<1> QED BY <1>1, <1>5, <1>7 DEF m

LEMMA DivisionGrows ==
    ASSUME NEW d \in Nat, NEW e \in Nat, d <= e, NEW p \in Nat \ {0}
    PROVE  d \div p <= e \div p
  OBVIOUS

\* the list k places after the one of n
LEMMA PlacesAfter ==
    ASSUME NEW n \in Nat, NEW p \in Nat \ {0}, NEW k \in 0 .. p
    PROVE  (n + k) % p = IF (n % p) + k < p THEN (n % p) + k ELSE (n % p) + k - p
<1> DEFINE m == n \div p
           r == n % p
<1>1. m \in Nat /\ r \in 0 .. p - 1 /\ n = p * m + r
  BY Division
<1> HIDE DEF m, r
<1>2. ASSUME r + k < p PROVE (n + k) % p = r + k
  <2>1. n + k = p * m + (r + k) /\ r + k \in 0 .. p - 1
    BY <1>1, <1>2
  <2> QED BY <1>1, <2>1, Remainder, Zenon
<1>3. ASSUME ~ (r + k < p) PROVE (n + k) % p = r + k - p
  <2>1. n + k = p * (m + 1) + (r + k - p) /\ m + 1 \in Nat /\ r + k - p \in 0 .. p - 1
    BY <1>1, <1>3
  <2> QED BY <2>1, Remainder, Zenon
<1> QED BY <1>2, <1>3, Zenon DEF r

LEMMA ListOfIsList ==
    ASSUME NEW w \in Nat
    PROVE  ListOf(w) \in List
<1>1. w \div Distance \in Nat
  BY WheelAssumption, Division
<1> QED BY <1>1, WheelAssumption, Division DEF ListOf, List

-----------------------------------------------------------------------------
(* The lists                                                                *)

Typed == q \in [List -> Seq(Timeout)] /\ wakeup \in [Timeout -> Nat]

LEMMA IsSetInList ==
    ASSUME Typed, NEW u
    PROVE  IsSet(u) <=> \E b \in List : \E i \in 1 .. Len(q[b]) : q[b][i] = u
BY DEF Typed, IsSet, Contains

\* The time of a filed timeout gives the list it is in.
LEMMA SetInItsList ==
    ASSUME Typed, Filed, NEW u \in Timeout, IsSet(u)
    PROVE  /\ ListOf(wakeup[u]) \in List
           /\ \E i \in 1 .. Len(q[ListOf(wakeup[u])]) : q[ListOf(wakeup[u])][i] = u
BY IsSetInList DEF Typed, Filed

\* The first of a list is due first.
LEMMA FrontFirst ==
    ASSUME Typed, Filed, NEW u \in Timeout, IsSet(u)
    PROVE  /\ q[ListOf(wakeup[u])] # <<>>
           /\ wakeup[Head(q[ListOf(wakeup[u])])] \in Nat
           /\ wakeup[Head(q[ListOf(wakeup[u])])] <= wakeup[u]
<1> DEFINE b == ListOf(wakeup[u])
           s == q[b]
<1>1. PICK i \in 1 .. Len(s) : b \in List /\ s[i] = u
  BY SetInItsList
<1>2. s \in Seq(Timeout) /\ s # <<>>
  BY <1>1, EmptySeq DEF Typed
<1>3. 1 \in 1 .. Len(s) /\ Head(s) = s[1] /\ Head(s) \in Timeout
  BY <1>2, TailElements
<1>4. CASE i = 1
  BY <1>1, <1>2, <1>3, <1>4 DEF Typed
<1>5. CASE i # 1
  <2>1. 1 < i /\ 1 \in DOMAIN s /\ i \in DOMAIN s
    BY <1>1, <1>2, <1>3, <1>5
  <2>2. wakeup[s[1]] <= wakeup[s[i]]
    BY <1>1, <2>1 DEF Filed
  <2> QED BY <1>1, <1>2, <1>3, <2>2 DEF Typed
<1> QED BY <1>4, <1>5

\* A timeout taken out of a list leaves the others filed.
LEMMA RemoveFiles ==
    ASSUME Typed, Filed, NEW b \in List, NEW i \in 1 .. Len(q[b]),
           q' = [q EXCEPT ![b] = RemoveAt(@, i)], wakeup' = wakeup
    PROVE  Typed' /\ Filed' /\ \A u : IsSet(u)' <=> IsSet(u) /\ u # q[b][i]
<1> DEFINE s == q[b]
           n == RemoveAt(s, i)
<1>1. s \in Seq(Timeout) /\ DOMAIN s = 1 .. Len(s)
  BY DEF Typed
<1>2. /\ n \in Seq(Timeout) /\ Len(n) = Len(s) - 1 /\ DOMAIN n = 1 .. Len(n)
      /\ \A j \in 1 .. Len(n) : n[j] = s[IF j < i THEN j ELSE j + 1]
  <2>1. /\ n \in Seq(Timeout) /\ Len(n) = Len(s) - 1
        /\ \A j \in 1 .. Len(s) - 1 : n[j] = IF j < i THEN s[j] ELSE s[j + 1]
    BY <1>1, RemoveElements
  <2> QED BY <2>1
<1>3. q'[b] = n /\ \A c \in List : c # b => q'[c] = q[c]
  BY DEF Typed
<1> HIDE DEF n
<1>4. Typed'
  BY <1>2 DEF Typed, n
<1>5. ASSUME NEW j \in 1 .. Len(n)
      PROVE  \E k \in 1 .. Len(s) : /\ n[j] = s[k]
                                    /\ k = IF j < i THEN j ELSE j + 1
  BY <1>1, <1>2
<1>6. ASSUME NEW c \in List, NEW j \in DOMAIN q'[c]
      PROVE  /\ ListOf(wakeup[q'[c][j]]) = c
             /\ \A l \in DOMAIN q'[c] :
                   /\ j < l => wakeup[q'[c][j]] <= wakeup[q'[c][l]]
                   /\ q'[c][j] = q'[c][l] => j = l
  <2>1. CASE c # b
    BY <1>3, <1>6, <2>1 DEF Filed
  <2>2. CASE c = b
    <3>1. PICK k \in 1 .. Len(s) : n[j] = s[k] /\ k = IF j < i THEN j ELSE j + 1
      BY <1>2, <1>3, <1>5, <1>6, <2>2
    <3>2. ListOf(wakeup[n[j]]) = b
      BY <1>1, <3>1 DEF Filed
    <3>3. ASSUME NEW l \in DOMAIN n
          PROVE  /\ j < l => wakeup[n[j]] <= wakeup[n[l]]
                 /\ n[j] = n[l] => j = l
      <4>1. PICK m \in 1 .. Len(s) : n[l] = s[m] /\ m = IF l < i THEN l ELSE l + 1
        BY <1>2, <1>5, <3>3
      <4>2. /\ k < m => wakeup[s[k]] <= wakeup[s[m]]
            /\ s[k] = s[m] => k = m
        BY <1>1, <3>1, <4>1 DEF Filed
      <4>3. (j < l => k < m) /\ (k = m => j = l)
        BY <1>2, <1>3, <1>6, <2>2, <3>1, <3>3, <4>1
      <4> QED BY <3>1, <4>1, <4>2, <4>3
    <3> QED BY <1>3, <2>2, <3>2, <3>3
  <2> QED BY <2>1, <2>2
<1>7. Filed'
  BY <1>6 DEF Filed, ListOf, List
<1>8. ASSUME NEW u PROVE IsSet(u)' <=> IsSet(u) /\ u # s[i]
  <2>1. ASSUME IsSet(u)' PROVE IsSet(u) /\ u # s[i]
    <3>1. PICK c \in List : \E j \in 1 .. Len(q'[c]) : q'[c][j] = u
      BY <1>4, <2>1 DEF Typed, IsSet, Contains, List
    <3>2. CASE c # b
      <4>1. PICK j \in 1 .. Len(q[c]) : q[c][j] = u
        BY <1>3, <3>1, <3>2
      <4>2. IsSet(u)
        BY <4>1, IsSetInList
      <4>3. ListOf(wakeup[u]) = c
        BY <4>1 DEF Typed, Filed
      <4>4. ListOf(wakeup[s[i]]) = b
        BY <1>1 DEF Filed
      <4> QED BY <3>2, <4>2, <4>3, <4>4
    <3>3. CASE c = b
      <4>1. PICK j \in 1 .. Len(n) : n[j] = u
        BY <1>3, <3>1, <3>3
      <4>2. PICK k \in 1 .. Len(s) : u = s[k] /\ k = IF j < i THEN j ELSE j + 1
        BY <1>5, <4>1
      <4>3. IsSet(u)
        BY <4>2, IsSetInList
      <4>4. k # i
        BY <1>2, <4>2
      <4>5. u # s[i]
        BY <1>1, <4>2, <4>4 DEF Filed
      <4> QED BY <4>3, <4>5
    <3> QED BY <3>2, <3>3
  <2>2. ASSUME IsSet(u), u # s[i] PROVE IsSet(u)'
    <3>1. PICK c \in List : \E k \in 1 .. Len(q[c]) : q[c][k] = u
      BY <2>2, IsSetInList
    <3>2. PICK k \in 1 .. Len(q[c]) : q[c][k] = u
      BY <3>1
    <3>3. \E j \in 1 .. Len(q'[c]) : q'[c][j] = u
      <4>1. CASE c # b
        BY <1>3, <3>2, <4>1
      <4>2. CASE c = b
        <5>1. k # i
          BY <2>2, <3>2, <4>2
        <5>2. CASE k < i
          <6>1. k \in 1 .. Len(n) /\ n[k] = s[k]
            BY <1>1, <1>2, <3>2, <4>2, <5>2
          <6> QED BY <1>3, <3>2, <4>2, <6>1
        <5>3. CASE ~ (k < i)
          <6>1. k - 1 \in 1 .. Len(n) /\ n[k - 1] = s[k]
            BY <1>1, <1>2, <3>2, <4>2, <5>1, <5>3
          <6> QED BY <1>3, <3>2, <4>2, <6>1
        <5> QED BY <5>2, <5>3
      <4> QED BY <4>1, <4>2
    <3> QED BY <1>4, <3>3 DEF Typed, IsSet, Contains, List
  <2> QED BY <2>1, <2>2
<1> QED BY <1>4, <1>7, <1>8

\* An enqueued timeout is filed among the others.
LEMMA EnqueueFiles ==
    ASSUME Typed, Filed, NEW t \in Timeout, NEW w \in Nat, EnqueueTimeout(t, w)
    PROVE  Typed' /\ Filed' /\ \A u : IsSet(u)' <=> IsSet(u) \/ u = t
<1> DEFINE b == ListOf(w)
           s == q[b]
           i == PlaceIn(s, w)
           n == InsertAt(s, i, t)
<1>1. b \in List /\ s \in Seq(Timeout) /\ DOMAIN s = 1 .. Len(s)
  BY ListOfIsList DEF Typed
<1>2. /\ i \in 1 .. Len(s) + 1
      /\ \A j \in 1 .. i - 1 : wakeup[s[j]] < w
      /\ i = Len(s) + 1 \/ wakeup[s[i]] >= w
  BY <1>1, PlaceInList DEF Typed
<1>3. /\ q' = [q EXCEPT ![b] = n] /\ wakeup' = [wakeup EXCEPT ![t] = w]
      /\ ~ IsSet(t)
  BY DEF EnqueueTimeout
<1> HIDE DEF b, i
<1>4. /\ n \in Seq(Timeout) /\ Len(n) = Len(s) + 1 /\ DOMAIN n = 1 .. Len(n)
      /\ n[i] = t
      /\ \A j \in 1 .. Len(n) : j # i => n[j] = s[IF j < i THEN j ELSE j - 1]
  <2>1. s \in Seq(Timeout) /\ i \in 1 .. Len(s) + 1
    BY <1>1, <1>2
  <2>2. /\ n \in Seq(Timeout) /\ Len(n) = Len(s) + 1 /\ n[i] = t
        /\ \A j \in 1 .. i - 1 : n[j] = s[j]
        /\ \A j \in i + 1 .. Len(s) + 1 : n[j] = s[j - 1]
    <3> HIDE DEF s
    <3>1. ASSUME NEW l \in Seq(Timeout), NEW p \in 1 .. Len(l) + 1
          PROVE  LET m == InsertAt(l, p, t) IN
                 /\ m \in Seq(Timeout) /\ Len(m) = Len(l) + 1 /\ m[p] = t
                 /\ \A j \in 1 .. p - 1 : m[j] = l[j]
                 /\ \A j \in p + 1 .. Len(l) + 1 : m[j] = l[j - 1]
      BY InsertElements
    <3> QED BY <2>1, <3>1, Zenon
  <2> HIDE DEF n
  <2>3. DOMAIN n = 1 .. Len(n)
    BY <2>2
  <2>4. ASSUME NEW j \in 1 .. Len(n), j # i
        PROVE  n[j] = s[IF j < i THEN j ELSE j - 1]
    <3> HIDE DEF s
    <3>1. CASE j < i
      BY <2>1, <2>2, <2>4, <3>1
    <3>2. CASE ~ (j < i)
      <4>1. j \in i + 1 .. Len(s) + 1
        BY <2>1, <2>2, <2>4, <3>2
      <4> QED BY <2>2, <3>2, <4>1
    <3> QED BY <3>1, <3>2
  <2> QED BY <2>2, <2>3, <2>4
<1>5. q'[b] = n /\ \A c \in List : c # b => q'[c] = q[c]
  BY <1>1, <1>3 DEF Typed
<1> HIDE DEF n
<1>6. Typed'
  BY <1>1, <1>3, <1>4 DEF Typed, n
<1>7. wakeup'[t] = w /\ \A u \in Timeout : u # t => wakeup'[u] = wakeup[u]
  BY <1>3 DEF Typed
<1>8. \A c \in List : \A j \in DOMAIN q[c] : q[c][j] \in Timeout /\ q[c][j] # t
  BY <1>3, IsSetInList DEF Typed
<1>9. ASSUME NEW j \in 1 .. Len(n), j # i
      PROVE  \E k \in 1 .. Len(s) : /\ n[j] = s[k] /\ n[j] # t
                                    /\ wakeup'[n[j]] = wakeup[s[k]]
                                    /\ wakeup[s[k]] \in Nat
                                    /\ k = IF j < i THEN j ELSE j - 1
  <2>1. PICK k \in 1 .. Len(s) : n[j] = s[k] /\ k = IF j < i THEN j ELSE j - 1
    BY <1>1, <1>2, <1>4, <1>9
  <2>2. s[k] \in Timeout /\ s[k] # t
    BY <1>1, <1>8
  <2> QED BY <1>7, <2>1, <2>2 DEF Typed
<1>10. ASSUME NEW j \in DOMAIN n
       PROVE  /\ ListOf(wakeup'[n[j]]) = b
              /\ \A l \in DOMAIN n :
                    /\ j < l => wakeup'[n[j]] <= wakeup'[n[l]]
                    /\ n[j] = n[l] => j = l
  <2>1. CASE j = i
    <3>1. ListOf(wakeup'[n[j]]) = b
      BY <1>4, <1>7, <2>1 DEF b
    <3>2. ASSUME NEW l \in DOMAIN n, l # i
          PROVE  /\ j < l => wakeup'[n[j]] <= wakeup'[n[l]]
                 /\ n[j] # n[l]
      <4>1. PICK m \in 1 .. Len(s) : /\ n[l] = s[m] /\ n[l] # t
                                     /\ wakeup'[n[l]] = wakeup[s[m]]
                                     /\ wakeup[s[m]] \in Nat
                                     /\ m = IF l < i THEN l ELSE l - 1
        BY <1>4, <1>9, <3>2
      <4>2. ASSUME i < l PROVE w <= wakeup[s[m]]
        <5>1. i <= m /\ i \in 1 .. Len(s) /\ i # Len(s) + 1
          BY <1>1, <1>2, <1>4, <4>1, <4>2
        <5>2. wakeup[s[i]] >= w /\ wakeup[s[i]] \in Nat
          BY <1>1, <1>2, <5>1 DEF Typed
        <5>3. i < m => wakeup[s[i]] <= wakeup[s[m]]
          BY <1>1, <4>1, <5>1 DEF Filed
        <5> QED BY <1>2, <4>1, <5>1, <5>2, <5>3
      <4> QED BY <1>4, <1>7, <2>1, <4>1, <4>2
    <3>3. wakeup'[n[j]] <= wakeup'[n[j]]
      BY <1>4, <1>7, <2>1
    <3> QED BY <2>1, <3>1, <3>2, <3>3
  <2>2. CASE j # i
    <3>1. PICK k \in 1 .. Len(s) : /\ n[j] = s[k] /\ n[j] # t
                                   /\ wakeup'[n[j]] = wakeup[s[k]]
                                   /\ wakeup[s[k]] \in Nat
                                   /\ k = IF j < i THEN j ELSE j - 1
      BY <1>4, <1>9, <2>2
    <3>2. ListOf(wakeup'[n[j]]) = b
      BY <1>1, <3>1 DEF Filed
    <3>3. ASSUME NEW l \in DOMAIN n, l = i
          PROVE  /\ j < l => wakeup'[n[j]] <= wakeup'[n[l]]
                 /\ n[j] # n[l]
      <4>1. j < i => wakeup[s[k]] <= w
        <5>1. ASSUME j < i PROVE k \in 1 .. i - 1
          BY <1>2, <3>1, <5>1
        <5> QED BY <1>2, <3>1, <5>1
      <4> QED BY <1>4, <1>7, <3>1, <3>3, <4>1
    <3>4. ASSUME NEW l \in DOMAIN n, l # i
          PROVE  /\ j < l => wakeup'[n[j]] <= wakeup'[n[l]]
                 /\ n[j] = n[l] => j = l
      <4>1. PICK m \in 1 .. Len(s) : /\ n[l] = s[m] /\ n[l] # t
                                     /\ wakeup'[n[l]] = wakeup[s[m]]
                                     /\ wakeup[s[m]] \in Nat
                                     /\ m = IF l < i THEN l ELSE l - 1
        BY <1>4, <1>9, <3>4
      <4>2. /\ k < m => wakeup[s[k]] <= wakeup[s[m]]
            /\ s[k] = s[m] => k = m
        BY <1>1 DEF Filed
      <4>3. (j < l => k < m) /\ (k = m => j = l)
        BY <1>2, <1>4, <2>2, <3>1, <3>4, <4>1
      <4> QED BY <3>1, <4>1, <4>2, <4>3
    <3> QED BY <3>2, <3>3, <3>4
  <2> QED BY <2>1, <2>2
<1>11. ASSUME NEW c \in List, c # b, NEW j \in DOMAIN q[c]
       PROVE  /\ ListOf(wakeup'[q[c][j]]) = c
              /\ \A l \in DOMAIN q[c] :
                    /\ j < l => wakeup'[q[c][j]] <= wakeup'[q[c][l]]
                    /\ q[c][j] = q[c][l] => j = l
  <2>1. \A l \in DOMAIN q[c] : wakeup'[q[c][l]] = wakeup[q[c][l]]
    BY <1>7, <1>8
  <2> QED BY <2>1 DEF Filed
<1>12. Filed'
  BY <1>5, <1>10, <1>11 DEF Filed, ListOf, List
<1>13. ASSUME NEW u PROVE IsSet(u)' <=> IsSet(u) \/ u = t
  <2>1. ASSUME IsSet(u)' PROVE IsSet(u) \/ u = t
    <3>1. PICK c \in List : \E j \in 1 .. Len(q'[c]) : q'[c][j] = u
      BY <1>6, <2>1 DEF Typed, IsSet, Contains, List
    <3>2. CASE c # b
      BY <1>5, <3>1, <3>2, IsSetInList
    <3>3. CASE c = b
      <4>1. PICK j \in 1 .. Len(n) : n[j] = u
        BY <1>5, <3>1, <3>3
      <4>2. j # i => \E k \in 1 .. Len(s) : s[k] = u
        BY <1>9, <4>1
      <4> QED BY <1>1, <1>4, <4>1, <4>2, IsSetInList
    <3> QED BY <3>2, <3>3
  <2>2. IsSet(t)'
    BY <1>1, <1>2, <1>4, <1>5, <1>6 DEF Typed, IsSet, Contains, List
  <2>3. ASSUME IsSet(u) PROVE IsSet(u)'
    <3>1. PICK c \in List : \E k \in 1 .. Len(q[c]) : q[c][k] = u
      BY <2>3, IsSetInList
    <3>2. PICK k \in 1 .. Len(q[c]) : q[c][k] = u
      BY <3>1
    <3>3. \E j \in 1 .. Len(q'[c]) : q'[c][j] = u
      <4>1. CASE c # b
        BY <1>5, <3>2, <4>1
      <4>2. CASE c = b
        <5>1. CASE k < i
          <6>1. k \in 1 .. Len(n) /\ n[k] = s[k]
            BY <1>1, <1>2, <1>4, <3>2, <4>2, <5>1
          <6> QED BY <1>5, <3>2, <4>2, <6>1
        <5>2. CASE ~ (k < i)
          <6>1. k + 1 \in 1 .. Len(n) /\ n[k + 1] = s[k]
            BY <1>1, <1>2, <1>4, <3>2, <4>2, <5>2
          <6> QED BY <1>5, <3>2, <4>2, <6>1
        <5> QED BY <5>1, <5>2
      <4> QED BY <4>1, <4>2
    <3> QED BY <1>6, <3>3 DEF Typed, IsSet, Contains, List
  <2> QED BY <2>1, <2>2, <2>3
<1> QED BY <1>6, <1>12, <1>13

-----------------------------------------------------------------------------
(* The scan                                                                 *)

\* the lists from the a-th to the one before the e-th, around the wheel
Around(a, e) == IF a < e THEN a .. e - 1 ELSE (a .. QueueCount - 1) \cup (0 .. e - 1)

ToScan == Around(at, end)

\* A scan covers the lists of all the time that has passed.
LEMMA AroundCovers ==
    ASSUME NEW n \in Nat, NEW d \in 0 .. QueueCount - 1, NEW k \in 0 .. d
    PROVE  (n + k) % QueueCount \in Around(n % QueueCount, (n + d + 1) % QueueCount)
<1> DEFINE r == n % QueueCount
           e == (n + (d + 1)) % QueueCount
           x == (n + k) % QueueCount
<1>1. r \in 0 .. QueueCount - 1
  BY WheelAssumption, Division
<1>2. e = IF r + (d + 1) < QueueCount THEN r + (d + 1) ELSE r + (d + 1) - QueueCount
  <2>1. QueueCount \in Nat \ {0} /\ d + 1 \in 0 .. QueueCount
    BY WheelAssumption
  <2> QED BY <2>1, PlacesAfter, Zenon
<1>3. x = IF r + k < QueueCount THEN r + k ELSE r + k - QueueCount
  <2>1. QueueCount \in Nat \ {0} /\ k \in 0 .. QueueCount
    BY WheelAssumption
  <2> QED BY <2>1, PlacesAfter, Zenon
<1>4. n + d + 1 = n + (d + 1)
  OBVIOUS
<1> HIDE DEF r, e, x
<1>5. x \in Around(r, e)
  BY WheelAssumption, <1>1, <1>2, <1>3 DEF Around
<1> QED BY <1>4, <1>5 DEF r, e, x

\* The scan proceeds by one list.
LEMMA AroundNext ==
    ASSUME NEW a \in List, NEW e \in List
    PROVE  LET next == (a + 1) % QueueCount IN
           /\ next \in List
           /\ next = e => Around(a, e) = {a}
           /\ next # e => Around(next, e) = Around(a, e) \ {a}
<1> DEFINE next == (a + 1) % QueueCount
<1>1. a % QueueCount = a
  <2>1. QueueCount * 0 + a = a
    BY WheelAssumption DEF List
  <2>2. (QueueCount * 0 + a) % QueueCount = a
    BY WheelAssumption, Remainder DEF List
  <2> QED BY <2>1, <2>2, Zenon
<1>2. next = IF a + 1 < QueueCount THEN a + 1 ELSE a + 1 - QueueCount
  <2>1. QueueCount \in Nat \ {0} /\ a \in Nat /\ 1 \in 0 .. QueueCount
    BY WheelAssumption DEF List
  <2>2. next = IF (a % QueueCount) + 1 < QueueCount
               THEN (a % QueueCount) + 1 ELSE (a % QueueCount) + 1 - QueueCount
    BY <2>1, PlacesAfter, Zenon
  <2> QED BY <1>1, <2>2, Zenon
<1> HIDE DEF next
<1>3. next \in List
  BY <1>2, WheelAssumption DEF List
<1>4. ASSUME next = e PROVE Around(a, e) = {a}
  BY <1>2, <1>4, WheelAssumption DEF List, Around
<1>5. ASSUME next # e PROVE Around(next, e) = Around(a, e) \ {a}
  BY <1>2, <1>5, WheelAssumption DEF List, Around
<1> QED BY <1>3, <1>4, <1>5 DEF next

\* The wheel turns over every list.
LEMMA WholeTurn ==
    ASSUME NEW n \in Nat, NEW b \in List
    PROVE  \E k \in 0 .. QueueCount - 1 : (n + k) % QueueCount = b
<1> DEFINE r == n % QueueCount
           k == IF b >= r THEN b - r ELSE b - r + QueueCount
<1>1. r \in 0 .. QueueCount - 1
  BY WheelAssumption, Division
<1>2. /\ k \in 0 .. QueueCount - 1
      /\ b = IF r + k < QueueCount THEN r + k ELSE r + k - QueueCount
  <2> HIDE DEF r
  <2> QED BY WheelAssumption, <1>1 DEF List
<1> HIDE DEF k
<1>3. (n + k) % QueueCount = IF r + k < QueueCount THEN r + k ELSE r + k - QueueCount
  <2>1. QueueCount \in Nat \ {0} /\ k \in 0 .. QueueCount
    BY WheelAssumption, <1>2
  <2> QED BY <2>1, PlacesAfter, Zenon
<1> QED BY <1>2, <1>3, Zenon

-----------------------------------------------------------------------------
(* The invariant                                                            *)

StillToScan(t) == pc = "scan" /\ ListOf(wakeup[t]) \in ToScan

\* What is left from before the last scan was late, or this scan gets to it.
Covered == \A t \in Timeout : IsSet(t) =>
              wakeup[t] >= oldClock \/ LateWhenSet(t) \/ StillToScan(t)

\* No scan since a timeout was set late has passed its list.
Missed == \A t \in Timeout : IsSet(t) /\ LateWhenSet(t) =>
             \/ \A n \in since[t] \div Distance .. (oldClock \div Distance) - 1 :
                   n % QueueCount # ListOf(wakeup[t])
             \/ StillToScan(t)

SinceOK == \A t \in Timeout : since[t] <= oldClock

IInv == WheelTypeOK /\ Filed /\ Covered /\ Missed /\ SinceOK /\ InterruptInTime

LEMMA TypedLists == ASSUME WheelTypeOK PROVE Typed
BY DEF WheelTypeOK, Typed

\* At boot the lists are empty.
LEMMA NothingSet == ASSUME WheelInit, NEW t PROVE ~ IsSet(t)
<1>1. SUFFICES ASSUME NEW b \in List, Contains(q[b], t) PROVE FALSE
  BY DEF IsSet
<1>2. q[b] = <<>>
  BY DEF WheelInit
<1>3. PICK i \in 1 .. Len(q[b]) : q[b][i] = t
  BY <1>1, Zenon DEF Contains
<1> QED
  BY <1>2, <1>3

LEMMA InitIInv == WheelInit => IInv
<1> SUFFICES ASSUME WheelInit PROVE IInv
  OBVIOUS
<1>1. 0 \in List
  BY WheelAssumption DEF List
<1>2. WheelTypeOK
  BY <1>1, WheelAssumption DEF WheelInit, WheelTypeOK
<1>3. \A t : ~ IsSet(t)
  BY NothingSet
<1>4. Filed
  BY DEF WheelInit, Filed
<1>5. SinceOK
  <2>1. oldClock = 0
    BY DEF WheelInit
  <2>2. ASSUME NEW t \in Timeout PROVE since[t] = 0
    BY Zenon DEF WheelInit
  <2> QED
    BY <2>1, <2>2 DEF SinceOK
<1> QED BY <1>2, <1>3, <1>4, <1>5 DEF IInv, Covered, Missed, InterruptInTime

LEMMA EnqueueIInv ==
    ASSUME IInv, NEW t \in Timeout, NEW w \in Nat, EnqueueTimeout(t, w)
    PROVE  IInv'
<1> USE DEF IInv
<1>1. Typed' /\ Filed' /\ \A u : IsSet(u)' <=> IsSet(u) \/ u = t
  BY TypedLists, EnqueueFiles
<1>2. /\ wakeup' = [wakeup EXCEPT ![t] = w] /\ since' = [since EXCEPT ![t] = oldClock]
      /\ current' = IF OneShot /\ w <= current THEN w ELSE current
      /\ UNCHANGED <<clock, oldClock, pc, at, end, to>>
  BY DEF EnqueueTimeout
<1>3. WheelTypeOK'
  BY <1>1, <1>2 DEF WheelTypeOK, Typed, List
<1>4. wakeup'[t] = w /\ since'[t] = oldClock
  BY <1>2 DEF WheelTypeOK
<1>5. ASSUME NEW u \in Timeout, u # t
      PROVE  /\ wakeup'[u] = wakeup[u] /\ since'[u] = since[u]
             /\ LateWhenSet(u)' <=> LateWhenSet(u)
             /\ StillToScan(u)' <=> StillToScan(u)
  BY <1>2, <1>5 DEF WheelTypeOK, LateWhenSet, StillToScan, ListOf, ToScan, Around
<1>6. SinceOK'
  BY <1>2, <1>4, <1>5 DEF WheelTypeOK, SinceOK
<1>7. Covered'
  <2>1. wakeup'[t] >= oldClock' \/ LateWhenSet(t)'
    BY <1>2, <1>4 DEF WheelTypeOK, LateWhenSet
  <2> QED BY <1>1, <1>2, <1>5, <2>1 DEF Covered
<1>8. Missed'
  <2>1. ASSUME NEW n \in since'[t] \div Distance .. (oldClock' \div Distance) - 1
        PROVE  FALSE
    <3>1. oldClock \div Distance \in Nat
      BY WheelAssumption, Division DEF WheelTypeOK
    <3>2. since'[t] \div Distance = oldClock \div Distance
      BY <1>4, Zenon
    <3>3. oldClock' = oldClock
      BY <1>2
    <3> QED BY <2>1, <3>1, <3>2, <3>3
  <2>2. ASSUME NEW u \in Timeout, u # t, IsSet(u)', LateWhenSet(u)'
        PROVE  \/ \A n \in since'[u] \div Distance .. (oldClock' \div Distance) - 1 :
                      n % QueueCount # ListOf(wakeup'[u])
               \/ StillToScan(u)'
    BY <1>1, <1>2, <1>5, <2>2 DEF Missed
  <2> QED BY <2>1, <2>2 DEF Missed, ListOf
<1>9. InterruptInTime'
  <2>1. OneShot => current' <= w /\ current' <= current
    BY <1>2 DEF WheelTypeOK
  <2> QED BY <1>1, <1>2, <1>4, <1>5, <2>1 DEF WheelTypeOK, InterruptInTime
<1> QED BY <1>1, <1>3, <1>6, <1>7, <1>8, <1>9

LEMMA RemoveIInv ==
    ASSUME IInv, NEW b \in List, NEW i \in 1 .. Len(q[b]),
           q' = [q EXCEPT ![b] = RemoveAt(@, i)],
           since' = [since EXCEPT ![q[b][i]] = 0],
           UNCHANGED <<clock, wakeup, current, oldClock, pc, at, end>>,
           to' \in Timeout \cup {None}
    PROVE  IInv'
<1> USE DEF IInv
<1>1. q[b][i] \in Timeout
  BY DEF WheelTypeOK
<1>2. Typed' /\ Filed' /\ \A u : IsSet(u)' <=> IsSet(u) /\ u # q[b][i]
  BY TypedLists, RemoveFiles
<1>3. WheelTypeOK'
  BY <1>1, <1>2 DEF WheelTypeOK, Typed, List
<1>4. ASSUME NEW u \in Timeout, u # q[b][i]
      PROVE  since'[u] = since[u] /\ (LateWhenSet(u)' <=> LateWhenSet(u))
  BY <1>1, <1>4 DEF WheelTypeOK, LateWhenSet
<1>5. \A u : StillToScan(u)' <=> StillToScan(u)
  BY DEF StillToScan, ListOf, ToScan, Around
<1>6. SinceOK'
  BY <1>1, <1>4 DEF WheelTypeOK, SinceOK
<1>7. Covered'
  BY <1>2, <1>4, <1>5 DEF Covered
<1>8. Missed'
  <2>1. ASSUME NEW u \in Timeout, IsSet(u)', LateWhenSet(u)'
        PROVE  \/ \A n \in since'[u] \div Distance .. (oldClock' \div Distance) - 1 :
                      n % QueueCount # ListOf(wakeup'[u])
               \/ StillToScan(u)'
    BY <1>2, <1>4, <1>5, <2>1 DEF Missed
  <2> QED BY <2>1 DEF Missed, ListOf
<1>9. InterruptInTime'
  BY <1>2 DEF InterruptInTime
<1> QED BY <1>2, <1>3, <1>6, <1>7, <1>8, <1>9

LEMMA TimerInterruptIInv == IInv /\ TimerInterrupt => IInv'
<1> SUFFICES ASSUME IInv, TimerInterrupt PROVE IInv'
  OBVIOUS
<1> DEFINE x == oldClock \div Distance
           y == clock \div Distance
           d == y - x
<1> USE DEF IInv
<1>1. /\ pc = "idle" /\ pc' = "scan" /\ oldClock' = clock
      /\ UNCHANGED <<clock, q, wakeup, current, to, since>>
      /\ IF d >= QueueCount
         THEN at' = 0 /\ end' = 0
         ELSE at' = x % QueueCount /\ end' = (x + d + 1) % QueueCount
  BY DEF TimerInterrupt
<1>2. x \in Nat /\ y \in Nat /\ x <= y
  <2>1. oldClock \in Nat /\ clock \in Nat /\ oldClock <= clock /\ Distance \in Nat \ {0}
    BY WheelAssumption DEF WheelTypeOK
  <2>2. x \in Nat /\ y \in Nat
    BY <2>1, Division, Zenon
  <2>3. x <= y
    BY <2>1, DivisionGrows, Zenon
  <2> QED BY <2>2, <2>3
<1>3. at' \in List /\ end' \in List
  <2>1. CASE d >= QueueCount
    BY <1>1, <2>1, WheelAssumption DEF List
  <2>2. CASE ~ (d >= QueueCount)
    <3>1. x \in Nat /\ x + d + 1 \in Nat /\ QueueCount \in Nat \ {0}
      BY <1>2, WheelAssumption
    <3>2. x % QueueCount \in 0 .. QueueCount - 1 /\ (x + d + 1) % QueueCount \in 0 .. QueueCount - 1
      BY <3>1, Division, Zenon
    <3> QED BY <1>1, <2>2, <3>2 DEF List
  <2> QED BY <2>1, <2>2
<1>4. WheelTypeOK'
  BY <1>1, <1>3 DEF WheelTypeOK, List
<1>5. /\ Filed' /\ SinceOK' /\ InterruptInTime'
      /\ \A u : IsSet(u)' <=> IsSet(u)
      /\ \A u \in Timeout : LateWhenSet(u)' <=> LateWhenSet(u)
  BY <1>1 DEF Filed, ListOf, List, WheelTypeOK, SinceOK, InterruptInTime, IsSet, Contains, LateWhenSet
<1>6. \A k \in 0 .. d : (x + k) % QueueCount \in ToScan' \/ ToScan' = List
  <2>1. CASE d >= QueueCount
    BY <1>1, <2>1, WheelAssumption DEF ToScan, Around, List
  <2>2. CASE ~ (d >= QueueCount)
    <3> HIDE DEF x, y
    <3>1. d \in 0 .. QueueCount - 1
      BY <1>2, <2>2, WheelAssumption
    <3>2. \A k \in 0 .. d : (x + k) % QueueCount \in Around(x % QueueCount, (x + d + 1) % QueueCount)
      BY <1>2, <3>1, AroundCovers, Zenon
    <3>3. ToScan' = Around(at', end')
      BY DEF ToScan, Around
    <3> QED BY <1>1, <2>2, <3>2, <3>3, Zenon
  <2> QED BY <2>1, <2>2
<1>7. ASSUME NEW u \in Timeout, IsSet(u)
      PROVE  /\ ListOf(wakeup[u]) \in List
             /\ StillToScan(u)' <=> ListOf(wakeup[u]) \in ToScan'
  BY <1>1, <1>7, TypedLists, SetInItsList DEF StillToScan, ListOf
<1>8. Covered'
  <2>1. ASSUME NEW u \in Timeout, IsSet(u), ~ LateWhenSet(u), ~ (wakeup[u] >= clock)
        PROVE  StillToScan(u)'
    <3>1. wakeup[u] \in Nat /\ oldClock <= wakeup[u] /\ wakeup[u] <= clock
      BY <1>1, <2>1 DEF Covered, StillToScan, WheelTypeOK
    <3>2. Distance \in Nat \ {0} /\ oldClock \in Nat /\ clock \in Nat
      BY WheelAssumption DEF WheelTypeOK
    <3>3. /\ wakeup[u] \div Distance \in Nat
          /\ x <= wakeup[u] \div Distance /\ wakeup[u] \div Distance <= y
      BY <3>1, <3>2, Division, DivisionGrows, Zenon
    <3> DEFINE z == wakeup[u] \div Distance
               k == z - x
    <3>4. k \in 0 .. d /\ x + k = z
      <4> HIDE DEF x, y, z
      <4> QED BY <1>2, <3>3 DEF z
    <3>5. ListOf(wakeup[u]) = (x + k) % QueueCount
      BY <3>4, Zenon DEF ListOf
    <3> HIDE DEF x, y, d, k
    <3> QED BY <1>6, <1>7, <2>1, <3>4, <3>5, Zenon
  <2> QED BY <1>1, <1>5, <2>1 DEF Covered
<1>9. Missed'
  <2>1. ASSUME NEW u \in Timeout, IsSet(u), LateWhenSet(u), ~ (ListOf(wakeup[u]) \in ToScan'),
               NEW n \in since[u] \div Distance .. y - 1
        PROVE  n % QueueCount # ListOf(wakeup[u])
    <3> DEFINE v == since[u] \div Distance
    <3>1. v \in Nat
      <4>1. Distance \in Nat \ {0} /\ since[u] \in Nat
        BY WheelAssumption DEF WheelTypeOK
      <4> QED BY <4>1, Division, Zenon
    <3>2. \A m \in v .. x - 1 : m % QueueCount # ListOf(wakeup[u])
      BY <1>1, <2>1 DEF Missed, StillToScan
    <3>3. CASE n < x
      <4>1. n \in v .. x - 1
        <5> HIDE DEF x, y, v
        <5> QED BY <1>2, <2>1, <3>1, <3>3 DEF v
      <4> QED BY <3>2, <4>1, Zenon
    <3>4. CASE ~ (n < x)
      <4> DEFINE k == n - x
      <4>1. k \in 0 .. d /\ x + k = n
        <5> HIDE DEF x, y, v
        <5> QED BY <1>2, <2>1, <3>1, <3>4 DEF v
      <4>2. n % QueueCount \in ToScan' \/ ToScan' = List
        <5> HIDE DEF x, y, d, k
        <5> QED BY <1>6, <4>1, Zenon
      <4> QED BY <1>7, <2>1, <4>2
    <3> QED BY <3>3, <3>4
  <2> QED BY <1>1, <1>5, <1>7, <2>1 DEF Missed, ListOf
<1> QED BY <1>4, <1>5, <1>8, <1>9

LEMMA ScanNextIInv == IInv /\ ScanNext => IInv'
<1> SUFFICES ASSUME IInv, ScanNext PROVE IInv'
  OBVIOUS
<1> DEFINE next == (at + 1) % QueueCount
<1> USE DEF IInv
<1>1. /\ pc = "scan" /\ ~ FirstIsDue /\ at' = next
      /\ UNCHANGED <<clock, q, wakeup, oldClock, end, to, since>>
      /\ next # end => pc' = pc /\ current' = current
      /\ next = end =>
            /\ pc' = "idle"
            /\ IF OneShot
               THEN /\ current' \in Fronts \cup {oldClock + MaxSleep}
                    /\ \A w \in Fronts \cup {oldClock + MaxSleep} : current' <= w
               ELSE UNCHANGED current
  BY DEF ScanNext
<1>2. /\ next \in List
      /\ next = end => ToScan = {at}
      /\ next # end => ToScan' = ToScan \ {at}
  <2>1. at \in List /\ end \in List
    BY DEF WheelTypeOK
  <2>2. ToScan' = Around(next, end)
    BY <1>1 DEF ToScan, Around
  <2> QED BY <2>1, <2>2, AroundNext DEF ToScan
<1> HIDE DEF next
<1>3. Fronts \subseteq Nat
  <2>1. ASSUME NEW b \in List, q[b] # <<>> PROVE wakeup[Head(q[b])] \in Nat
    BY <2>1, TailElements DEF WheelTypeOK
  <2> QED BY <2>1 DEF Fronts
<1>4. WheelTypeOK'
  <2>1. current' \in Nat
    <3>1. current \in Nat /\ oldClock + MaxSleep \in Nat
      BY WheelAssumption DEF WheelTypeOK
    <3>2. CASE next = end /\ OneShot
      <4>1. current' \in Fronts \cup {oldClock + MaxSleep}
        BY <1>1, <3>2
      <4> QED BY <1>3, <3>1, <4>1
    <3>3. CASE ~ (next = end /\ OneShot)
      BY <1>1, <3>1, <3>3
    <3> QED BY <3>2, <3>3
  <2> QED BY <1>1, <1>2, <2>1 DEF WheelTypeOK, List
<1>5. /\ Filed' /\ SinceOK'
      /\ \A u : IsSet(u)' <=> IsSet(u)
      /\ \A u \in Timeout : LateWhenSet(u)' <=> LateWhenSet(u)
  BY <1>1 DEF Filed, ListOf, List, SinceOK, IsSet, Contains, LateWhenSet
<1>6. ASSUME NEW u \in Timeout, IsSet(u)
      PROVE  /\ q[ListOf(wakeup[u])] # <<>> /\ ListOf(wakeup[u]) \in List
             /\ wakeup[Head(q[ListOf(wakeup[u])])] \in Nat
             /\ wakeup[Head(q[ListOf(wakeup[u])])] <= wakeup[u]
  BY <1>6, TypedLists, SetInItsList, FrontFirst
<1>7. ASSUME NEW u \in Timeout, IsSet(u), ListOf(wakeup[u]) = at
      PROVE  wakeup[u] > oldClock /\ ~ LateWhenSet(u)
  <2>1. wakeup[u] > oldClock
    BY <1>1, <1>6, <1>7 DEF FirstIsDue, WheelTypeOK
  <2> QED BY <2>1 DEF WheelTypeOK, SinceOK, LateWhenSet
<1>8. ASSUME NEW u \in Timeout, StillToScan(u), ListOf(wakeup[u]) # at
      PROVE  StillToScan(u)'
  <2>1. next # end
    BY <1>2, <1>8 DEF StillToScan
  <2>2. ListOf(wakeup[u]) \in ToScan'
    BY <1>2, <1>8, <2>1 DEF StillToScan
  <2> QED BY <1>1, <2>1, <2>2 DEF StillToScan, ListOf
<1>9. Covered'
  <2>1. ASSUME NEW u \in Timeout, IsSet(u)
        PROVE  wakeup[u] >= oldClock \/ LateWhenSet(u) \/ StillToScan(u)'
    BY <1>7, <1>8, <2>1 DEF Covered, WheelTypeOK
  <2> QED BY <1>1, <1>5, <2>1 DEF Covered
<1>10. Missed'
  <2>1. ASSUME NEW u \in Timeout, IsSet(u), LateWhenSet(u)
        PROVE  \/ \A n \in since[u] \div Distance .. (oldClock \div Distance) - 1 :
                      n % QueueCount # ListOf(wakeup[u])
               \/ StillToScan(u)'
    BY <1>7, <1>8, <2>1 DEF Missed
  <2> QED BY <1>1, <1>5, <2>1 DEF Missed, ListOf
<1>11. InterruptInTime'
  <2>1. ASSUME OneShot, pc' = "idle", NEW u \in Timeout, IsSet(u)
        PROVE  current' <= wakeup[u]
    <3>1. next = end
      BY <1>1, <2>1
    <3>2. wakeup[Head(q[ListOf(wakeup[u])])] \in Fronts
      BY <1>6, <2>1 DEF Fronts
    <3>3. current' <= wakeup[Head(q[ListOf(wakeup[u])])]
      BY <1>1, <2>1, <3>1, <3>2
    <3>4. current' \in Nat /\ wakeup[u] \in Nat
      BY <1>4 DEF WheelTypeOK
    <3>5. /\ wakeup[Head(q[ListOf(wakeup[u])])] \in Nat
          /\ wakeup[Head(q[ListOf(wakeup[u])])] <= wakeup[u]
      BY <1>6, <2>1
    <3> QED BY <3>3, <3>4, <3>5
  <2> QED BY <1>1, <1>5, <2>1 DEF InterruptInTime
<1> QED BY <1>4, <1>5, <1>9, <1>10, <1>11

\* The scan removes the first of a list the way reset() removes any.
LEMMA ScanExpireRemoves ==
    ASSUME IInv, ScanExpire
    PROVE  /\ at \in List /\ 1 \in 1 .. Len(q[at])
           /\ q' = [q EXCEPT ![at] = RemoveAt(@, 1)]
           /\ since' = [since EXCEPT ![q[at][1]] = 0]
           /\ to' = q[at][1] /\ to' \in Timeout
           /\ wakeup[q[at][1]] <= oldClock
<1>1. at \in List /\ q[at] \in Seq(Timeout) /\ q[at] # <<>>
  BY DEF IInv, WheelTypeOK, ScanExpire, FirstIsDue
<1>2. /\ Tail(q[at]) = RemoveAt(q[at], 1)
      /\ 1 \in 1 .. Len(q[at]) /\ Head(q[at]) = q[at][1] /\ Head(q[at]) \in Timeout
  BY <1>1, TailElements
<1>3. /\ q' = [q EXCEPT ![at] = Tail(q[at])] /\ to' = Head(q[at])
      /\ since' = [since EXCEPT ![Head(q[at])] = 0]
      /\ wakeup[Head(q[at])] <= oldClock
  BY DEF ScanExpire, FirstIsDue
<1>4. q' = [q EXCEPT ![at] = RemoveAt(q[at], 1)]
  BY <1>2, <1>3, Zenon
<1> QED BY <1>1, <1>2, <1>3, <1>4

LEMMA NextIInv == IInv /\ [WheelNext]_wheelVars => IInv'
<1> SUFFICES ASSUME IInv, [WheelNext]_wheelVars PROVE IInv'
  OBVIOUS
<1>1. WheelTypeOK
  BY DEF IInv
<1>2. CASE Advance
  <2>1. WheelTypeOK'
    BY <1>1, <1>2 DEF WheelTypeOK, Advance, List
  <2> QED BY <1>2, <2>1 DEF Advance, IInv, Filed, Covered, Missed, SinceOK, InterruptInTime,
             IsSet, LateWhenSet, StillToScan, ToScan, Around, ListOf, List, Contains
<1>3. ASSUME NEW t \in Timeout, NEW d \in 0 .. MaxDelay, Set(t, clock + d) PROVE IInv'
  <2>1. clock + d \in Nat /\ EnqueueTimeout(t, clock + d)
    BY <1>1, <1>3, WheelAssumption DEF Set, WheelTypeOK
  <2> QED BY <2>1, EnqueueIInv
<1>4. ASSUME NEW t \in Timeout, NEW w \in 0 .. MaxTime, SetAgain(t, w) PROVE IInv'
  <2>1. w \in Nat /\ EnqueueTimeout(t, w)
    BY <1>4, WheelAssumption DEF SetAgain
  <2> QED BY <2>1, EnqueueIInv
<1>5. ASSUME NEW t \in Timeout, Reset(t) PROVE IInv'
  <2>1. PICK b \in List : \E i \in DOMAIN q[b] :
              q[b][i] = t /\ q' = [q EXCEPT ![b] = RemoveAt(@, i)]
    BY <1>5 DEF Reset
  <2>2. PICK i \in 1 .. Len(q[b]) : q[b][i] = t /\ q' = [q EXCEPT ![b] = RemoveAt(@, i)]
    <3>1. DOMAIN q[b] = 1 .. Len(q[b])
      BY <1>1 DEF WheelTypeOK
    <3> QED BY <2>1, <3>1, Zenon
  <2>3. /\ since' = [since EXCEPT ![q[b][i]] = 0] /\ to' \in Timeout \cup {None}
        /\ UNCHANGED <<clock, wakeup, current, oldClock, pc, at, end>>
    BY <1>1, <1>5, <2>2 DEF Reset, WheelTypeOK
  <2> QED BY <2>2, <2>3, RemoveIInv
<1>6. CASE TimerInterrupt
  BY <1>6, TimerInterruptIInv
<1>7. CASE ScanExpire
  <2>1. UNCHANGED <<clock, wakeup, current, oldClock, pc, at, end>>
    BY <1>7 DEF ScanExpire
  <2> QED BY <1>7, <2>1, ScanExpireRemoves, RemoveIInv
<1>8. CASE ExpireReturns
  <2>1. WheelTypeOK'
    BY <1>1, <1>8 DEF WheelTypeOK, ExpireReturns, List
  <2> QED BY <1>8, <2>1 DEF ExpireReturns, IInv, Filed, Covered, Missed, SinceOK, InterruptInTime,
             IsSet, LateWhenSet, StillToScan, ToScan, Around, ListOf, List, Contains
<1>9. CASE ScanNext
  BY <1>9, ScanNextIInv
<1>10. CASE UNCHANGED wheelVars
  <2>1. WheelTypeOK'
    BY <1>1, <1>10 DEF WheelTypeOK, wheelVars, List
  <2> QED BY <1>10, <2>1 DEF wheelVars, IInv, Filed, Covered, Missed, SinceOK, InterruptInTime,
             IsSet, LateWhenSet, StillToScan, ToScan, Around, ListOf, List, Contains
<1> QED BY <1>2, <1>3, <1>4, <1>5, <1>6, <1>7, <1>8, <1>9, <1>10 DEF WheelNext

THEOREM Invariant == WheelSpec => []IInv
<1> QED BY InitIInv, NextIInv, PTL DEF WheelSpec

\* Every timeout that is set stands where the scan looks for it, in the order
\* of the wake-up times, whatever enqueue(), dequeue() and the scan do.
THEOREM AlwaysFiled == WheelSpec => [](WheelTypeOK /\ Filed)
<1>1. IInv => WheelTypeOK /\ Filed
  BY DEF IInv
<1> QED BY <1>1, Invariant, PTL

\* do_timeouts() forgets no timeout, however late the timer interrupt.
THEOREM NoTimeoutForgotten == WheelSpec => []NoneForgotten
<1>1. IInv => NoneForgotten
  BY DEF IInv, Covered, StillToScan, NoneForgotten
<1> QED BY <1>1, Invariant, PTL

\* The one-shot timer is programmed for the first timeout or earlier.
THEOREM TimerInTime == WheelSpec => []InterruptInTime
<1>1. IInv => InterruptInTime
  BY DEF IInv
<1> QED BY <1>1, Invariant, PTL

\* A timeout that was late when a migration set it is found within one turn.
THEOREM LateByOneTurn == WheelSpec => []OneTurnLate
<1>1. ASSUME IInv, pc = "idle", NEW t \in Timeout, IsSet(t), LateWhenSet(t)
      PROVE  oldClock \div Distance < since[t] \div Distance + QueueCount
  <2> DEFINE n == since[t] \div Distance
             m == oldClock \div Distance
  <2>1. n \in Nat /\ m \in Nat
    <3>1. Distance \in Nat \ {0} /\ since[t] \in Nat /\ oldClock \in Nat
      BY <1>1, WheelAssumption DEF IInv, WheelTypeOK
    <3> QED BY <3>1, Division, Zenon
  <2>2. \A j \in n .. m - 1 : j % QueueCount # ListOf(wakeup[t])
    BY <1>1 DEF IInv, Missed, StillToScan
  <2>3. PICK k \in 0 .. QueueCount - 1 : (n + k) % QueueCount = ListOf(wakeup[t])
    BY <1>1, <2>1, TypedLists, SetInItsList, WholeTurn, Zenon DEF IInv
  <2>4. ~ (n + k \in n .. m - 1)
    BY <2>2, <2>3, Zenon
  <2> HIDE DEF n, m
  <2>5. m < n + QueueCount
    BY <2>1, <2>3, <2>4, WheelAssumption
  <2> QED BY <2>5 DEF n, m
<1>2. IInv => OneTurnLate
  BY <1>1 DEF OneTurnLate
<1> QED BY <1>2, Invariant, PTL

-----------------------------------------------------------------------------
(* The refinement                                                           *)

armed == [t \in Timeout |-> IF IsSet(t) THEN wakeup[t] ELSE None]

LEMMA EnqueueSets ==
    ASSUME IInv, NEW t \in Timeout, NEW w \in Nat, EnqueueTimeout(t, w)
    PROVE  Timers!Set(t)
<1>1. /\ \A u : IsSet(u)' <=> IsSet(u) \/ u = t
      /\ ~ IsSet(t) /\ wakeup' = [wakeup EXCEPT ![t] = w] /\ UNCHANGED <<clock, to>>
  BY TypedLists, EnqueueFiles DEF IInv, EnqueueTimeout
<1>2. wakeup'[t] = w /\ \A u \in Timeout : u # t => wakeup'[u] = wakeup[u]
  BY <1>1 DEF IInv, WheelTypeOK
<1>3. armed[t] = None /\ armed'[t] = w
  BY <1>1, <1>2 DEF armed
<1>4. armed' = [armed EXCEPT ![t] = w]
  BY <1>1, <1>2 DEF armed
<1>5. armed'[t] \in Nat /\ armed' = [armed EXCEPT ![t] = armed'[t]]
  BY <1>3, <1>4
<1> QED BY <1>1, <1>3, <1>5 DEF Timers!Set, armed

LEMMA RemoveDisarms ==
    ASSUME IInv, NEW b \in List, NEW i \in 1 .. Len(q[b]),
           q' = [q EXCEPT ![b] = RemoveAt(@, i)], wakeup' = wakeup
    PROVE  /\ q[b][i] \in Timeout /\ armed[q[b][i]] = wakeup[q[b][i]]
           /\ armed' = [armed EXCEPT ![q[b][i]] = None]
<1>1. \A u : IsSet(u)' <=> IsSet(u) /\ u # q[b][i]
  BY TypedLists, RemoveFiles DEF IInv
<1>2. q[b][i] \in Timeout /\ IsSet(q[b][i])
  BY TypedLists, IsSetInList DEF IInv, WheelTypeOK
<1> QED BY <1>1, <1>2 DEF armed

\* The wheel, with what calls it makes to expired(), is a set of timers that
\* expire once, in their time, one after the other, unless they are reset.
THEOREM WheelImplementsTimers == WheelSpec => ImplementsTimers
<1>1. WheelInit => Timers!Init
  <2> SUFFICES ASSUME WheelInit PROVE Timers!Init
    OBVIOUS
  <2>1. \A t : ~ IsSet(t)
    BY NothingSet
  <2>2. armed = [t \in Timeout |-> None]
    BY <2>1 DEF armed
  <2> QED BY <2>2 DEF WheelInit, Timers!Init, armed
<1>2. ASSUME IInv, [WheelNext]_wheelVars PROVE [Timers!Next]_(Timers!vars)
  <2> USE <1>2
  <2>1. CASE Advance
    <3>1. armed' = armed
      BY <2>1 DEF Advance, armed, IsSet, Contains, List
    <3> QED BY <2>1, <3>1 DEF Advance, Timers!Next, Timers!Advance, armed
  <2>2. ASSUME NEW t \in Timeout, NEW d \in 0 .. MaxDelay, Set(t, clock + d)
        PROVE  Timers!Next
    <3>1. clock + d \in Nat /\ EnqueueTimeout(t, clock + d)
      BY <2>2, WheelAssumption DEF Set, IInv, WheelTypeOK
    <3> QED BY <3>1, EnqueueSets DEF Timers!Next
  <2>3. ASSUME NEW t \in Timeout, NEW w \in 0 .. MaxTime, SetAgain(t, w)
        PROVE  Timers!Next
    <3>1. w \in Nat /\ EnqueueTimeout(t, w)
      BY <2>3, WheelAssumption DEF SetAgain
    <3> QED BY <3>1, EnqueueSets DEF Timers!Next
  <2>4. ASSUME NEW t \in Timeout, Reset(t) PROVE Timers!Next
    <3>1. PICK b \in List : \E i \in DOMAIN q[b] :
                q[b][i] = t /\ q' = [q EXCEPT ![b] = RemoveAt(@, i)]
      BY <2>4 DEF Reset
    <3>2. DOMAIN q[b] = 1 .. Len(q[b])
      BY DEF IInv, WheelTypeOK
    <3>3. PICK i \in 1 .. Len(q[b]) : q[b][i] = t /\ q' = [q EXCEPT ![b] = RemoveAt(@, i)]
      BY <3>1, <3>2, Zenon
    <3>4. UNCHANGED <<clock, wakeup, to>>
      BY <2>4 DEF Reset
    <3>5. armed' = [armed EXCEPT ![t] = None]
      BY <3>3, <3>4, RemoveDisarms
    <3> QED BY <3>4, <3>5 DEF Timers!Next, Timers!Reset, armed
  <2>5. CASE TimerInterrupt \/ ScanNext
    <3>1. UNCHANGED <<clock, q, wakeup, to>>
      BY <2>5 DEF TimerInterrupt, ScanNext
    <3>2. armed' = armed
      BY <3>1 DEF armed, IsSet, Contains, List
    <3> QED BY <3>1, <3>2 DEF Timers!vars, armed
  <2>6. CASE ScanExpire
    <3> DEFINE t == q[at][1]
    <3>1. UNCHANGED <<clock, wakeup>> /\ to = None
      BY <2>6 DEF ScanExpire
    <3>2. /\ at \in List /\ 1 \in 1 .. Len(q[at])
          /\ q' = [q EXCEPT ![at] = RemoveAt(@, 1)]
          /\ to' = t /\ wakeup[t] <= oldClock
      BY <2>6, ScanExpireRemoves
    <3>3. t \in Timeout /\ armed[t] = wakeup[t] /\ armed' = [armed EXCEPT ![t] = None]
      BY <3>1, <3>2, RemoveDisarms
    <3>4. armed[t] # None /\ armed[t] <= clock
      BY <3>2, <3>3, WheelAssumption DEF IInv, WheelTypeOK
    <3> HIDE DEF t
    <3> QED BY <3>1, <3>2, <3>3, <3>4 DEF Timers!Next, Timers!Expire, armed
  <2>7. CASE ExpireReturns
    <3>1. armed' = armed /\ clock' = clock /\ to' = None
      BY <2>7 DEF ExpireReturns, armed, IsSet, Contains, List
    <3> QED BY <3>1 DEF Timers!Next, Timers!Done, armed
  <2>8. CASE UNCHANGED wheelVars
    <3>1. armed' = armed /\ UNCHANGED <<clock, to>>
      BY <2>8 DEF wheelVars, armed, IsSet, Contains, List
    <3> QED BY <3>1 DEF Timers!vars, armed
  <2> QED BY <1>2, <2>1, <2>2, <2>3, <2>4, <2>5, <2>6, <2>7, <2>8 DEF WheelNext
<1> QED BY <1>1, <1>2, Invariant, PTL DEF WheelSpec, ImplementsTimers, Timers!Spec
=============================================================================
