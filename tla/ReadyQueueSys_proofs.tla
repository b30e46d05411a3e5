------------------------- MODULE ReadyQueueSys_proofs -------------------------
(***************************************************************************)
(* The ready queue implements the abstract run queue, and prio_highest is  *)
(* exact, for any number of contexts and priorities.  The pointer lists    *)
(* are closed rings, one per priority in use; a ring read from its head is *)
(* a sequence, and each list operation is an operation on that sequence.   *)
(***************************************************************************)
EXTENDS ReadyQueueSys, ReadyQueue_proofs

-----------------------------------------------------------------------------
\* The lists hold the orders o: a context is linked in that of its priority only.
Listed(k, q, pr, o) ==
    /\ k \in Hook(Scx) /\ q \in Rq(Scx) /\ pr \in [Scx -> Prio]
    /\ o \in [Prio -> Seq(Scx)]
    /\ \A p \in Prio : IsRing(Scx, k, q.queue[p], o[p])
    /\ \A p \in Prio : \A i \in DOMAIN o[p] : pr[o[p][i]] = p
    /\ \A x \in Scx : InList(k, x) => \E i \in DOMAIN o[pr[x]] : o[pr[x]][i] = x

\* prio_highest names a list in use, or it is 0: it is also lowered when the last list
\* gets empty.
Exact(q) ==
    /\ q.highest = 0 \/ q.queue[q.highest] # Nil
    /\ \A p \in Prio : q.queue[p] # Nil => p <= q.highest

LEMMA ExactUsed ==
    ASSUME NEW q, q.highest \in Prio, Exact(q), NEW p \in Prio, q.queue[p] # Nil
    PROVE  p <= q.highest /\ q.queue[q.highest] # Nil
<1>1. p \in Nat /\ p <= q.highest
  BY MaxPrioAssumption DEF Exact, Prio
<1>2. q.highest = 0 => p = 0
  BY <1>1
<1> QED
  BY <1>1, <1>2 DEF Exact

\* What is in an order is linked.
LEMMA ListedLinked ==
    ASSUME NEW k, NEW q, NEW pr, NEW o, Listed(k, q, pr, o), NEW p \in Prio,
           NEW i \in DOMAIN o[p]
    PROVE  o[p][i] \in Scx /\ InList(k, o[p][i]) /\ q.queue[p] # Nil
<1> DEFINE s == o[p]
<1>1. s \in Seq(Scx) /\ IsRing(Scx, k, q.queue[p], s)
  BY DEF Listed
<1>2. Len(s) \in Nat /\ i \in 1 .. Len(s)
  BY <1>1
<1> HIDE DEF s
<1>3. Behind(Len(s), i) \in 1 .. Len(s) /\ k.next[s[i]] = s[Behind(Len(s), i)] /\ q.queue[p] = s[1]
  <2>1. Behind(Len(s), i) \in 1 .. Len(s)
    BY <1>2, BehindIn
  <2>2. k.next[s[i]] = s[Behind(Len(s), i)]
    BY <1>1, <1>2 DEF IsRing, Linked
  <2>3. q.queue[p] = s[1]
    BY <1>1, <1>2 DEF IsRing, HeadOf
  <2> QED
    BY <2>1, <2>2, <2>3
<1> QED
  BY <1>1, <1>2, <1>3, ScxAssumption DEF InList, s

\* An item that is not linked is added to the list of its priority.
LEMMA EnqueueListed ==
    ASSUME NEW k, NEW q, NEW pr, NEW o, Listed(k, q, pr, o),
           NEW e \in Scx, NEW pos, ~ InList(k, e)
    PROVE  LET new == Enqueue(k, q, e, pr[e], pos)
           IN  Listed(new.hook, new.rq, pr, [o EXCEPT ![pr[e]] = Put(o[pr[e]], e, pos)])
<1> DEFINE p == pr[e]
           s == o[p]
           r == Push(k, q.queue[p], e, pos)
           new == Enqueue(k, q, e, p, pos)
           n == [o EXCEPT ![p] = Put(s, e, pos)]
<1>1. /\ k \in Hook(Scx) /\ q \in Rq(Scx) /\ pr \in [Scx -> Prio] /\ p \in Prio
      /\ o \in [Prio -> Seq(Scx)] /\ s \in Seq(Scx) /\ IsRing(Scx, k, q.queue[p], s)
  BY DEF Listed
<1>2. \A t \in Prio : \A i \in DOMAIN o[t] : o[t][i] \in Scx /\ o[t][i] # e
  BY ListedLinked
<1>3. IsRing(Scx, r.hook, r.head, Put(s, e, pos))
  BY <1>1, <1>2, PushRing, ScxAssumption
<1>4. new.hook \in Hook(Scx) /\ new.rq \in Rq(Scx)
  BY <1>1, EnqueueType
<1>5. new.hook = r.hook /\ new.rq.queue = [q.queue EXCEPT ![p] = r.head]
  BY DEF Enqueue
<1>6. \A x \in Scx : x # e =>
         /\ (\A j \in DOMAIN s : s[j] # x) =>
               r.hook.next[x] = k.next[x] /\ r.hook.prev[x] = k.prev[x]
         /\ r.hook.next[x] # Nil => k.next[x] # Nil
  BY <1>1, PushFrame, ScxAssumption
<1>7. /\ Put(s, e, pos) \in Seq(Scx)
      /\ \A x : (\E j \in DOMAIN Put(s, e, pos) : Put(s, e, pos)[j] = x)
                   <=> x = e \/ \E j \in DOMAIN s : s[j] = x
  <2> DEFINE u == Put(s, e, pos)
  <2>0. Len(s) \in Nat /\ DOMAIN s = 1 .. Len(s)
    BY <1>1
  <2>1. /\ u \in Seq(Scx) /\ Len(u) = Len(s) + 1 /\ DOMAIN u = 1 .. Len(s) + 1
        /\ \A j \in 1 .. Len(s) + 1 : u[j] = IF pos = "Front"
                                             THEN IF j = 1 THEN e ELSE s[j - 1]
                                             ELSE IF j = Len(s) + 1 THEN e ELSE s[j]
    BY <1>1, PutIndex, ScxAssumption
  <2> HIDE DEF u, s
  <2>2. ASSUME NEW j \in DOMAIN s PROVE \E m \in DOMAIN u : u[m] = s[j]
    <3>1. CASE pos = "Front"
      <4>1. j + 1 \in DOMAIN u /\ u[j + 1] = s[j]
        BY <2>0, <2>1, <3>1
      <4> QED
        BY <4>1
    <3>2. CASE pos # "Front"
      <4>1. j \in DOMAIN u /\ u[j] = s[j]
        BY <2>0, <2>1, <3>2
      <4> QED
        BY <4>1
    <3> QED
      BY <3>1, <3>2
  <2>3. \E m \in DOMAIN u : u[m] = e
    <3>1. CASE pos = "Front"
      <4>1. 1 \in DOMAIN u /\ u[1] = e
        BY <2>0, <2>1, <3>1
      <4> QED
        BY <4>1
    <3>2. CASE pos # "Front"
      <4>1. Len(s) + 1 \in DOMAIN u /\ u[Len(s) + 1] = e
        BY <2>0, <2>1, <3>2
      <4> QED
        BY <4>1
    <3> QED
      BY <3>1, <3>2
  <2>4. ASSUME NEW m \in DOMAIN u PROVE u[m] = e \/ \E j \in DOMAIN s : s[j] = u[m]
    <3>1. CASE pos = "Front" /\ m # 1
      <4>1. m - 1 \in DOMAIN s /\ u[m] = s[m - 1]
        BY <2>0, <2>1, <3>1
      <4> QED
        BY <4>1
    <3>2. CASE pos # "Front" /\ m # Len(s) + 1
      <4>1. m \in DOMAIN s /\ u[m] = s[m]
        BY <2>0, <2>1, <3>2
      <4> QED
        BY <4>1
    <3> QED
      BY <2>1, <3>1, <3>2
  <2> QED
    BY <2>1, <2>2, <2>3, <2>4 DEF u
<1> HIDE DEF r, new
<1>8. n \in [Prio -> Seq(Scx)]
  BY <1>1, <1>7
<1>9. ASSUME NEW t \in Prio PROVE IsRing(Scx, new.hook, new.rq.queue[t], n[t])
  <2>1. q.queue \in [Prio -> OrNull(Scx)]
    BY <1>1 DEF Rq
  <2>2. CASE t = p
    BY <1>1, <1>3, <1>5, <2>1, <2>2
  <2>3. CASE t # p
    <3>1. n[t] = o[t] /\ new.rq.queue[t] = q.queue[t] /\ IsRing(Scx, k, q.queue[t], o[t])
      BY <1>1, <1>5, <2>1, <2>3 DEF Listed
    <3>2. \A i \in DOMAIN o[t] : \A j \in DOMAIN s : s[j] # o[t][i]
      BY <1>1, <2>3 DEF Listed
    <3>3. \A i \in DOMAIN o[t] : /\ r.hook.next[o[t][i]] = k.next[o[t][i]]
                                 /\ r.hook.prev[o[t][i]] = k.prev[o[t][i]]
      BY <1>2, <1>6, <3>2
    <3> QED
      BY <1>5, <3>1, <3>3, RingKept, ScxAssumption
  <2> QED
    BY <2>2, <2>3
<1>10. \A t \in Prio : \A i \in DOMAIN n[t] : pr[n[t][i]] = t
  <2> SUFFICES ASSUME NEW t \in Prio, NEW i \in DOMAIN n[t] PROVE pr[n[t][i]] = t
    OBVIOUS
  <2>1. CASE t = p
    <3>1. n[t] = Put(s, e, pos)
      BY <1>1, <2>1
    <3>2. n[t][i] = e \/ \E j \in DOMAIN s : s[j] = n[t][i]
      BY <1>7, <3>1
    <3> QED
      BY <2>1, <3>2 DEF Listed
  <2>2. CASE t # p
    BY <1>1, <2>2 DEF Listed
  <2> QED
    BY <2>1, <2>2
<1>11. \A x \in Scx : InList(new.hook, x) => \E i \in DOMAIN n[pr[x]] : n[pr[x]][i] = x
  <2> SUFFICES ASSUME NEW x \in Scx, InList(new.hook, x)
               PROVE  \E i \in DOMAIN n[pr[x]] : n[pr[x]][i] = x
    OBVIOUS
  <2>1. x = e \/ \E i \in DOMAIN o[pr[x]] : o[pr[x]][i] = x
    BY <1>5, <1>6 DEF InList, Listed
  <2>2. pr[x] \in Prio
    BY <1>1
  <2>3. CASE pr[x] = p
    <3>1. n[pr[x]] = Put(s, e, pos)
      BY <1>1, <2>3
    <3> QED
      BY <1>7, <2>1, <2>3, <3>1
  <2>4. CASE pr[x] # p
    <3>1. n[pr[x]] = o[pr[x]] /\ x # e
      BY <1>1, <2>2, <2>4
    <3> QED
      BY <2>1, <3>1
  <2> QED
    BY <2>3, <2>4
<1>12. Listed(new.hook, new.rq, pr, n)
  BY <1>1, <1>4, <1>8, <1>9, <1>10, <1>11 DEF Listed
<1> QED
  BY <1>12 DEF new

\* A linked item is taken out of the list of its priority, and may then get another one.
LEMMA DequeueListed ==
    ASSUME NEW k, NEW q, NEW pr, NEW o, Listed(k, q, pr, o), NEW e \in Scx,
           NEW i \in DOMAIN o[pr[e]], o[pr[e]][i] = e,
           NEW new, new \in [Scx -> Prio], \A x \in Scx : x # e => new[x] = pr[x]
    PROVE  LET out == ReadyDequeue(k, q, e, pr[e])
           IN  /\ Listed(out.hook, out.rq, new, [o EXCEPT ![pr[e]] = RemoveAt(o[pr[e]], i)])
               /\ ~ InList(out.hook, e)
<1> DEFINE p == pr[e]
           s == o[p]
           r == RemoveItem(k, q.queue[p], e)
           out == ReadyDequeue(k, q, e, p)
           u == RemoveAt(s, i)
           n == [o EXCEPT ![p] = u]
<1>1. /\ k \in Hook(Scx) /\ q \in Rq(Scx) /\ pr \in [Scx -> Prio] /\ p \in Prio
      /\ o \in [Prio -> Seq(Scx)] /\ s \in Seq(Scx) /\ IsRing(Scx, k, q.queue[p], s)
      /\ s[i] = e /\ i \in DOMAIN s
  BY DEF Listed
<1>2. \A t \in Prio : \A j \in DOMAIN o[t] : o[t][j] \in Scx
  BY ListedLinked
<1>3. IsRing(Scx, r.hook, r.head, u)
  BY <1>1, RemoveRing, ScxAssumption
<1>4. out.hook \in Hook(Scx) /\ out.rq \in Rq(Scx)
  BY <1>1, ReadyDequeueType
<1>5. InList(k, e)
  BY <1>1, ListedLinked
<1>6. out.hook = r.hook /\ out.rq.queue = [q.queue EXCEPT ![p] = r.head]
  BY <1>5 DEF ReadyDequeue
<1>7. \A x \in Scx :
         /\ (\A j \in DOMAIN s : s[j] # x) =>
               r.hook.next[x] = k.next[x] /\ r.hook.prev[x] = k.prev[x]
         /\ r.hook.next[x] # Nil => k.next[x] # Nil /\ x # e
  <2> SUFFICES ASSUME NEW x \in Scx
               PROVE  /\ (\A j \in DOMAIN s : s[j] # x) =>
                            r.hook.next[x] = k.next[x] /\ r.hook.prev[x] = k.prev[x]
                      /\ r.hook.next[x] # Nil => k.next[x] # Nil /\ x # e
    OBVIOUS
  <2> HIDE DEF s, p, r
  <2>1. k \in Hook(Scx) /\ IsRing(Scx, k, q.queue[p], s) /\ i \in DOMAIN s /\ e = s[i] /\ x \in Scx
    BY <1>1
  <2>2. LET l == RemoveItem(k, q.queue[p], e).hook
        IN  /\ (\A j \in DOMAIN s : s[j] # x) => l.next[x] = k.next[x] /\ l.prev[x] = k.prev[x]
            /\ l.next[x] # Nil => k.next[x] # Nil /\ x # e
    BY ONLY <2>1, RemoveFrame, ScxAssumption
  <2> QED
    BY <2>2 DEF r
<1>8. /\ u \in Seq(Scx)
      /\ \A x : (\E j \in DOMAIN u : u[j] = x) <=> x # e /\ \E j \in DOMAIN s : s[j] = x
  <2>0. Len(s) \in Nat /\ DOMAIN s = 1 .. Len(s) /\ i \in 1 .. Len(s)
        /\ \A j, m \in 1 .. Len(s) : s[j] = s[m] => j = m
    BY <1>1 DEF IsRing, Once
  <2>1. /\ u \in Seq(Scx) /\ Len(u) = Len(s) - 1
        /\ \A j \in 1 .. Len(s) - 1 : u[j] = s[Skip(i, j)]
    BY <1>1, <2>0, RemoveAtSkips
  <2> HIDE DEF u, s
  <2>2. DOMAIN u = 1 .. Len(s) - 1
    BY <2>0, <2>1
  <2>3. ASSUME NEW j \in DOMAIN u PROVE u[j] # e /\ \E m \in DOMAIN s : s[m] = u[j]
    <3>1. Skip(i, j) \in DOMAIN s /\ Skip(i, j) # i
      BY <2>0, <2>2 DEF Skip
    <3>2. u[j] = s[Skip(i, j)]
      BY <2>1, <2>2
    <3> QED
      BY <1>1, <2>0, <3>1, <3>2
  <2>4. ASSUME NEW m \in DOMAIN s, s[m] # e PROVE \E j \in DOMAIN u : u[j] = s[m]
    <3>1. m # i
      BY <1>1, <2>4
    <3>2. CASE m < i
      <4>1. m \in DOMAIN u /\ Skip(i, m) = m
        BY <2>0, <2>2, <3>2 DEF Skip
      <4> QED
        BY <2>1, <2>2, <4>1
    <3>3. CASE ~ (m < i)
      <4>1. m - 1 \in DOMAIN u /\ Skip(i, m - 1) = m
        BY <2>0, <2>2, <3>1, <3>3 DEF Skip
      <4> QED
        BY <2>1, <2>2, <4>1
    <3> QED
      BY <3>2, <3>3
  <2> QED
    BY <2>1, <2>3, <2>4
<1> HIDE DEF r, out, u
<1>9. n \in [Prio -> Seq(Scx)]
  BY <1>1, <1>8
<1>10. ASSUME NEW t \in Prio PROVE IsRing(Scx, out.hook, out.rq.queue[t], n[t])
  <2>1. q.queue \in [Prio -> OrNull(Scx)]
    BY <1>1 DEF Rq
  <2>2. CASE t = p
    BY <1>1, <1>3, <1>6, <2>1, <2>2
  <2>3. CASE t # p
    <3>1. n[t] = o[t] /\ out.rq.queue[t] = q.queue[t] /\ IsRing(Scx, k, q.queue[t], o[t])
      BY <1>1, <1>6, <2>1, <2>3 DEF Listed
    <3>2. \A m \in DOMAIN o[t] : \A j \in DOMAIN s : s[j] # o[t][m]
      BY <1>1, <2>3 DEF Listed
    <3>3. \A m \in DOMAIN o[t] : /\ r.hook.next[o[t][m]] = k.next[o[t][m]]
                                 /\ r.hook.prev[o[t][m]] = k.prev[o[t][m]]
      BY <1>2, <1>7, <3>2
    <3> QED
      BY <1>6, <3>1, <3>3, RingKept, ScxAssumption
  <2> QED
    BY <2>2, <2>3
<1>11. \A t \in Prio : \A j \in DOMAIN n[t] : new[n[t][j]] = t
  <2> SUFFICES ASSUME NEW t \in Prio, NEW j \in DOMAIN n[t] PROVE new[n[t][j]] = t
    OBVIOUS
  <2>1. \E m \in DOMAIN o[t] : o[t][m] = n[t][j] /\ n[t][j] # e
    <3>1. CASE t = p
      <4>1. n[t] = u
        BY <1>1, <3>1
      <4> QED
        BY <1>8, <3>1, <4>1
    <3>2. CASE t # p
      <4>1. n[t] = o[t] /\ pr[o[t][j]] = t
        BY <1>1, <3>2 DEF Listed
      <4> QED
        BY <3>2, <4>1
    <3> QED
      BY <3>1, <3>2
  <2> QED
    BY <1>2, <2>1 DEF Listed
<1>12. \A x \in Scx : InList(out.hook, x) => \E j \in DOMAIN n[new[x]] : n[new[x]][j] = x
  <2> SUFFICES ASSUME NEW x \in Scx, InList(out.hook, x)
               PROVE  \E j \in DOMAIN n[new[x]] : n[new[x]][j] = x
    OBVIOUS
  <2>1. x # e /\ new[x] = pr[x] /\ \E j \in DOMAIN o[pr[x]] : o[pr[x]][j] = x
    BY <1>6, <1>7 DEF InList, Listed
  <2>2. pr[x] \in Prio
    BY <1>1
  <2>3. CASE pr[x] = p
    <3>1. n[pr[x]] = u
      BY <1>1, <2>3
    <3> QED
      BY <1>8, <2>1, <2>3, <3>1
  <2>4. CASE pr[x] # p
    <3>1. n[pr[x]] = o[pr[x]]
      BY <1>1, <2>2, <2>4
    <3> QED
      BY <2>1, <3>1
  <2> QED
    BY <2>3, <2>4
<1>13. Listed(out.hook, out.rq, new, n)
  BY <1>4, <1>9, <1>10, <1>11, <1>12 DEF Listed
<1>14. ~ InList(out.hook, e)
  BY <1>6, <1>7 DEF InList
<1> QED
  BY <1>13, <1>14 DEF out, u

-----------------------------------------------------------------------------
\* The orders are what the lists read as.
LEMMA OrderIs ==
    ASSUME NEW k, NEW q, NEW pr, NEW o, Listed(k, q, pr, o)
    PROVE  [p \in Prio |-> AsSeq(k, q.queue[p])] = o
<1>1. \A p \in Prio : AsSeq(k, q.queue[p]) = o[p]
  BY RingAsSeq, ScxAssumption DEF Listed
<1>2. o \in [Prio -> Seq(Scx)]
  BY DEF Listed
<1> QED
  BY <1>1, <1>2

\* While prio_highest is exact, the context it leads to is the one to choose.
LEMMA PickIsFirst ==
    ASSUME NEW k, NEW q, NEW pr, NEW o, Listed(k, q, pr, o), Exact(q)
    PROVE  NextToRun(q) = RunQueue!First(o)
<1>1. /\ q.highest \in Prio /\ o \in [Prio -> Seq(Scx)]
      /\ \A p \in Prio : q.queue[p] = HeadOf(o[p])
  BY DEF Listed, Rq, IsRing
<1>2. \A p \in Prio : o[p] # <<>> => o[p][1] \in Scx /\ o[p][1] # Nil
  BY <1>1, ScxAssumption
<1>3. \A p \in Prio : o[p] # <<>> <=> q.queue[p] # Nil
  BY <1>1, <1>2 DEF HeadOf
<1>4. CASE \A p \in Prio : o[p] = <<>>
  BY <1>1, <1>3, <1>4 DEF RunQueue!First, NextToRun
<1>5. CASE ~ \A p \in Prio : o[p] = <<>>
  <2> DEFINE Top(p) == o[p] # <<>> /\ \A r \in Prio : o[r] # <<>> => r <= p
  <2>1. Prio \subseteq Nat
    BY MaxPrioAssumption DEF Prio
  <2>2. Top(q.highest)
    BY <1>1, <1>3, <1>5, ExactUsed
  <2>3. ASSUME NEW p \in Prio, Top(p) PROVE p = q.highest
    <3>1. p \in Nat /\ q.highest \in Nat
      BY <1>1, <2>1
    <3>2. p <= q.highest /\ q.highest <= p
      BY <1>1, <2>2, <2>3
    <3> QED
      BY <3>1, <3>2
  <2>4. (CHOOSE p \in Prio : Top(p)) = q.highest
    BY <1>1, <2>2, <2>3
  <2>5. Head(o[q.highest]) = o[q.highest][1]
    BY <1>1, <2>2
  <2>6. NextToRun(q) = o[q.highest][1]
    BY <1>1, <2>2 DEF NextToRun, HeadOf
  <2>7. RunQueue!First(o) = Head(o[CHOOSE p \in Prio : Top(p)])
    BY <1>5 DEF RunQueue!First
  <2> QED
    BY <2>4, <2>5, <2>6, <2>7
<1> QED
  BY <1>4, <1>5

-----------------------------------------------------------------------------
\* prio_highest is raised by an enqueue and lowered by a dequeue as far as it has to be.
LEMMA EnqueueExact ==
    ASSUME NEW k \in Hook(Scx), NEW q \in Rq(Scx), Exact(q), NEW e \in Scx, NEW p \in Prio,
           NEW pos
    PROVE  Exact(Enqueue(k, q, e, p, pos).rq)
<1>1. CASE InList(k, e)
  BY <1>1 DEF Enqueue
<1>2. CASE ~ InList(k, e)
  <2> DEFINE r == Push(k, q.queue[p], e, pos)
             new == Enqueue(k, q, e, p, pos).rq
  <2>1. /\ q.queue \in [Prio -> OrNull(Scx)] /\ q.highest \in Prio /\ q.highest \in Nat
        /\ q.queue[p] \in OrNull(Scx) /\ \A t \in Prio : t \in Nat
    BY MaxPrioAssumption DEF Rq, Prio
  <2>2. r.head \in Scx /\ r.head # Nil
    BY <2>1, PushType, ScxAssumption
  <2>3. /\ new.queue = [q.queue EXCEPT ![p] = r.head]
        /\ new.highest = IF p > q.highest THEN p ELSE q.highest
    BY <1>2 DEF Enqueue
  <2> HIDE DEF new, r
  <2>4. Exact(new)
    <3>1. ASSUME NEW t \in Prio, new.queue[t] # Nil PROVE t <= new.highest
      <4>1. t = p \/ t <= q.highest
        BY <2>1, <2>3, <3>1 DEF Exact
      <4> QED
        BY <2>1, <2>3, <4>1
    <3>2. new.highest = 0 \/ new.queue[new.highest] # Nil
      BY <2>1, <2>2, <2>3 DEF Exact
    <3> QED
      BY <3>1, <3>2 DEF Exact
  <2> QED
    BY <2>4 DEF new
<1> QED
  BY <1>1, <1>2

LEMMA DequeueExact ==
    ASSUME NEW k \in Hook(Scx), NEW q \in Rq(Scx), Exact(q), NEW e \in Scx, NEW p \in Prio
    PROVE  Exact(ReadyDequeue(k, q, e, p).rq)
<1>1. CASE ~ InList(k, e)
  BY <1>1 DEF ReadyDequeue
<1>2. CASE InList(k, e)
  <2> DEFINE r == RemoveItem(k, q.queue[p], e)
             queue == [q.queue EXCEPT ![p] = r.head]
             new == ReadyDequeue(k, q, e, p).rq
             top == LowerHighest(queue, q.highest)
  <2>1. /\ q.queue \in [Prio -> OrNull(Scx)] /\ q.highest \in Prio /\ q.highest \in Nat
        /\ q.queue[p] \in OrNull(Scx) /\ \A t \in Prio : t \in Nat
    BY MaxPrioAssumption DEF Rq, Prio
  <2>2. q.queue[p] = Nil => r.head = Nil
    BY RemoveFromEmpty, ScxAssumption
  <2>3. new.queue = queue /\ new.highest = top
    BY <1>2 DEF ReadyDequeue
  <2> HIDE DEF r, new
  <2>4. \A t \in Prio : queue[t] # Nil => t <= q.highest
    BY <2>1, <2>2 DEF Exact
  <2> HIDE DEF queue
  <2>5. /\ top \in 0 .. q.highest
        /\ top = 0 \/ queue[top] # Nil
        /\ \A t \in top + 1 .. q.highest : queue[t] = Nil
    BY <2>1, LowerHighestStops
  <2> HIDE DEF top
  <2>6. \A t \in Prio : queue[t] # Nil => t <= top
    <3> SUFFICES ASSUME NEW t \in Prio, queue[t] # Nil PROVE t <= top
      OBVIOUS
    <3>1. t \in Nat /\ q.highest \in Nat /\ t <= q.highest
      BY <2>1, <2>4
    <3>2. top \in Nat
      BY <2>5, <3>1
    <3> QED
      BY <2>5, <3>1, <3>2
  <2>7. Exact(new)
    BY <2>3, <2>5, <2>6 DEF Exact
  <2> QED
    BY <2>7 DEF new
<1> QED
  BY <1>1, <1>2

\* A linked item that is requeued passes its turn on.
LEMMA TurnListed ==
    ASSUME NEW k, NEW q, NEW pr, NEW o, Listed(k, q, pr, o), Exact(q), NEW e \in Scx,
           NEW i \in DOMAIN o[pr[e]], o[pr[e]][i] = e
    PROVE  LET out == Requeue(k, q, e, pr[e])
           IN  /\ Listed(out.hook, out.rq, pr,
                         [o EXCEPT ![pr[e]] = TurnTo(o[pr[e]], i)])
               /\ Exact(out.rq)
<1> DEFINE p == pr[e]
           s == o[p]
           u == TurnTo(s, i)
           out == Requeue(k, q, e, p)
           n == [o EXCEPT ![p] = u]
<1>1. /\ k \in Hook(Scx) /\ q \in Rq(Scx) /\ pr \in [Scx -> Prio] /\ p \in Prio
      /\ o \in [Prio -> Seq(Scx)] /\ s \in Seq(Scx) /\ IsRing(Scx, k, q.queue[p], s)
      /\ s[i] = e /\ i \in DOMAIN s
  BY DEF Listed
<1>2. InList(k, e) /\ q.queue[p] # Nil
  BY <1>1, ListedLinked
<1>3. out.hook = k /\ out.rq = [q EXCEPT !.queue[p] = k.next[e]]
  BY <1>2 DEF Requeue
<1>4. out.rq \in Rq(Scx)
  BY <1>1, RequeueType
<1>5. /\ IsRing(Scx, k, k.next[e], u)
      /\ \A x : (\E j \in DOMAIN u : u[j] = x) <=> \E j \in DOMAIN s : s[j] = x
  <2> HIDE DEF s, u, p
  <2>1. k \in Hook(Scx) /\ IsRing(Scx, k, q.queue[p], s) /\ i \in DOMAIN s /\ s[i] = e
    BY <1>1
  <2>2. /\ IsRing(Scx, k, k.next[s[i]], TurnTo(s, i))
        /\ \A x : (\E j \in DOMAIN TurnTo(s, i) : TurnTo(s, i)[j] = x)
                     <=> \E j \in DOMAIN s : s[j] = x
    BY ONLY <2>1, TurnRing, ScxAssumption
  <2> QED
    BY <2>1, <2>2 DEF u
<1>6. q.queue \in [Prio -> OrNull(Scx)] /\ q.highest \in Prio
  BY <1>1 DEF Rq
<1>7. out.rq.queue = [q.queue EXCEPT ![p] = k.next[e]] /\ out.rq.highest = q.highest
  BY <1>1, <1>3 DEF Rq
<1> HIDE DEF out, u
<1>8. u \in Seq(Scx) /\ n \in [Prio -> Seq(Scx)]
  BY <1>1, <1>5 DEF IsRing
<1>9. \A t \in Prio : IsRing(Scx, k, out.rq.queue[t], n[t])
  BY <1>1, <1>5, <1>6, <1>7 DEF Listed
<1>10. \A t \in Prio : \A j \in DOMAIN n[t] : pr[n[t][j]] = t
  <2> SUFFICES ASSUME NEW t \in Prio, NEW j \in DOMAIN n[t] PROVE pr[n[t][j]] = t
    OBVIOUS
  <2>1. CASE t = p
    <3>1. n[t] = u /\ \E m \in DOMAIN s : s[m] = n[t][j]
      BY <1>1, <1>5, <2>1
    <3> QED
      BY <2>1, <3>1 DEF Listed
  <2>2. CASE t # p
    BY <1>1, <2>2 DEF Listed
  <2> QED
    BY <2>1, <2>2
<1>11. \A x \in Scx : InList(k, x) => \E j \in DOMAIN n[pr[x]] : n[pr[x]][j] = x
  <2> SUFFICES ASSUME NEW x \in Scx, InList(k, x)
               PROVE  \E j \in DOMAIN n[pr[x]] : n[pr[x]][j] = x
    OBVIOUS
  <2>1. pr[x] \in Prio /\ \E j \in DOMAIN o[pr[x]] : o[pr[x]][j] = x
    BY <1>1 DEF Listed
  <2>2. CASE pr[x] = p
    <3>1. n[pr[x]] = u
      BY <1>1, <2>2
    <3> QED
      BY <1>5, <2>1, <2>2, <3>1
  <2>3. CASE pr[x] # p
    <3>1. n[pr[x]] = o[pr[x]]
      BY <1>1, <2>1, <2>3
    <3> QED
      BY <2>1, <3>1
  <2> QED
    BY <2>2, <2>3
<1>12. Listed(k, out.rq, pr, n)
  BY <1>1, <1>4, <1>8, <1>9, <1>10, <1>11 DEF Listed
<1>13. Exact(out.rq)
  <2>1. \A t \in Prio : out.rq.queue[t] # Nil <=> q.queue[t] # Nil
    BY <1>1, <1>2, <1>6, <1>7 DEF InList
  <2> QED
    BY <1>6, <1>7, <2>1 DEF Exact
<1> QED
  BY <1>3, <1>12, <1>13 DEF out, u

-----------------------------------------------------------------------------
\* Some orders are in the lists.
RqInv == \E o : Listed(hook, rq, prio, o) /\ Exact(rq)

\* What one operation does to the orders.
Does(e, o, n) ==
    LET p == prio[e]
    IN  \/ n = o
        \/ \E pos : (\A t \in Prio : \A i \in DOMAIN o[t] : o[t][i] # e)
                    /\ n = [o EXCEPT ![p] = Put(o[p], e, pos)]
        \/ \E i \in DOMAIN o[p] : o[p][i] = e /\
              \/ n = [o EXCEPT ![p] = RemoveAt(o[p], i)]
              \/ n = [o EXCEPT ![p] = TurnTo(o[p], i)]
              \/ \E r \in Prio :
                    LET out == [o EXCEPT ![p] = RemoveAt(o[p], i)]
                    IN  n = [out EXCEPT ![r] = Put(out[r], e, "Front")]

\* Behind an operation the lists hold the orders it makes, and prio_highest is exact.
LEMMA OpListed ==
    ASSUME NEW o, Listed(hook, rq, prio, o), Exact(rq), NEW e \in Scx,
           \/ EnqueueReady(e) \/ DequeueReady(e) \/ EndOfSlice(e)
           \/ \E p \in Prio : ChangePrio(e, p)
    PROVE  \E n : Listed(hook', rq', prio', n) /\ Exact(rq') /\ Does(e, o, n)
<1>0. /\ hook \in Hook(Scx) /\ rq \in Rq(Scx) /\ prio \in [Scx -> Prio] /\ prio[e] \in Prio
      /\ o \in [Prio -> Seq(Scx)]
  BY DEF Listed
<1>1. CASE ~ InList(hook, e)
  <2>1. \A t \in Prio : \A i \in DOMAIN o[t] : o[t][i] # e
    BY <1>1, ListedLinked
  <2>2. ASSUME NEW pos, prio' = prio, hook' = Enqueue(hook, rq, e, prio[e], pos).hook,
               rq' = Enqueue(hook, rq, e, prio[e], pos).rq
        PROVE  \E n : Listed(hook', rq', prio', n) /\ Exact(rq') /\ Does(e, o, n)
    <3> DEFINE n == [o EXCEPT ![prio[e]] = Put(o[prio[e]], e, pos)]
    <3>1. Listed(hook', rq', prio, n)
      BY <1>1, <2>2, EnqueueListed
    <3>2. Exact(rq')
      BY <1>0, <2>2, EnqueueExact
    <3>3. Does(e, o, n)
      BY <2>1 DEF Does
    <3> QED
      BY <2>2, <3>1, <3>2, <3>3
  <2>3. CASE EnqueueReady(e)
    BY <2>2, <2>3 DEF EnqueueReady, Becomes, ReadyEnqueue
  <2>4. CASE EndOfSlice(e)
    BY <1>1, <2>2, <2>4 DEF EndOfSlice, Becomes, Requeue
  <2>5. CASE DequeueReady(e)
    <3>1. hook' = hook /\ rq' = rq /\ prio' = prio
      BY <1>1, <2>5 DEF DequeueReady, Becomes, ReadyDequeue
    <3> QED
      BY <3>1 DEF Does
  <2>6. CASE \E p \in Prio : ChangePrio(e, p)
    <3>1. PICK p \in Prio : ChangePrio(e, p)
      BY <2>6
    <3>2. hook' = hook /\ rq' = rq /\ prio' = [prio EXCEPT ![e] = p]
      BY <1>1, <3>1 DEF ChangePrio
    <3>3. \A x \in Scx : x # e => prio'[x] = prio[x]
      BY <1>0, <3>2
    <3>4. prio' \in [Scx -> Prio]
      BY <1>0, <3>2
    <3>5. \A t \in Prio : \A i \in DOMAIN o[t] : prio'[o[t][i]] = t
      BY <2>1, <3>3, ListedLinked DEF Listed
    <3>6. \A x \in Scx : InList(hook, x) => \E i \in DOMAIN o[prio'[x]] : o[prio'[x]][i] = x
      BY <1>1, <3>3 DEF Listed
    <3>7. Listed(hook', rq', prio', o)
      BY <3>2, <3>4, <3>5, <3>6 DEF Listed
    <3> QED
      BY <3>2, <3>7 DEF Does
  <2> QED
    BY <2>3, <2>4, <2>5, <2>6
<1>2. CASE InList(hook, e)
  <2>1. PICK i \in DOMAIN o[prio[e]] : o[prio[e]][i] = e
    BY <1>2 DEF Listed
  <2>2. CASE EnqueueReady(e)
    <3>1. hook' = hook /\ rq' = rq /\ prio' = prio
      BY <1>2, <2>2 DEF EnqueueReady, Becomes, ReadyEnqueue, Enqueue
    <3> QED
      BY <3>1 DEF Does
  <2>3. CASE DequeueReady(e)
    <3> DEFINE n == [o EXCEPT ![prio[e]] = RemoveAt(o[prio[e]], i)]
               out == ReadyDequeue(hook, rq, e, prio[e])
    <3>1. hook' = out.hook /\ rq' = out.rq /\ prio' = prio
      BY <2>3 DEF DequeueReady, Becomes
    <3>2. Listed(out.hook, out.rq, prio, n)
      BY <1>0, <2>1, DequeueListed
    <3>3. Exact(rq')
      BY <1>0, <3>1, DequeueExact
    <3>4. Does(e, o, n)
      BY <2>1 DEF Does
    <3> QED
      BY <3>1, <3>2, <3>3, <3>4
  <2>4. CASE EndOfSlice(e)
    <3> DEFINE n == [o EXCEPT ![prio[e]] = TurnTo(o[prio[e]], i)]
               out == Requeue(hook, rq, e, prio[e])
    <3>1. hook' = out.hook /\ rq' = out.rq /\ prio' = prio
      BY <2>4 DEF EndOfSlice, Becomes
    <3>2. Listed(out.hook, out.rq, prio, n) /\ Exact(out.rq)
      BY <2>1, TurnListed
    <3>3. Does(e, o, n)
      BY <2>1 DEF Does
    <3> QED
      BY <3>1, <3>2, <3>3
  <2>5. CASE \E p \in Prio : ChangePrio(e, p)
    <3>1. PICK p \in Prio : ChangePrio(e, p)
      BY <2>5
    <3> DEFINE out == ReadyDequeue(hook, rq, e, prio[e])
               in == Enqueue(out.hook, out.rq, e, p, "Front")
               m == [o EXCEPT ![prio[e]] = RemoveAt(o[prio[e]], i)]
               n == [m EXCEPT ![p] = Put(m[p], e, "Front")]
    <3>2. prio' = [prio EXCEPT ![e] = p] /\ hook' = in.hook /\ rq' = in.rq
      BY <1>2, <3>1 DEF ChangePrio, Becomes, ReadyEnqueue
    <3>3. prio' \in [Scx -> Prio] /\ prio'[e] = p /\ \A x \in Scx : x # e => prio'[x] = prio[x]
      BY <1>0, <3>2
    <3>4. Listed(out.hook, out.rq, prio', m) /\ ~ InList(out.hook, e)
      BY <2>1, <3>3, DequeueListed
    <3>5. Exact(out.rq) /\ out.hook \in Hook(Scx) /\ out.rq \in Rq(Scx)
      BY <1>0, DequeueExact, ReadyDequeueType
    <3> HIDE DEF out, m
    <3>6. Listed(in.hook, in.rq, prio', n)
      BY <3>3, <3>4, EnqueueListed
    <3>7. Exact(in.rq)
      BY <3>5, EnqueueExact
    <3>8. Does(e, o, n)
      BY <2>1 DEF Does, m
    <3> QED
      BY <3>2, <3>6, <3>7, <3>8
  <2> QED
    BY <2>2, <2>3, <2>4, <2>5
<1> QED
  BY <1>1, <1>2

LEMMA RqInit == QueueInit => RqInv /\ Order = [p \in Prio |-> <<>>] /\ NextToRun(rq) = Nil
<1> SUFFICES ASSUME QueueInit PROVE RqInv /\ Order = [p \in Prio |-> <<>>] /\ NextToRun(rq) = Nil
  OBVIOUS
<1> DEFINE o == [p \in Prio |-> <<>>]
<1>1. /\ hook.next = [e \in Scx |-> Nil] /\ hook.prev = [e \in Scx |-> Nil]
      /\ hook \in Hook(Scx) /\ rq \in Rq(Scx) /\ rq.highest = 0 /\ prio \in [Scx -> Prio]
      /\ rq.queue = [p \in Prio |-> Nil] /\ 0 \in Prio
  BY MaxPrioAssumption DEF QueueInit, NoHooks, EmptyRq, Hook, Rq, OrNull, Prio
<1>2. \A p \in Prio : o[p] = <<>> /\ DOMAIN o[p] = {} /\ IsRing(Scx, hook, rq.queue[p], o[p])
  BY <1>1 DEF IsRing, Once, Linked, HeadOf
<1>3. o \in [Prio -> Seq(Scx)]
  OBVIOUS
<1> HIDE DEF o
<1>4. Listed(hook, rq, prio, o)
  BY <1>1, <1>2, <1>3 DEF Listed, InList
<1>5. Exact(rq)
  BY <1>1 DEF Exact
<1>6. Order = o
  BY <1>4, OrderIs DEF Order
<1>7. NextToRun(rq) = Nil
  BY <1>1 DEF NextToRun
<1> QED
  BY <1>4, <1>5, <1>6, <1>7 DEF RqInv, o

LEMMA RqStep == RqInv /\ [QueueNext]_queueVars => RqInv'
<1> SUFFICES ASSUME RqInv, [QueueNext]_queueVars PROVE RqInv'
  OBVIOUS
<1>1. CASE UNCHANGED queueVars
  BY <1>1 DEF queueVars, RqInv
<1>2. CASE QueueNext
  BY <1>2, OpListed DEF QueueNext, RqInv
<1> QED
  BY <1>1, <1>2

\* The variables keep their types.
THEOREM ReadyQueueTypeCorrect == QueueSpec => []QueueTypeOK
<1>1. QueueInit => RqInv
  BY RqInit
<1>2. RqInv => QueueTypeOK
  BY DEF RqInv, Listed, Hook, Rq, OrNull, QueueTypeOK
<1> QED
  BY <1>1, <1>2, RqStep, PTL DEF QueueSpec

\* prio_highest leads to the most urgent context, whatever sequence of insertions, removals,
\* rotations and priority changes the kernel applies to the queue.
THEOREM HighestExact == QueueSpec => []HighestIsExact
<1>1. QueueInit => RqInv
  BY RqInit
<1>2. RqInv => HighestIsExact
  BY ExactUsed DEF RqInv, Listed, Rq, HighestIsExact
<1> QED
  BY <1>1, <1>2, RqStep, PTL DEF QueueSpec

\* Every operation on the lists is an operation of the abstract run queue, and next_to_run()
\* is its choice.
THEOREM ReadyQueueImplements == QueueSpec => RunQueue!Spec /\ ImplementsRunQueue
<1>1. QueueInit => RqInv /\ RunQueue!Init
  BY RqInit DEF RunQueue!Init
<1>2. ASSUME RqInv, [QueueNext]_queueVars PROVE [RunQueue!Next]_(RunQueue!vars)
  <2>1. CASE UNCHANGED queueVars
    BY <2>1 DEF queueVars, RunQueue!vars, Order
  <2>2. CASE QueueNext
    <3>1. PICK o : Listed(hook, rq, prio, o) /\ Exact(rq)
      BY <1>2 DEF RqInv
    <3>2. PICK e \in Scx : \/ EnqueueReady(e) \/ DequeueReady(e) \/ EndOfSlice(e)
                           \/ \E p \in Prio : ChangePrio(e, p)
      BY <2>2 DEF QueueNext
    <3>3. PICK n : Listed(hook', rq', prio', n) /\ Exact(rq') /\ Does(e, o, n)
      BY <3>1, <3>2, OpListed
    <3>4. Order = o /\ NextToRun(rq) = RunQueue!First(o)
      BY <3>1, OrderIs, PickIsFirst DEF Order
    <3>5. Order' = n /\ NextToRun(rq') = RunQueue!First(n)
      BY <3>3, OrderIs, PickIsFirst DEF Order
    <3>6. /\ prio[e] \in Prio /\ o \in [Prio -> Seq(Scx)]
          /\ \A t \in Prio : \A i \in DOMAIN o[t] : i \in 1 .. Len(o[t])
          /\ \A t \in Prio : \A i \in 1 .. Len(o[t]) : i \in DOMAIN o[t]
      BY <3>1 DEF Listed
    <3> DEFINE p == prio[e]
    <3>7. CASE n = o
      BY <3>4, <3>5, <3>7 DEF RunQueue!vars
    <3>8. ASSUME NEW pos, \A t \in Prio : \A i \in DOMAIN o[t] : o[t][i] # e,
                 n = [o EXCEPT ![p] = Put(o[p], e, pos)]
          PROVE  RunQueue!Insert(e, p)
      <4>1. ~ RunQueue!Queued(e)
        BY <3>4, <3>6, <3>8 DEF RunQueue!Queued, RunQueue!Contains
      <4>2. CASE pos = "Front"
        BY <3>4, <3>5, <3>8, <4>1, <4>2 DEF RunQueue!Insert, RunQueue!Set, Put
      <4>3. CASE pos # "Front"
        BY <3>4, <3>5, <3>8, <4>1, <4>3 DEF RunQueue!Insert, RunQueue!Set, Put
      <4> QED
        BY <4>2, <4>3
    <3>9. ASSUME NEW i \in DOMAIN o[p], o[p][i] = e, n = [o EXCEPT ![p] = RemoveAt(o[p], i)]
          PROVE  RunQueue!Withdraw(e, p)
      BY <3>4, <3>5, <3>9 DEF RunQueue!Withdraw, RunQueue!Set, RunQueue!RemoveAt, RemoveAt
    <3>10. ASSUME NEW i \in DOMAIN o[p], o[p][i] = e,
                  n = [o EXCEPT ![p] = TurnTo(o[p], i)]
           PROVE  RunQueue!Turn(e, p)
      BY <3>4, <3>5, <3>10 DEF RunQueue!Turn, RunQueue!Set, RunQueue!TurnTo, TurnTo
    <3>11. ASSUME NEW i \in DOMAIN o[p], o[p][i] = e, NEW r \in Prio, NEW out,
                  out = [o EXCEPT ![p] = RemoveAt(o[p], i)],
                  n = [out EXCEPT ![r] = Put(out[r], e, "Front")]
           PROVE  RunQueue!Move(e, p, r)
      BY <3>4, <3>5, <3>11 DEF RunQueue!Move, Put, RunQueue!RemoveAt, RemoveAt
    <3>12. n = o \/ RunQueue!Insert(e, p) \/ RunQueue!Withdraw(e, p) \/ RunQueue!Turn(e, p)
              \/ \E r \in Prio : RunQueue!Move(e, p, r)
      BY <3>3, <3>8, <3>9, <3>10, <3>11 DEF Does
    <3> QED
      BY <3>6, <3>7, <3>12 DEF RunQueue!Next
  <2> QED
    BY <1>2, <2>1, <2>2
<1>3. [RunQueue!Next]_(RunQueue!vars) => [UNCHANGED queueVars \/ RunQueue!Next]_(RunQueue!vars)
  OBVIOUS
<1> QED
  BY <1>1, <1>2, <1>3, RqStep, PTL DEF QueueSpec, ImplementsRunQueue, RunQueue!Spec

=============================================================================
