--------------------------- MODULE PrioSchedProofs ---------------------------
(***************************************************************************)
(* Theorems about PrioSched for every number of workers, script of sleeps, *)
(* length of slices and number of queues: IInv is inductive, and the run   *)
(* queues, the sleep list, the wake-ups and the choice of the next process *)
(* are right in every behaviour without a tick in the window "asleep".     *)
(***************************************************************************)
EXTENDS PrioSched, FiniteSetTheorems, TLAPS

(* Lists.                                                                  *)

\* The ranks of a finite set of numbers run through 1 .. its size, and grow
\* with the numbers.
LEMMA RankProps ==
  ASSUME NEW at, at \subseteq Nat, IsFiniteSet(at)
  PROVE  LET rank(i) == Cardinality({j \in at : j <= i})
         IN  /\ Cardinality(at) \in Nat
             /\ \A i \in at : rank(i) \in 1 .. Cardinality(at)
             /\ \A i, j \in at : i < j => rank(i) < rank(j)
             /\ \A k \in 1 .. Cardinality(at) : \E i \in at : rank(i) = k
<1> DEFINE below(i) == {j \in at : j <= i}
           rank(i) == Cardinality(below(i))
           n == Cardinality(at)
<1>1. n \in Nat
  BY FS_CardinalityType
<1>2. ASSUME NEW i \in at
      PROVE  IsFiniteSet(below(i)) /\ rank(i) \in Nat /\ rank(i) <= n
  <2>1. below(i) \in SUBSET at
    OBVIOUS
  <2>2. IsFiniteSet(below(i)) /\ rank(i) <= n
    BY <2>1, FS_Subset
  <2>3. QED BY <2>2, FS_CardinalityType
<1>3. ASSUME NEW i \in at PROVE rank(i) \in 1 .. n
  <2>1. below(i) # {}
    BY i \in Nat
  <2>2. rank(i) # 0
    BY <1>2, <2>1, FS_EmptySet
  <2>3. rank(i) \in Nat /\ rank(i) <= n
    BY <1>2
  <2> HIDE DEF rank, n
  <2>4. QED BY <1>1, <2>2, <2>3
<1>4. ASSUME NEW i \in at, NEW j \in at, i < j
      PROVE  rank(i) < rank(j)
  <2>1. i \in Nat /\ j \in Nat
    OBVIOUS
  <2>2. below(i) \in SUBSET below(j) /\ j \in below(j) /\ j \notin below(i)
    <3>1. \A x \in at : x \in Nat
      OBVIOUS
    <3>2. \A x \in at : x <= i => x <= j
      BY <2>1, <3>1, <1>4
    <3>3. ~ (j <= i) /\ j <= j
      BY <2>1, <1>4
    <3>4. QED BY <3>2, <3>3
  <2>3. IsFiniteSet(below(j))
    BY <1>2
  <2>4. rank(i) <= rank(j) /\ rank(i) # rank(j)
    BY <2>2, <2>3, FS_Subset
  <2> HIDE DEF below, rank
  <2>5. QED BY <1>2, <2>4
<1>5. ASSUME NEW k \in 1 .. n PROVE \E i \in at : rank(i) = k
  <2> DEFINE f == [i \in at |-> rank(i)]
  <2>1. f \in [at -> 1 .. n]
    <3> HIDE DEF rank, n
    <3>1. QED BY <1>3
  <2>2. \A i, j \in at : f[i] = f[j] => i = j
    <3> SUFFICES ASSUME NEW i \in at, NEW j \in at, rank(i) = rank(j), i # j
                 PROVE  FALSE
      OBVIOUS
    <3>1. i \in Nat /\ j \in Nat
      OBVIOUS
    <3>2. CASE i < j
      <4>1. rank(i) < rank(j) BY <1>4, <3>2
      <4>2. rank(i) \in Nat /\ rank(j) \in Nat BY <1>2
      <4> HIDE DEF rank
      <4>3. QED BY <4>1, <4>2
    <3>3. CASE j < i
      <4>1. rank(j) < rank(i) BY <1>4, <3>3
      <4>2. rank(i) \in Nat /\ rank(j) \in Nat BY <1>2
      <4> HIDE DEF rank
      <4>3. QED BY <4>1, <4>2
    <3>4. QED BY <3>1, <3>2, <3>3
  <2>3. f \in Injection(at, 1 .. n)
    BY <2>1, <2>2 DEF Injection, IsInjective
  <2>4. IsFiniteSet(1 .. n) /\ Cardinality(1 .. n) = n
    BY <1>1, FS_Interval
  <2>5. f \in Surjection(at, 1 .. n)
    BY <2>3, <2>4, FS_Injection
  <2>6. PICK i \in at : f[i] = k
    BY <2>5 DEF Surjection
  <2>7. QED BY <2>6
<1>6. QED
  <2> HIDE DEF n
  <2>1. \A i \in at : rank(i) \in 1 .. n
    <3> HIDE DEF rank
    <3>1. QED BY <1>3
  <2>2. /\ n \in Nat
        /\ \A i \in at : rank(i) \in 1 .. n
        /\ \A i, j \in at : i < j => rank(i) < rank(j)
        /\ \A k \in 1 .. n : \E i \in at : rank(i) = k
    <3> HIDE DEF rank
    <3>1. QED BY <1>1, <2>1, <1>4, <1>5
  <2>3. QED BY <2>2 DEF n

\* What Kept returns: a list of exactly the members of q that are in S, in
\* the order of q.
LEMMA KeptProps ==
  ASSUME NEW T, NEW q \in Seq(T), NEW S
  PROVE  /\ Kept(q, S) \in Seq(T)
         /\ Members(Kept(q, S)) = Members(q) \cap S
         /\ \A k, l \in DOMAIN Kept(q, S) : k < l =>
              \E i, j \in DOMAIN q : /\ i < j
                                     /\ Kept(q, S)[k] = q[i]
                                     /\ Kept(q, S)[l] = q[j]
<1> DEFINE at == {i \in DOMAIN q : q[i] \in S}
           rank(i) == Cardinality({j \in at : j <= i})
           n == Cardinality(at)
           pos(k) == CHOOSE i \in at : rank(i) = k
           r == Kept(q, S)
<1>1. DOMAIN q = 1 .. Len(q) /\ Len(q) \in Nat
  OBVIOUS
<1>2. at \subseteq Nat /\ IsFiniteSet(at)
  <2>1. IsFiniteSet(1 .. Len(q))
    BY <1>1, FS_Interval
  <2>2. at \in SUBSET (1 .. Len(q))
    BY <1>1
  <2>3. QED BY <2>1, <2>2, <1>1, FS_Subset
<1> HIDE DEF at
<1>3. /\ n \in Nat
      /\ \A i \in at : rank(i) \in 1 .. n
      /\ \A i, j \in at : i < j => rank(i) < rank(j)
      /\ \A k \in 1 .. n : \E i \in at : rank(i) = k
  BY <1>2, RankProps
<1>4. r = [k \in 1 .. n |-> q[pos(k)]]
  BY DEF Kept, at
<1> HIDE DEF n, rank, r
<1>5. \A k \in 1 .. n : pos(k) \in at /\ rank(pos(k)) = k
  BY <1>3
<1> HIDE DEF pos
<1>6. \A i \in at : i \in DOMAIN q /\ q[i] \in T /\ q[i] \in S
  BY DEF at
<1>7. r \in Seq(T) /\ DOMAIN r = 1 .. n /\ Len(r) = n
  BY <1>3, <1>4, <1>5, <1>6
<1>8. \A k \in 1 .. n : r[k] = q[pos(k)]
  BY <1>4
<1>9. Members(r) \subseteq Members(q) \cap S
  BY <1>5, <1>6, <1>7, <1>8 DEF Members
<1>10. ASSUME NEW x \in Members(q) \cap S PROVE x \in Members(r)
  <2>1. PICK i \in at : q[i] = x
    BY DEF Members, at
  <2>2. rank(i) \in 1 .. n
    BY <1>3
  <2> DEFINE j == pos(rank(i))
  <2>3. j \in at /\ rank(j) = rank(i)
    BY <2>2, <1>5
  <2> HIDE DEF j
  <2>4. i = j
    <3>1. i \in Nat /\ j \in Nat /\ rank(i) \in Nat /\ rank(j) \in Nat
      BY <1>2, <1>3, <2>2, <2>3
    <3>2. ~ (i < j) /\ ~ (j < i)
      BY <1>3, <2>3, <3>1
    <3>3. QED BY <3>1, <3>2
  <2>5. r[rank(i)] = x
    BY <2>1, <2>2, <2>4, <1>8 DEF j
  <2>6. QED BY <2>2, <2>5, <1>7 DEF Members
<1>11. ASSUME NEW k \in DOMAIN r, NEW l \in DOMAIN r, k < l
       PROVE  \E i, j \in DOMAIN q : i < j /\ r[k] = q[i] /\ r[l] = q[j]
  <2>1. k \in 1 .. n /\ l \in 1 .. n
    BY <1>7
  <2> DEFINE i == pos(k)
             j == pos(l)
  <2>2. /\ i \in at /\ j \in at /\ rank(i) = k /\ rank(j) = l
        /\ r[k] = q[i] /\ r[l] = q[j]
    BY <2>1, <1>5, <1>8
  <2> HIDE DEF i, j
  <2>3. i < j
    <3>1. i \in Nat /\ j \in Nat
      BY <2>2, <1>2
    <3>2. CASE j < i
      BY <3>2, <2>1, <2>2, <1>3, <1>11
    <3>3. CASE i = j
      BY <3>3, <2>1, <2>2, <1>11
    <3>4. QED BY <3>1, <3>2, <3>3
  <2>4. QED BY <2>2, <2>3, <1>6
<1>12. QED
  BY <1>7, <1>9, <1>10, <1>11 DEF r

\* The queues of rq that p is linked into.
Linked(rq, p) == {i \in Queues : p \in Members(rq[i])}

\* The members of q come in the order of what is left of their times.
Sorted(q, lf) == \A i, j \in DOMAIN q : i < j => lf[q[i]] <= lf[q[j]]

LEMMA ConcatProps ==
  ASSUME NEW T, NEW a \in Seq(T), NEW b \in Seq(T)
  PROVE  /\ a \o b \in Seq(T)
         /\ Members(a \o b) = Members(a) \cup Members(b)
<1>1. /\ a \o b \in Seq(T)
      /\ Len(a \o b) = Len(a) + Len(b)
      /\ Len(a) \in Nat /\ Len(b) \in Nat
      /\ DOMAIN a = 1 .. Len(a) /\ DOMAIN b = 1 .. Len(b)
  OBVIOUS
<1>2. DOMAIN (a \o b) = 1 .. Len(a) + Len(b)
  BY <1>1
<1>3. \A i \in 1 .. Len(a) + Len(b) :
         (a \o b)[i] = IF i <= Len(a) THEN a[i] ELSE b[i - Len(a)]
  OBVIOUS
<1> DEFINE c == a \o b
           m == Len(a)
           n == Len(b)
<1>4. /\ DOMAIN c = 1 .. m + n /\ DOMAIN a = 1 .. m /\ DOMAIN b = 1 .. n
      /\ m \in Nat /\ n \in Nat
      /\ \A i \in 1 .. m + n : c[i] = IF i <= m THEN a[i] ELSE b[i - m]
  BY <1>1, <1>2, <1>3
<1> HIDE DEF c, m, n
<1>5. \A i \in 1 .. m : i \in 1 .. m + n /\ c[i] = a[i]
  BY <1>4
<1>6. \A i \in 1 .. n : i + m \in 1 .. m + n /\ c[i + m] = b[i]
  BY <1>4
<1>7. \A i \in 1 .. m + n : c[i] \in Members(a) \cup Members(b)
  <2>1. SUFFICES ASSUME NEW i \in 1 .. m + n
                 PROVE  c[i] \in Members(a) \cup Members(b)
    OBVIOUS
  <2>2. CASE i <= m
    BY <2>2, <1>4 DEF Members
  <2>3. CASE ~ (i <= m)
    <3>1. i - m \in 1 .. n
      BY <2>3, <1>4
    <3>2. QED BY <2>3, <3>1, <1>4 DEF Members
  <2>4. QED BY <2>2, <2>3
<1>8. Members(c) = Members(a) \cup Members(b)
  <2>1. Members(c) \subseteq Members(a) \cup Members(b)
    <3> HIDE DEF Members
    <3>1. \A x \in Members(c) : \E i \in 1 .. m + n : x = c[i]
      BY <1>4 DEF Members
    <3>2. QED BY <3>1, <1>7
  <2>2. Members(a) \subseteq Members(c)
    BY <1>4, <1>5 DEF Members
  <2>3. Members(b) \subseteq Members(c)
    <3>1. SUFFICES ASSUME NEW i \in 1 .. n PROVE b[i] \in Members(c)
      BY <1>4 DEF Members
    <3>2. i + m \in DOMAIN c /\ c[i + m] = b[i]
      BY <1>4, <1>6
    <3>3. QED BY <3>2 DEF Members
  <2>4. QED BY <2>1, <2>2, <2>3
<1>9. QED BY <1>1, <1>8 DEF c

LEMMA UnlinkProps ==
  ASSUME NEW T \in SUBSET Procs, NEW q \in Seq(T), NEW p
  PROVE  Unlink(q, p) \in Seq(T) /\ Members(Unlink(q, p)) = Members(q) \ {p}
<1>1. Members(q) \subseteq Procs
  BY DEF Members
<1>2. QED BY <1>1, KeptProps DEF Unlink

LEMMA UnlinkAllProps ==
  ASSUME NEW rq \in [Queues -> Seq(Procs)], NEW p
  PROVE  /\ UnlinkAll(rq, p) \in [Queues -> Seq(Procs)]
         /\ \A x : Linked(UnlinkAll(rq, p), x) =
                     IF x = p THEN {} ELSE Linked(rq, x)
<1>1. \A i \in Queues : /\ Unlink(rq[i], p) \in Seq(Procs)
                        /\ Members(Unlink(rq[i], p)) = Members(rq[i]) \ {p}
  BY UnlinkProps
<1>2. QED BY <1>1 DEF UnlinkAll, Linked

LEMMA EnqueueProps ==
  ASSUME NEW rq \in [Queues -> Seq(Procs)], NEW p \in Procs,
         NEW prio \in Nat, proc_getpos(prio) \in Queues
  PROVE  /\ Enqueue(rq, p, prio) \in [Queues -> Seq(Procs)]
         /\ \A x : Linked(Enqueue(rq, p, prio), x) =
                     IF x = p THEN {proc_getpos(prio)} ELSE Linked(rq, x)
<1> DEFINE ua == UnlinkAll(rq, p)
           pos == proc_getpos(prio)
<1>1. /\ ua \in [Queues -> Seq(Procs)]
      /\ \A x : Linked(ua, x) = IF x = p THEN {} ELSE Linked(rq, x)
  BY UnlinkAllProps
<1> HIDE DEF ua
<1>2. <<p>> \in Seq(Procs) /\ Members(<<p>>) = {p}
  BY DEF Members
<1>3. Append(ua[pos], p) = ua[pos] \o <<p>>
  BY <1>1
<1>4. /\ Append(ua[pos], p) \in Seq(Procs)
      /\ Members(Append(ua[pos], p)) = Members(ua[pos]) \cup {p}
  <2>1. ua[pos] \in Seq(Procs)
    BY <1>1
  <2> DEFINE u == ua[pos]
             w == <<p>>
  <2>2. u \in Seq(Procs) /\ w \in Seq(Procs)
    BY <2>1, <1>2
  <2> HIDE DEF u, w
  <2>3. u \o w \in Seq(Procs) /\ Members(u \o w) = Members(u) \cup Members(w)
    BY <2>2, ConcatProps
  <2>4. Append(ua[pos], p) = u \o w /\ Members(w) = {p}
    BY <1>2, <1>3 DEF u, w
  <2>5. QED BY <2>3, <2>4 DEF u
<1>5. Enqueue(rq, p, prio) = [ua EXCEPT ![pos] = Append(ua[pos], p)]
  BY DEF Enqueue, ua
<1> HIDE DEF pos
<1>6. Enqueue(rq, p, prio) \in [Queues -> Seq(Procs)]
  BY <1>1, <1>4, <1>5
<1>7. \A i \in Queues : Members(Enqueue(rq, p, prio)[i]) =
         IF i = pos THEN Members(ua[i]) \cup {p} ELSE Members(ua[i])
  BY <1>1, <1>4, <1>5
<1>8. pos \in Queues
  BY DEF pos
<1>9. \A x : Linked(Enqueue(rq, p, prio), x) =
               IF x = p THEN {pos} ELSE Linked(rq, x)
  <2> SUFFICES ASSUME NEW x
               PROVE  Linked(Enqueue(rq, p, prio), x) =
                        IF x = p THEN {pos} ELSE Linked(rq, x)
    OBVIOUS
  <2>1. Linked(ua, x) = IF x = p THEN {} ELSE Linked(rq, x)
    BY <1>1
  <2>2. CASE x = p
    BY <2>1, <2>2, <1>7, <1>8 DEF Linked
  <2>3. CASE x # p
    BY <2>1, <2>3, <1>7, <1>8 DEF Linked
  <2>4. QED BY <2>2, <2>3
<1>10. QED BY <1>6, <1>9 DEF pos

LEMMA KeptSorted ==
  ASSUME NEW T, NEW q \in Seq(T), NEW S, NEW lf, Sorted(q, lf)
  PROVE  Sorted(Kept(q, S), lf)
<1> DEFINE r == Kept(q, S)
<1>1. \A k, l \in DOMAIN r : k < l =>
        \E i, j \in DOMAIN q : i < j /\ r[k] = q[i] /\ r[l] = q[j]
  BY KeptProps
<1> HIDE DEF r
<1>2. Sorted(r, lf)
  BY <1>1 DEF Sorted
<1>3. QED BY <1>2 DEF r

\* Putting a into the order between those that are not above it and those
\* that are.
LEMMA SortedConcat ==
  ASSUME NEW T, NEW a \in Seq(T), NEW b \in Seq(T), NEW lf \in [T -> Nat],
         Sorted(a, lf), Sorted(b, lf),
         \A x \in Members(a) : \A y \in Members(b) : lf[x] <= lf[y]
  PROVE  Sorted(a \o b, lf)
<1> DEFINE c == a \o b
           m == Len(a)
           n == Len(b)
<1>1. /\ m \in Nat /\ n \in Nat
      /\ DOMAIN a = 1 .. m /\ DOMAIN b = 1 .. n
      /\ c \in Seq(T) /\ Len(c) = m + n
  OBVIOUS
<1>2. DOMAIN c = 1 .. m + n
  BY <1>1
<1>3. \A i \in 1 .. m + n : c[i] = IF i <= m THEN a[i] ELSE b[i - m]
  OBVIOUS
<1> HIDE DEF c, m, n
<1>4. SUFFICES ASSUME NEW i \in 1 .. m + n, NEW j \in 1 .. m + n, i < j
               PROVE  lf[c[i]] <= lf[c[j]]
  BY <1>2 DEF Sorted, c
<1>5. CASE j <= m
  <2>1. i \in 1 .. m /\ j \in 1 .. m /\ i <= m
    BY <1>1, <1>4, <1>5
  <2>2. c[i] = a[i] /\ c[j] = a[j]
    BY <2>1, <1>3, <1>5
  <2>3. QED BY <2>1, <2>2, <1>1, <1>4 DEF Sorted
<1>6. CASE i <= m /\ ~ (j <= m)
  <2>1. i \in 1 .. m /\ j - m \in 1 .. n /\ c[i] = a[i] /\ c[j] = b[j - m]
    BY <1>1, <1>3, <1>4, <1>6
  <2>2. a[i] \in Members(a) /\ b[j - m] \in Members(b)
    BY <2>1, <1>1 DEF Members
  <2>3. QED BY <2>1, <2>2
<1>7. CASE ~ (i <= m)
  <2>1. /\ i - m \in 1 .. n /\ j - m \in 1 .. n /\ i - m < j - m
        /\ ~ (j <= m)
    BY <1>1, <1>4, <1>7
  <2>2. c[i] = b[i - m] /\ c[j] = b[j - m]
    BY <2>1, <1>3, <1>7
  <2>3. QED BY <2>1, <2>2, <1>1 DEF Sorted
<1>8. QED BY <1>1, <1>5, <1>6, <1>7

LEMMA ConstantFacts ==
  /\ Idle \in Procs /\ Idle \notin Workers /\ Workers \subseteq Procs
  /\ TIMER_MAX \in Nat /\ TIMER_MAX > 1 /\ SLEEP \in Nat \ {0}
  /\ ADJUST \in Nat \ {0} /\ WEIGHT \in Nat \ {0}
  /\ RQ_NQS \in Nat \ {0} /\ RQ_PPQ \in Nat \ {0} /\ LOWEST \in Nat
  /\ Priority0 \in [Workers -> 0 .. LOWEST]
  /\ End \in [Workers -> Nat \ {0}]
  /\ SleepAt \in [Workers -> SUBSET Nat]
<1>1. Idle \in Procs /\ Idle \notin Workers /\ Workers \subseteq Procs
  BY WorkersAssumption DEF Idle, Procs, Workers
<1>2. TIMER_MAX > 1
  BY ShortAssumption
<1>3. QED BY <1>1, <1>2, ScriptAssumption, TimesAssumption

\* Priorities up to the lowest have a queue.
LEMMA QueueOf ==
  ASSUME NEW prio \in Nat, prio <= LOWEST
  PROVE  proc_getpos(prio) \in Queues
<1>1. /\ prio \div RQ_PPQ \in Nat
      /\ prio \div RQ_PPQ <= LOWEST \div RQ_PPQ
  BY ConstantFacts
<1>2. QED BY <1>1, ConstantFacts, IdleAssumption DEF proc_getpos, Queues

LEMMA InsertOrderedProps ==
  ASSUME NEW q \in Seq(Workers), NEW p \in Workers, left \in [Procs -> Nat],
         Sorted(q, left)
  PROVE  /\ InsertOrdered(q, p) \in Seq(Workers)
         /\ Members(InsertOrdered(q, p)) = Members(q) \cup {p}
         /\ Sorted(InsertOrdered(q, p), left)
<1> DEFINE low == Kept(q, {x \in Procs : left[x] <= left[p]})
           high == Kept(q, {x \in Procs : left[x] > left[p]})
           one == <<p>>
<1>1. /\ low \in Seq(Workers)
      /\ Members(low) = {x \in Members(q) : x \in Procs /\ left[x] <= left[p]}
      /\ high \in Seq(Workers)
      /\ Members(high) = {x \in Members(q) : x \in Procs /\ left[x] > left[p]}
  BY KeptProps
<1>2. one \in Seq(Workers) /\ Members(one) = {p} /\ Sorted(one, left)
  BY DEF Members, Sorted
<1>3. Sorted(low, left) /\ Sorted(high, left)
  BY KeptSorted
<1>4. InsertOrdered(q, p) = (low \o one) \o high
  BY DEF InsertOrdered
<1>5. Members(q) \subseteq Workers /\ Workers \subseteq Procs /\ p \in Procs
  BY ConstantFacts DEF Members
<1>6. \A x \in Workers : left[x] \in Nat
  BY <1>5
<1> DEFINE lf == [x \in Workers |-> left[x]]
<1>7. lf \in [Workers -> Nat]
  BY <1>6
<1>8. ASSUME NEW r \in Seq(Workers)
      PROVE  Sorted(r, left) <=> Sorted(r, lf)
  <2>1. \A i \in DOMAIN r : r[i] \in Workers
    OBVIOUS
  <2>2. \A i \in DOMAIN r : lf[r[i]] = left[r[i]]
    BY <2>1
  <2>3. QED BY <2>2 DEF Sorted
<1>9. /\ \A x \in Members(low) : lf[x] <= lf[p]
      /\ \A x \in Members(high) : lf[p] <= lf[x]
  BY <1>1, <1>5, <1>6
<1> HIDE DEF low, one, high, lf
<1>10. /\ low \o one \in Seq(Workers)
       /\ Members(low \o one) = Members(low) \cup {p}
  BY <1>1, <1>2, ConcatProps
<1>11. Sorted(low \o one, lf)
  <2>1. \A x \in Members(low) : \A y \in Members(one) : lf[x] <= lf[y]
    BY <1>2, <1>9
  <2>2. QED BY <2>1, <1>1, <1>2, <1>3, <1>7, <1>8, SortedConcat
<1> DEFINE front == low \o one
<1>12. /\ front \in Seq(Workers)
       /\ Members(front) = Members(low) \cup {p}
       /\ Sorted(front, lf)
       /\ InsertOrdered(q, p) = front \o high
  BY <1>4, <1>10, <1>11
<1> HIDE DEF front
<1>13. /\ front \o high \in Seq(Workers)
       /\ Members(front \o high) = Members(front) \cup Members(high)
  BY <1>1, <1>12, ConcatProps
<1>14. Sorted(front \o high, lf)
  <2>1. ASSUME NEW x \in Members(front), NEW y \in Members(high)
        PROVE  lf[x] <= lf[y]
    <3>1. /\ x \in Workers /\ y \in Workers
          /\ lf[x] \in Nat /\ lf[y] \in Nat /\ lf[p] \in Nat
      BY <1>1, <1>5, <1>7, <1>12
    <3>2. lf[x] <= lf[p] /\ lf[p] <= lf[y]
      BY <3>1, <1>9, <1>12
    <3>3. QED BY <3>1, <3>2
  <2>2. QED BY <2>1, <1>1, <1>3, <1>7, <1>8, <1>12, SortedConcat
<1>15. Members(low) \cup {p} \cup Members(high) = Members(q) \cup {p}
  <2>1. \A x \in Members(q) : x \in Procs /\ (left[x] <= left[p] \/ left[x] > left[p])
    BY <1>5
  <2>2. QED BY <2>1, <1>1
<1>16. QED BY <1>8, <1>12, <1>13, <1>14, <1>15

-----------------------------------------------------------------------------
(* schedule().                                                             *)

\* In a sorted list the sleepers proc_wake() takes are all those whose time
\* has come.
LEMMA DueProps ==
  ASSUME slist \in Seq(Workers), NEW lf \in [Procs -> Nat], Sorted(slist, lf)
  PROVE  Due(lf) = {p \in Members(slist) : lf[p] = 0}
<1>1. \A i \in DOMAIN slist : i \in Nat /\ i >= 1 /\ lf[slist[i]] \in Nat
  BY ConstantFacts
<1>2. \A j \in DOMAIN slist : \A k \in 1 .. j : k \in DOMAIN slist
  OBVIOUS
<1>3. ASSUME NEW j \in DOMAIN slist
      PROVE  (\A k \in 1 .. j : lf[slist[k]] = 0) <=> lf[slist[j]] = 0
  <2>1. j \in 1 .. j
    BY <1>1
  <2>2. ASSUME lf[slist[j]] = 0, NEW k \in 1 .. j
        PROVE  lf[slist[k]] = 0
    <3>1. k \in DOMAIN slist /\ lf[slist[k]] \in Nat
      BY <1>1, <1>2
    <3>2. k = j \/ k < j
      BY <1>1
    <3>3. k < j => lf[slist[k]] <= lf[slist[j]]
      BY <3>1 DEF Sorted
    <3>4. QED BY <2>2, <3>1, <3>2, <3>3
  <2>3. QED BY <2>1, <2>2
<1>4. QED BY <1>3 DEF Due, Members

Types ==
  /\ cur_process \in Procs
  /\ state \in [Procs -> States]
  /\ pc \in [Procs -> Points]
  /\ priority \in [Procs -> Nat]
  /\ time_slice \in [Procs -> 0 .. TIMER_MAX]
  /\ time_used \in [Procs -> Nat]
  /\ left \in [Procs -> 0 .. SLEEP]
  /\ passed \in [Procs -> SUBSET Nat]
  /\ runq \in [Queues -> Seq(Procs)]
  /\ slist \in Seq(Workers)
  /\ moved \in BOOLEAN

\* The queues after proc_wake().
LEMMA WokenProps ==
  ASSUME Types, NEW rq \in [Queues -> Seq(Procs)],
         NEW lf, Due(lf) \subseteq Members(slist),
         \A p \in Due(lf) : proc_getpos(priority[p]) \in Queues
  PROVE  /\ Woken(rq, lf) \in [Queues -> Seq(Procs)]
         /\ \A x \in Procs : Linked(Woken(rq, lf), x) =
              IF x \in Due(lf) THEN Linked(rq, x) \cup {proc_getpos(priority[x])}
              ELSE Linked(rq, x)
<1> DEFINE due == Due(lf)
           to(i) == {p \in due : proc_getpos(priority[p]) = i}
           w == Woken(rq, lf)
<1>1. slist \in Seq(Procs)
  BY ConstantFacts DEF Types
<1>2. ASSUME NEW i \in Queues
      PROVE  /\ w[i] \in Seq(Procs)
             /\ Members(w[i]) = Members(rq[i]) \cup to(i)
  <2> DEFINE k == Kept(slist, to(i))
             r == rq[i]
  <2>1. k \in Seq(Procs) /\ Members(k) = Members(slist) \cap to(i)
    BY <1>1, KeptProps
  <2>2. r \in Seq(Procs)
    OBVIOUS
  <2>3. w[i] = r \o k
    BY DEF Woken
  <2>4. to(i) \subseteq Members(slist)
    OBVIOUS
  <2> HIDE DEF k, r, w, to
  <2>5. w[i] \in Seq(Procs) /\ Members(w[i]) = Members(r) \cup Members(k)
    BY <2>1, <2>2, <2>3, ConcatProps
  <2>6. QED BY <2>1, <2>4, <2>5 DEF r
<1>3. w = [i \in Queues |-> w[i]]
  BY DEF Woken
<1> HIDE DEF w
<1>4. w \in [Queues -> Seq(Procs)]
  BY <1>2, <1>3
<1>5. ASSUME NEW x \in Procs
      PROVE  Linked(w, x) =
               IF x \in due THEN Linked(rq, x) \cup {proc_getpos(priority[x])}
               ELSE Linked(rq, x)
  <2>1. \A i \in Queues : x \in Members(w[i]) <=>
           x \in Members(rq[i]) \/ (x \in due /\ proc_getpos(priority[x]) = i)
    BY <1>2
  <2>2. QED BY <2>1 DEF Linked
<1>6. QED BY <1>4, <1>5 DEF w

\* What schedule() does to the state, with the sleepers whose time has come
\* in due.
Scheduled(rq, slice, lf, due) ==
  /\ \E next \in Procs : /\ cur_process' = next
                         /\ time_slice' = [slice EXCEPT ![next] = 0]
                         /\ cur_process # Idle => next = Idle
                         /\ state'[next] = "RUN"
  /\ state' = [p \in Procs |-> IF p \in due THEN "RUN" ELSE state[p]]
  /\ runq' \in [Queues -> Seq(Procs)]
  /\ \A x \in Procs : Linked(runq', x) =
       IF x \in due THEN Linked(rq, x) \cup {proc_getpos(priority[x])}
       ELSE Linked(rq, x)
  /\ slist' \in Seq(Workers)
  /\ Members(slist') = Members(slist) \ due
  /\ Sorted(slist', lf)

LEMMA ScheduleEffect ==
  ASSUME Types, state[Idle] = "RUN",
         NEW rq \in [Queues -> Seq(Procs)],
         NEW slice, NEW lf \in [Procs -> Nat], Sorted(slist, lf),
         \A p \in Workers : proc_getpos(priority[p]) \in Queues,
         schedule(rq, slice, lf)
  PROVE  /\ Due(lf) = {p \in Members(slist) : lf[p] = 0}
         /\ Scheduled(rq, slice, lf, Due(lf))
<1> DEFINE due == Due(lf)
           awake == Woken(rq, lf)
           st == [p \in Procs |-> IF p \in due THEN "RUN" ELSE state[p]]
<1>1. due = {p \in Members(slist) : lf[p] = 0}
  BY DueProps DEF Types
<1>2. due \subseteq Members(slist) /\ Members(slist) \subseteq Workers
  BY <1>1 DEF Types, Members
<1>3. /\ awake \in [Queues -> Seq(Procs)]
      /\ \A x \in Procs : Linked(awake, x) =
           IF x \in due THEN Linked(rq, x) \cup {proc_getpos(priority[x])}
           ELSE Linked(rq, x)
  <2>1. \A p \in Due(lf) : proc_getpos(priority[p]) \in Queues
    BY <1>2
  <2>2. QED BY <2>1, <1>2, WokenProps
<1>4. PICK next \in Procs :
        /\ IsNext(next, awake, st)
        /\ cur_process' = next
        /\ time_slice' = [slice EXCEPT ![next] = 0]
        /\ state' = st
        /\ runq' = awake
        /\ slist' = Kept(slist, Procs \ due)
  BY DEF schedule
<1>5. /\ slist' \in Seq(Workers)
      /\ Members(slist') = Members(slist) \ due
      /\ Sorted(slist', lf)
  <2> DEFINE k == Kept(slist, Procs \ due)
  <2>1. slist \in Seq(Workers) /\ Members(slist) \subseteq Procs
    BY <1>2, ConstantFacts DEF Types
  <2>2. k \in Seq(Workers) /\ Members(k) = Members(slist) \cap (Procs \ due)
    BY <2>1, KeptProps
  <2>3. Sorted(k, lf)
    BY <2>1, KeptSorted
  <2> HIDE DEF k, due
  <2>4. QED BY <2>1, <2>2, <2>3, <1>4 DEF k
<1>6. st[Idle] = "RUN"
  BY <1>2, ConstantFacts
<1>7. cur_process # Idle => next = Idle
  BY <1>4 DEF IsNext
<1>8. st[next] = "RUN"
  BY <1>4, <1>6 DEF IsNext
<1> HIDE DEF due, awake
<1>9. Scheduled(rq, slice, lf, due)
  BY <1>3, <1>4, <1>5, <1>7, <1>8 DEF Scheduled
<1>10. QED BY <1>1, <1>9 DEF due

-----------------------------------------------------------------------------
(* The inductive invariant.                                                *)

IdleState == /\ state[Idle] = "RUN"
             /\ pc[Idle] \in {"create", "schedule"}
             /\ priority[Idle] = LOWEST
             /\ time_slice[Idle] = 0

\* The course of a worker.
Unborn(p) == /\ state[p] = "UNUSED" /\ pc[p] = "loop" /\ cur_process # p
             /\ time_used[p] = 0 /\ time_slice[p] = 0 /\ passed[p] = {}
Running(p) == state[p] = "RUN" /\ pc[p] \in {"loop", "sleep", "stop", "free"}
FallingAsleep(p) == /\ state[p] = "STOP" /\ cur_process = p
                    /\ pc[p] \in {"clear", "unlink", "insert"}
                    /\ pc[p] \in {"unlink", "insert"} => time_slice[p] = 0
Asleep(p) == /\ state[p] = "STOP" /\ p \in Members(slist)
             /\ pc[p] = IF cur_process = p THEN "schedule" ELSE "loop"
Dead(p) == /\ state[p] = "ZOMBIE"
           /\ pc[p] \in IF cur_process = p THEN {"remove", "schedule"} ELSE {"loop"}

Phase(p) ==
  /\ Unborn(p) \/ Running(p) \/ FallingAsleep(p) \/ Asleep(p) \/ Dead(p)
  /\ cur_process = p => time_slice[p] < TIMER_MAX
  /\ p \in Members(slist) => Asleep(p) /\ Linked(runq, p) = {}
  /\ passed[p] \subseteq SleepAt[p]
  /\ pc[p] = "sleep" => \E t \in SleepAt[p] \ passed[p] : t <= time_used[p]
  /\ pc[p] \in {"stop", "clear"} => passed[p] # {}

Queued == \A p \in Procs :
            state[p] = "RUN" => Linked(runq, p) = {proc_getpos(priority[p])}

\* Ticks that may still be charged to a running worker before it executes its
\* next statement: two if the first ends its slice.
Pending(p) == IF cur_process # p THEN 1
              ELSE IF ~ moved THEN 0
              ELSE IF time_slice[p] = TIMER_MAX - 1 THEN 2 ELSE 1

\* How far a worker has overrun its CPU time.
Overrun(p) ==
  IF state[p] = "RUN"
  THEN time_used[p] + Pending(p) <= End[p] + (IF pc[p] = "sleep" THEN 1
                                              ELSE IF pc[p] = "stop" THEN 3
                                              ELSE IF pc[p] = "loop" THEN 4
                                              ELSE 6)
  ELSE time_used[p] <= End[p] + (IF state[p] = "STOP" THEN 3 ELSE 6)

\* The most an adjustment adds, and the most one adds that comes with a tick
\* that is not charged.
Gain == TIMER_MAX \div WEIGHT
FreeGain == (((TIMER_MAX - 1) \div ADJUST) * ADJUST) \div WEIGHT

\* Adjustments there can have been for ticks that were not charged: one at
\* each time to sleep, two at the end.
Unpaid(p) ==
  Cardinality(passed[p])
    + (IF pc[p] = "stop" \/ (pc[p] = "clear" /\ moved) THEN -1
       ELSE IF state[p] # "ZOMBIE" \/ (pc[p] = "remove" /\ moved) THEN 0
       ELSE IF pc[p] = "remove" \/ (pc[p] = "schedule" /\ moved) THEN 1
       ELSE 2)

\* The highest priority of a worker with used ticks charged to it, slice of
\* them in this slice, and free adjustments for ticks that were not charged.
Ceiling(p, used, slice, free) ==
  Priority0[p] + Gain * ((used - (slice % ADJUST)) \div ADJUST) + FreeGain * free

Budget(p) ==
  /\ Overrun(p)
  /\ time_used[p] >= time_slice[p] % ADJUST
  /\ state[p] # "UNUSED" =>
       priority[p] <= Ceiling(p, time_used[p], time_slice[p], Unpaid(p))
  /\ state[p] = "UNUSED" => priority[p] = 0

IInv ==
  /\ "asleep" \notin Windows
  /\ Types
  /\ IdleState
  /\ \A p \in Workers : Phase(p)
  /\ \A p \in Workers : Budget(p)
  /\ Queued
  /\ Sorted(slist, left)

-----------------------------------------------------------------------------
(* Arithmetic.                                                             *)

LEMMA DivMod ==
  ASSUME NEW x \in Nat, NEW a \in Nat \ {0}
  PROVE  /\ x \div a \in Nat /\ x % a \in Nat /\ (x % a) < a
         /\ x = a * (x \div a) + (x % a)
OBVIOUS

LEMMA DivUnique ==
  ASSUME NEW a \in Nat \ {0}, NEW q \in Nat, NEW r \in Nat, r < a
  PROVE  (a * q + r) \div a = q /\ (a * q + r) % a = r
OBVIOUS

LEMMA DivMono ==
  ASSUME NEW a \in Nat \ {0}, NEW x \in Nat, NEW y \in Nat, x <= y
  PROVE  x \div a <= y \div a
OBVIOUS

LEMMA DivStep ==
  ASSUME NEW a \in Nat \ {0}, NEW x \in Nat
  PROVE  (x + a) \div a = x \div a + 1
OBVIOUS

LEMMA MulMono ==
  ASSUME NEW a \in Nat, NEW x \in Nat, NEW y \in Nat, x <= y
  PROVE  a * x \in Nat /\ a * x <= a * y
OBVIOUS

LEMMA MulStep ==
  ASSUME NEW a \in Nat, NEW x \in Nat
  PROVE  a * x \in Nat /\ a * (x + 1) = a * x + a
OBVIOUS

LEMMA ModStep ==
  ASSUME NEW a \in Nat \ {0}, NEW x \in Nat
  PROVE  IF (x + 1) % a = 0 THEN x % a = a - 1 ELSE (x + 1) % a = (x % a) + 1
<1> DEFINE q == x \div a
           r == x % a
<1>1. q \in Nat /\ r \in Nat /\ r < a /\ x = a * q + r
  BY DivMod
<1> HIDE DEF q, r
<1>2. CASE r + 1 < a
  <2>1. x + 1 = a * q + (r + 1)
    BY <1>1
  <2>2. (x + 1) % a = r + 1
    BY <2>1, <1>1, <1>2, DivUnique
  <2>3. QED BY <2>2, <1>1 DEF r
<1>3. CASE ~ (r + 1 < a)
  <2>1. r = a - 1 /\ q + 1 \in Nat /\ 0 \in Nat /\ 0 < a
    BY <1>1, <1>3
  <2>2. x + 1 = a * (q + 1) + 0
    BY <1>1, <2>1, MulStep
  <2>3. (x + 1) % a = 0
    BY <2>1, <2>2, DivUnique
  <2>4. QED BY <2>1, <2>3 DEF r
<1>4. QED BY <1>2, <1>3

\* What the adjustments add.
LEMMA GainProps ==
  /\ Gain \in Nat /\ FreeGain \in Nat
  /\ \A s \in 0 .. TIMER_MAX : s \div WEIGHT \in Nat /\ s \div WEIGHT <= Gain
  /\ \A s \in 0 .. TIMER_MAX - 1 : s % ADJUST = 0 => s \div WEIGHT <= FreeGain
<1> DEFINE most == ((TIMER_MAX - 1) \div ADJUST) * ADJUST
<1>1. TIMER_MAX \in Nat /\ TIMER_MAX - 1 \in Nat
      /\ ADJUST \in Nat \ {0} /\ WEIGHT \in Nat \ {0}
  BY ConstantFacts
<1>2. (TIMER_MAX - 1) \div ADJUST \in Nat
  BY <1>1
<1>3. most \in Nat
  BY <1>1, <1>2, MulMono
<1>4. Gain \in Nat /\ FreeGain \in Nat
  <2> HIDE DEF most
  <2>1. most \div WEIGHT \in Nat
    BY <1>1, <1>3
  <2>2. QED BY <2>1, <1>1 DEF Gain, FreeGain, most
<1>5. ASSUME NEW s \in 0 .. TIMER_MAX
      PROVE  s \div WEIGHT \in Nat /\ s \div WEIGHT <= Gain
  BY <1>1, DivMono DEF Gain
<1>6. ASSUME NEW s \in 0 .. TIMER_MAX - 1, s % ADJUST = 0
      PROVE  s \div WEIGHT <= FreeGain
  <2> DEFINE k == s \div ADJUST
             n == (TIMER_MAX - 1) \div ADJUST
  <2>1. k \in Nat /\ n \in Nat /\ k <= n
    BY <1>1, DivMono
  <2>2. s = ADJUST * k
    BY <1>1, <1>6, DivMod
  <2> HIDE DEF k, n
  <2>3. ADJUST * k <= ADJUST * n
    BY <1>1, <2>1, MulMono
  <2>4. most = n * ADJUST /\ n * ADJUST = ADJUST * n
    BY <1>1, <2>1 DEF n
  <2> HIDE DEF most
  <2>5. s <= most /\ s \in Nat
    BY <2>2, <2>3, <2>4
  <2>6. s \div WEIGHT <= most \div WEIGHT
    BY <2>5, <1>1, <1>3, DivMono
  <2>7. QED BY <2>6 DEF FreeGain, most
<1>7. QED BY <1>4, <1>5, <1>6

\* A tick adds to the priority no more than to its ceiling.
LEMMA CeilingProps ==
  ASSUME NEW p \in Workers, NEW used \in Nat, NEW slice \in 0 .. TIMER_MAX - 1,
         NEW free \in Nat, NEW prio \in Nat, used >= slice % ADJUST,
         prio <= Ceiling(p, used, slice, free)
  PROVE  /\ slice + 1 \in 0 .. TIMER_MAX
         /\ (slice + 1) \div WEIGHT \in Nat /\ slice \div WEIGHT \in Nat
         /\ used + 1 >= (slice + 1) % ADJUST
         /\ prio <= Ceiling(p, used + 1, slice + 1, free)
         /\ (slice + 1) % ADJUST = 0 =>
              prio + (slice + 1) \div WEIGHT <= Ceiling(p, used + 1, slice + 1, free)
         /\ prio <= Ceiling(p, used, slice, free + 1)
         /\ slice % ADJUST = 0 =>
              prio + slice \div WEIGHT <= Ceiling(p, used, slice, free + 1)
<1> DEFINE r == slice % ADJUST
           n == (used - r) \div ADJUST
<1>1. /\ ADJUST \in Nat \ {0} /\ WEIGHT \in Nat \ {0}
      /\ TIMER_MAX \in Nat /\ Priority0[p] \in Nat /\ Gain \in Nat /\ FreeGain \in Nat
  BY ConstantFacts, GainProps
<1>2. /\ slice \in Nat /\ slice + 1 \in 0 .. TIMER_MAX /\ slice \in 0 .. TIMER_MAX
      /\ r \in Nat /\ r < ADJUST /\ r <= used
  BY <1>1, DivMod
<1>3. used - r \in Nat /\ n \in Nat
  <2>1. used - r \in Nat
    BY <1>2
  <2> HIDE DEF r
  <2>2. QED BY <2>1, <1>1
<1>4. /\ Gain * n \in Nat /\ Gain * (n + 1) = Gain * n + Gain
      /\ FreeGain * free \in Nat /\ FreeGain * (free + 1) = FreeGain * free + FreeGain
  <2> HIDE DEF n
  <2>1. QED BY <1>1, <1>3, MulStep
<1>5. /\ (slice + 1) \div WEIGHT \in Nat /\ slice \div WEIGHT \in Nat
      /\ (slice + 1) \div WEIGHT <= Gain
      /\ slice % ADJUST = 0 => slice \div WEIGHT <= FreeGain
  BY <1>2, GainProps
<1>6. prio <= Priority0[p] + Gain * n + FreeGain * free
  BY DEF Ceiling
<1>7. /\ prio <= Ceiling(p, used, slice, free + 1)
      /\ slice % ADJUST = 0 =>
           prio + slice \div WEIGHT <= Ceiling(p, used, slice, free + 1)
  <2>1. Ceiling(p, used, slice, free + 1) =
          Priority0[p] + Gain * n + FreeGain * (free + 1)
    BY DEF Ceiling
  <2> DEFINE a == Gain * n
             b == FreeGain * free
             c == FreeGain * (free + 1)
             d == slice \div WEIGHT
  <2>2. /\ a \in Nat /\ b \in Nat /\ c = b + FreeGain /\ d \in Nat
        /\ prio <= Priority0[p] + a + b
        /\ slice % ADJUST = 0 => d <= FreeGain
        /\ Ceiling(p, used, slice, free + 1) = Priority0[p] + a + c
    BY <1>4, <1>5, <1>6, <2>1
  <2> HIDE DEF a, b, c, d, n, r
  <2>3. /\ prio <= Ceiling(p, used, slice, free + 1)
        /\ d <= FreeGain => prio + d <= Ceiling(p, used, slice, free + 1)
    BY <2>2, <1>1
  <2>4. QED BY <2>2, <2>3 DEF d
<1>8. CASE (slice + 1) % ADJUST = 0
  <2>1. r = ADJUST - 1
    BY <1>1, <1>2, <1>8, ModStep
  <2>2. (used + 1) - ((slice + 1) % ADJUST) = (used - r) + ADJUST
    BY <2>1, <1>1, <1>8
  <2>3. ((used - r) + ADJUST) \div ADJUST = n + 1
    <3> DEFINE u == used - r
    <3>1. u \in Nat
      BY <1>3
    <3> HIDE DEF u
    <3>2. (u + ADJUST) \div ADJUST = u \div ADJUST + 1
      BY <3>1, <1>1, DivStep
    <3>3. QED BY <3>2 DEF u
  <2> DEFINE e == (used + 1) - ((slice + 1) % ADJUST)
  <2>4. Ceiling(p, used + 1, slice + 1, free) =
          Priority0[p] + Gain * (n + 1) + FreeGain * free
    <3>1. Ceiling(p, used + 1, slice + 1, free) =
            Priority0[p] + Gain * (e \div ADJUST) + FreeGain * free
      BY DEF Ceiling
    <3>2. e = (used - r) + ADJUST
      BY <2>2
    <3> HIDE DEF e
    <3>3. e \div ADJUST = n + 1
      BY <3>2, <2>3
    <3>4. QED BY <3>1, <3>3
  <2> DEFINE a == Gain * n
             b == FreeGain * free
             c == Gain * (n + 1)
             d == (slice + 1) \div WEIGHT
  <2>5. /\ a \in Nat /\ b \in Nat /\ c = a + Gain /\ d \in Nat /\ d <= Gain
        /\ prio <= Priority0[p] + a + b
        /\ Ceiling(p, used + 1, slice + 1, free) = Priority0[p] + c + b
    BY <1>4, <1>5, <1>6, <2>4
  <2> HIDE DEF a, b, c, d, n, r
  <2>6. /\ prio <= Ceiling(p, used + 1, slice + 1, free)
        /\ prio + d <= Ceiling(p, used + 1, slice + 1, free)
    BY <2>5, <1>1
  <2>7. used + 1 >= (slice + 1) % ADJUST
    BY <1>8
  <2>8. 0 % ADJUST = 0
    BY <1>1
  <2>9. QED BY <2>6, <2>7, <2>8, <1>2, <1>5, <1>7 DEF d
<1>9. CASE (slice + 1) % ADJUST # 0
  <2>1. (slice + 1) % ADJUST = r + 1
    BY <1>1, <1>2, <1>9, ModStep
  <2>2. (used + 1) - ((slice + 1) % ADJUST) = used - r
    BY <2>1, <1>2
  <2>3. Ceiling(p, used + 1, slice + 1, free) = Ceiling(p, used, slice, free)
    <3> DEFINE e == (used + 1) - ((slice + 1) % ADJUST)
    <3>1. Ceiling(p, used + 1, slice + 1, free) =
            Priority0[p] + Gain * (e \div ADJUST) + FreeGain * free
      BY DEF Ceiling
    <3>2. e = used - r
      BY <2>2
    <3> HIDE DEF e
    <3>3. e \div ADJUST = n
      BY <3>2
    <3>4. QED BY <3>1, <3>3 DEF Ceiling
  <2>4. used + 1 >= (slice + 1) % ADJUST
    BY <1>2, <2>1
  <2>5. QED BY <2>3, <2>4, <1>2, <1>5, <1>7, <1>9
<1>10. QED BY <1>8, <1>9

\* Nor does a new slice lower it.
LEMMA CeilingReset ==
  ASSUME NEW p \in Workers, NEW used \in Nat, NEW slice \in 0 .. TIMER_MAX,
         NEW free \in Nat, NEW prio \in Nat, used >= slice % ADJUST,
         prio <= Ceiling(p, used, slice, free)
  PROVE  used >= 0 % ADJUST /\ prio <= Ceiling(p, used, 0, free)
<1> DEFINE u == used - (slice % ADJUST)
           n == u \div ADJUST
           m == used \div ADJUST
           a == Gain * n
           b == FreeGain * free
           c == Gain * m
<1>1. /\ ADJUST \in Nat \ {0} /\ Priority0[p] \in Nat
      /\ Gain \in Nat /\ FreeGain \in Nat /\ slice \in Nat
  BY ConstantFacts, GainProps
<1>2. 0 % ADJUST = 0 /\ used - 0 = used
  BY <1>1
<1>3. /\ prio <= Priority0[p] + a + b
      /\ Ceiling(p, used, 0, free) = Priority0[p] + c + b
  BY <1>2 DEF Ceiling
<1>4. u \in Nat /\ u <= used
  BY <1>1, DivMod
<1>5. n \in Nat /\ m \in Nat /\ n <= m
  <2> HIDE DEF u
  <2>1. QED BY <1>1, <1>4, DivMono
<1> HIDE DEF n, m
<1>6. a \in Nat /\ c \in Nat /\ b \in Nat /\ a <= c
  BY <1>1, <1>5, MulMono
<1> HIDE DEF a, b, c
<1>7. QED BY <1>1, <1>2, <1>3, <1>6

LEMMA CeilingBase ==
  ASSUME NEW p \in Workers, NEW free \in Nat
  PROVE  Priority0[p] <= Ceiling(p, 0, 0, free)
<1> DEFINE b == FreeGain * free
<1>1. /\ ADJUST \in Nat \ {0} /\ Priority0[p] \in Nat
      /\ Gain \in Nat /\ FreeGain \in Nat
  BY ConstantFacts, GainProps
<1>2. 0 - (0 % ADJUST) = 0 /\ 0 \div ADJUST = 0 /\ Gain * 0 = 0
  BY <1>1
<1>3. Ceiling(p, 0, 0, free) = Priority0[p] + 0 + b
  BY <1>2 DEF Ceiling
<1>4. b \in Nat
  BY <1>1, MulMono
<1> HIDE DEF b
<1>5. QED BY <1>1, <1>3, <1>4

LEMMA CeilingMono ==
  ASSUME NEW p \in Workers, NEW used \in Nat, NEW slice \in 0 .. TIMER_MAX,
         NEW free \in Nat, NEW more \in Nat, free <= more,
         used >= slice % ADJUST, NEW prio \in Nat,
         prio <= Ceiling(p, used, slice, free)
  PROVE  prio <= Ceiling(p, used, slice, more)
<1> DEFINE n == (used - (slice % ADJUST)) \div ADJUST
           a == Gain * n
           b == FreeGain * free
           c == FreeGain * more
<1>1. /\ ADJUST \in Nat \ {0} /\ Priority0[p] \in Nat
      /\ Gain \in Nat /\ FreeGain \in Nat /\ slice \in Nat
  BY ConstantFacts, GainProps
<1>2. used - (slice % ADJUST) \in Nat
  BY <1>1, DivMod
<1>3. n \in Nat
  BY <1>1, <1>2
<1>4. /\ Ceiling(p, used, slice, free) = Priority0[p] + a + b
      /\ Ceiling(p, used, slice, more) = Priority0[p] + a + c
  BY DEF Ceiling
<1> HIDE DEF n
<1>5. a \in Nat /\ b \in Nat /\ c \in Nat /\ b <= c
  BY <1>1, <1>3, MulMono
<1> HIDE DEF a, b, c
<1>6. QED BY <1>1, <1>4, <1>5

\* No ceiling of a worker within its CPU time passes the lowest priority.
LEMMA CeilingFits ==
  ASSUME NEW p \in Workers, NEW used \in Nat, NEW slice \in 0 .. TIMER_MAX,
         NEW free \in Nat, NEW prio \in Nat, used >= slice % ADJUST,
         used <= End[p] + 6, free <= Cardinality(SleepAt[p]) + 2,
         prio <= Ceiling(p, used, slice, free)
  PROVE  prio <= LOWEST /\ proc_getpos(prio) \in Queues
<1> DEFINE u == used - (slice % ADJUST)
           n == u \div ADJUST
           m == (End[p] + 6) \div ADJUST
           k == Cardinality(SleepAt[p]) + 2
<1>1. /\ ADJUST \in Nat \ {0} /\ Priority0[p] \in Nat /\ End[p] + 6 \in Nat
      /\ LOWEST \in Nat /\ Gain \in Nat /\ FreeGain \in Nat
  BY ConstantFacts, GainProps
<1>2. k \in Nat
  <2>1. Cardinality(SleepAt[p]) \in Nat
    BY ShortAssumption, FS_CardinalityType
  <2>2. QED BY <2>1
<1>3. u \in Nat /\ u <= End[p] + 6
  BY <1>1, DivMod
<1>4. n \in Nat /\ m \in Nat /\ n <= m
  <2> HIDE DEF u
  <2>1. QED BY <1>1, <1>3, DivMono
<1>5. Priority0[p] + Gain * m + FreeGain * k <= LOWEST
  BY ShortAssumption DEF Gain, FreeGain
<1>6. prio <= Priority0[p] + Gain * n + FreeGain * free /\ free <= k
  BY DEF Ceiling
<1> HIDE DEF n, m, k, u
<1>7. /\ Gain * n \in Nat /\ Gain * n <= Gain * m
      /\ FreeGain * free \in Nat /\ FreeGain * free <= FreeGain * k
      /\ Gain * m \in Nat /\ FreeGain * k \in Nat
  BY <1>1, <1>2, <1>4, <1>6, MulMono
<1> DEFINE a == Gain * n
           b == FreeGain * free
           c == Gain * m
           d == FreeGain * k
<1>8. /\ a \in Nat /\ b \in Nat /\ c \in Nat /\ d \in Nat /\ a <= c /\ b <= d
      /\ prio <= Priority0[p] + a + b /\ Priority0[p] + c + d <= LOWEST
  BY <1>5, <1>6, <1>7
<1> HIDE DEF a, b, c, d
<1>9. prio <= LOWEST
  BY <1>1, <1>8
<1>10. QED BY <1>9, QueueOf

-----------------------------------------------------------------------------
(* Consequences of the invariant.                                          *)

LEMMA PassedProps ==
  ASSUME NEW p \in Workers, NEW S, S \subseteq SleepAt[p]
  PROVE  /\ IsFiniteSet(S)
         /\ Cardinality(S) \in Nat /\ Cardinality(SleepAt[p]) \in Nat
         /\ Cardinality(S) <= Cardinality(SleepAt[p])
         /\ S # {} => Cardinality(S) >= 1
<1>1. IsFiniteSet(SleepAt[p])
  BY ShortAssumption
<1>2. IsFiniteSet(S) /\ Cardinality(S) <= Cardinality(SleepAt[p])
  BY <1>1, FS_Subset
<1>3. Cardinality(S) \in Nat /\ Cardinality(SleepAt[p]) \in Nat
  BY <1>1, <1>2, FS_CardinalityType
<1>4. S # {} => Cardinality(S) # 0
  BY <1>2, FS_EmptySet
<1>5. QED BY <1>2, <1>3, <1>4

LEMMA WorkerFacts ==
  ASSUME IInv, NEW p \in Workers
  PROVE  /\ Unpaid(p) \in Nat
         /\ time_used[p] <= End[p] + 6
         /\ priority[p] <= LOWEST
         /\ proc_getpos(priority[p]) \in Queues
<1>1. Types /\ Phase(p) /\ Budget(p) /\ p \in Procs
  BY ConstantFacts DEF IInv
<1> DEFINE c == Cardinality(passed[p])
           d == Cardinality(SleepAt[p])
<1>2. /\ c \in Nat /\ d \in Nat /\ c <= d
      /\ pc[p] \in {"stop", "clear"} => c >= 1
  <2>1. passed[p] \subseteq SleepAt[p]
    BY <1>1 DEF Phase
  <2>2. /\ c \in Nat /\ d \in Nat /\ c <= d
        /\ passed[p] # {} => c >= 1
    BY <2>1, PassedProps
  <2> HIDE DEF c, d
  <2>3. QED BY <2>2, <1>1 DEF Phase
<1>3. Unpaid(p) \in Nat /\ Unpaid(p) <= d + 2
  <2>1. Unpaid(p) = c
          + (IF pc[p] = "stop" \/ (pc[p] = "clear" /\ moved) THEN -1
             ELSE IF state[p] # "ZOMBIE" \/ (pc[p] = "remove" /\ moved) THEN 0
             ELSE IF pc[p] = "remove" \/ (pc[p] = "schedule" /\ moved) THEN 1
             ELSE 2)
    BY DEF Unpaid
  <2> HIDE DEF c, d
  <2>2. QED BY <2>1, <1>2
<1> HIDE DEF c
<1>4. /\ time_used[p] \in Nat /\ End[p] \in Nat /\ priority[p] \in Nat
      /\ time_slice[p] \in 0 .. TIMER_MAX /\ TIMER_MAX \in Nat
  BY <1>1, ConstantFacts DEF Types
<1>5. time_used[p] <= End[p] + 6
  <2>1. Pending(p) \in Nat
    BY DEF Pending
  <2>2. CASE state[p] = "RUN"
    <3>1. Overrun(p)
      BY <1>1 DEF Budget
    <3>2. time_used[p] + Pending(p) <= End[p] + 6
      BY <3>1, <2>1, <2>2, <1>4 DEF Overrun
    <3>3. QED BY <3>2, <2>1, <1>4
  <2>3. CASE state[p] # "RUN"
    BY <2>3, <1>1, <1>4 DEF Budget, Overrun
  <2>4. QED BY <2>2, <2>3
<1>6. CASE state[p] = "UNUSED"
  <2>1. priority[p] = 0
    BY <1>1, <1>6 DEF Budget
  <2>2. priority[p] <= LOWEST
    BY <2>1, ConstantFacts
  <2>3. QED BY <2>2, <1>3, <1>4, <1>5, QueueOf
<1>7. CASE state[p] # "UNUSED"
  <2>1. /\ priority[p] <= Ceiling(p, time_used[p], time_slice[p], Unpaid(p))
        /\ time_used[p] >= time_slice[p] % ADJUST
    BY <1>1, <1>7 DEF Budget
  <2>2. QED BY <2>1, <1>3, <1>4, <1>5, CeilingFits
<1>8. QED BY <1>6, <1>7

\* A step leaves a worker alone that is not current before or after.
LEMMA OthersKeep ==
  ASSUME IInv, Types', NEW x \in Workers,
         cur_process # x, cur_process' # x,
         state'[x] = state[x], pc'[x] = pc[x], priority'[x] = priority[x],
         time_slice'[x] = time_slice[x], time_used'[x] = time_used[x],
         passed'[x] = passed[x],
         x \in Members(slist') <=> x \in Members(slist),
         x \in Members(slist) => Linked(runq', x) = Linked(runq, x)
  PROVE  Phase(x)' /\ Budget(x)'
<1>1. Phase(x) /\ Budget(x)
  BY DEF IInv
<1>2. Phase(x)'
  BY <1>1 DEF Phase, Unborn, Running, FallingAsleep, Asleep, Dead
<1>3. Pending(x)' = Pending(x)
  BY DEF Pending
<1>4. Unpaid(x)' = Unpaid(x)
  BY <1>1 DEF Unpaid, Phase, Unborn, Running, FallingAsleep, Asleep, Dead
<1>5. Budget(x)'
  BY <1>1, <1>3, <1>4 DEF Budget, Overrun, Ceiling
<1>6. QED BY <1>2, <1>5

\* A step of worker p that touches nothing of the others.
LEMMA LocalStep ==
  ASSUME IInv, Types', NEW p \in Workers,
         cur_process = p, cur_process' = p,
         \A x \in Procs \ {p} :
           /\ state'[x] = state[x] /\ pc'[x] = pc[x] /\ priority'[x] = priority[x]
           /\ time_slice'[x] = time_slice[x] /\ time_used'[x] = time_used[x]
           /\ passed'[x] = passed[x]
           /\ x \in Members(slist') <=> x \in Members(slist)
           /\ Linked(runq', x) = Linked(runq, x),
         Phase(p)', Budget(p)',
         state'[p] = "RUN" => Linked(runq', p) = {proc_getpos(priority'[p])},
         Sorted(slist', left')
  PROVE  IInv'
<1>1. ASSUME NEW x \in Workers \ {p} PROVE Phase(x)' /\ Budget(x)'
  <2>1. x \in Procs \ {p} /\ x \in Workers
    BY ConstantFacts
  <2>2. QED BY <2>1, OthersKeep
<1>2. \A x \in Workers : Phase(x)'
  BY <1>1
<1>3. \A x \in Workers : Budget(x)'
  BY <1>1
<1>4. IdleState'
  BY ConstantFacts DEF IInv, IdleState
<1>5. Queued'
  <2>1. SUFFICES ASSUME NEW x \in Procs, state'[x] = "RUN"
                 PROVE  Linked(runq', x) = {proc_getpos(priority'[x])}
    BY DEF Queued, proc_getpos, Linked
  <2>2. CASE x = p
    BY <2>1, <2>2
  <2>3. CASE x # p
    BY <2>1, <2>3 DEF IInv, Queued
  <2>4. QED BY <2>2, <2>3
<1>6. "asleep" \notin Windows
  BY DEF IInv
<1>7. Sorted(slist, left)'
  BY DEF Sorted
<1>8. QED BY <1>2, <1>3, <1>4, <1>5, <1>6, <1>7 DEF IInv

-----------------------------------------------------------------------------
(* The steps of a worker.                                                  *)

\* What is known of the current worker.
LEMMA CurrentFacts ==
  ASSUME IInv, NEW p \in Workers, cur_process = p
  PROVE  /\ Types /\ p \in Procs /\ p # Idle
         /\ Phase(p) /\ Budget(p)
         /\ Unpaid(p) \in Nat
         /\ proc_getpos(priority[p]) \in Queues
         /\ time_used[p] \in Nat /\ End[p] \in Nat /\ priority[p] \in Nat
         /\ time_slice[p] \in 0 .. TIMER_MAX - 1
         /\ state[p] = "RUN" => Linked(runq, p) = {proc_getpos(priority[p])}
         /\ pc[p] \in {"loop", "sleep", "stop", "free"} => state[p] = "RUN"
         /\ pc[p] \in {"clear", "unlink", "insert"} => state[p] = "STOP"
         /\ pc[p] = "remove" => state[p] = "ZOMBIE"
         /\ pc[p] = "schedule" => Asleep(p) \/ Dead(p)
         /\ pc[p] # "schedule" => p \notin Members(slist)
<1>1. /\ Types /\ p \in Procs /\ p # Idle
      /\ Phase(p) /\ Budget(p)
  BY ConstantFacts DEF IInv
<1>2. Unpaid(p) \in Nat /\ proc_getpos(priority[p]) \in Queues
  BY WorkerFacts
<1>3. /\ time_used[p] \in Nat /\ End[p] \in Nat /\ priority[p] \in Nat
      /\ time_slice[p] \in 0 .. TIMER_MAX - 1
  BY <1>1, ConstantFacts DEF Types, Phase
<1>4. state[p] = "RUN" => Linked(runq, p) = {proc_getpos(priority[p])}
  BY <1>1 DEF IInv, Queued
<1>5. /\ pc[p] \in {"loop", "sleep", "stop", "free"} => state[p] = "RUN"
      /\ pc[p] \in {"clear", "unlink", "insert"} => state[p] = "STOP"
      /\ pc[p] = "remove" => state[p] = "ZOMBIE"
      /\ pc[p] = "schedule" => Asleep(p) \/ Dead(p)
      /\ pc[p] # "schedule" => p \notin Members(slist)
  BY <1>1 DEF Phase, Unborn, Running, FallingAsleep, Asleep, Dead
<1>6. QED BY <1>1, <1>2, <1>3, <1>4, <1>5

LEMMA LoopStep ==
  ASSUME IInv, NEW p \in Workers, Loop(p), moved' = TRUE
  PROVE  IInv'
<1>1. cur_process = p /\ pc[p] = "loop"
  BY DEF Loop, At
<1>2. /\ Types /\ p \in Procs /\ Phase(p) /\ Budget(p)
      /\ time_used[p] \in Nat /\ End[p] \in Nat
      /\ state[p] = "RUN" /\ p \notin Members(slist)
      /\ Linked(runq, p) = {proc_getpos(priority[p])}
  BY <1>1, CurrentFacts
<1>3. pc' = [pc EXCEPT ![p] = IF Ends(p) THEN "free"
                              ELSE IF Sleeps(p) THEN "sleep" ELSE @]
  BY DEF Loop
<1>4. /\ cur_process' = cur_process /\ state' = state /\ priority' = priority
      /\ time_slice' = time_slice /\ time_used' = time_used /\ left' = left
      /\ passed' = passed /\ runq' = runq /\ slist' = slist
  BY DEF Loop
<1>5. /\ pc'[p] = IF Ends(p) THEN "free" ELSE IF Sleeps(p) THEN "sleep" ELSE "loop"
      /\ \A x \in Procs \ {p} : pc'[x] = pc[x]
  BY <1>1, <1>2, <1>3 DEF Types
<1>6. Types'
  BY <1>2, <1>3, <1>4 DEF Types, Points
<1>7. Phase(p)'
  <2>1. pc'[p] = "sleep" => \E t \in SleepAt[p] \ passed[p] : t <= time_used[p]
    BY <1>2, <1>5 DEF Sleeps
  <2>2. QED
    BY <2>1, <1>1, <1>2, <1>4, <1>5
       DEF Phase, Unborn, Running, FallingAsleep, Asleep, Dead
<1>8. Unpaid(p)' = Unpaid(p)
  BY <1>1, <1>2, <1>4, <1>5 DEF Unpaid
<1>9. Overrun(p)'
  <2>1. time_used[p] + Pending(p) <= End[p] + 4
    BY <1>1, <1>2 DEF Budget, Overrun
  <2>2. Pending(p) \in 0 .. 2 /\ Pending(p)' \in 0 .. 2
    BY DEF Pending
  <2>3. ~ Ends(p) => time_used[p] + 1 <= End[p]
    BY <1>2 DEF Ends
  <2>4. time_used[p] + Pending(p)' <=
           End[p] + (IF pc'[p] = "sleep" THEN 1 ELSE IF pc'[p] = "loop" THEN 4 ELSE 6)
    BY <2>1, <2>2, <2>3, <1>2, <1>5
  <2>5. pc'[p] # "stop"
    BY <1>5
  <2>6. QED BY <2>4, <2>5, <1>2, <1>4 DEF Overrun
<1>10. Budget(p)'
  BY <1>2, <1>4, <1>8, <1>9 DEF Budget, Ceiling
<1>11. Sorted(slist', left')
  BY <1>4 DEF IInv
<1>12. QED
  BY <1>1, <1>2, <1>4, <1>5, <1>6, <1>7, <1>10, <1>11, LocalStep

LEMMA SleepTimesStep ==
  ASSUME IInv, NEW p \in Workers, SleepTimes(p), moved' = TRUE
  PROVE  IInv'
<1>1. cur_process = p /\ pc[p] = "sleep"
  BY DEF SleepTimes, At
<1>2. /\ Types /\ p \in Procs /\ Phase(p) /\ Budget(p)
      /\ time_used[p] \in Nat /\ End[p] \in Nat
      /\ state[p] = "RUN" /\ p \notin Members(slist)
      /\ Linked(runq, p) = {proc_getpos(priority[p])}
  BY <1>1, CurrentFacts
<1> DEFINE now == {t \in SleepAt[p] : t <= time_used[p]}
<1>3. /\ left' = [left EXCEPT ![p] = SLEEP]
      /\ passed' = [passed EXCEPT ![p] = @ \cup now]
      /\ pc' = [pc EXCEPT ![p] = "stop"]
  BY DEF SleepTimes, Goto
<1>4. /\ cur_process' = cur_process /\ state' = state /\ priority' = priority
      /\ time_slice' = time_slice /\ time_used' = time_used
      /\ runq' = runq /\ slist' = slist
  BY DEF SleepTimes
<1>5. now \subseteq SleepAt[p] /\ SleepAt[p] \subseteq Nat
  BY ConstantFacts
<1> HIDE DEF now
<1>6. /\ pc'[p] = "stop" /\ passed'[p] = passed[p] \cup now
      /\ \A x \in Procs \ {p} :
           pc'[x] = pc[x] /\ passed'[x] = passed[x] /\ left'[x] = left[x]
  BY <1>1, <1>2, <1>3 DEF Types
<1>7. Types'
  <2>1. SLEEP \in 0 .. SLEEP
    BY ConstantFacts
  <2>2. QED BY <2>1, <1>2, <1>3, <1>4, <1>5 DEF Types, Points
<1>8. PICK t \in SleepAt[p] \ passed[p] : t <= time_used[p]
  BY <1>1, <1>2 DEF Phase
<1>9. t \in now
  BY <1>8 DEF now
<1>10. passed[p] \subseteq SleepAt[p]
  BY <1>2 DEF Phase
<1>11. Phase(p)'
  BY <1>1, <1>2, <1>4, <1>5, <1>6, <1>9, <1>10
     DEF Phase, Unborn, Running, FallingAsleep, Asleep, Dead
<1>12. Unpaid(p)' \in Nat /\ Unpaid(p)' >= Unpaid(p) /\ Unpaid(p) \in Nat
  <2> DEFINE c == Cardinality(passed[p])
             d == Cardinality(passed[p] \cup now)
  <2>1. c \in Nat /\ d \in Nat /\ c < d
    <3>1. passed[p] \cup now \subseteq SleepAt[p] /\ passed[p] \subseteq SleepAt[p]
      BY <1>5, <1>10
    <3>2. IsFiniteSet(passed[p]) /\ IsFiniteSet(passed[p] \cup now) /\ c \in Nat /\ d \in Nat
      BY <3>1, PassedProps
    <3>3. passed[p] \in SUBSET (passed[p] \cup now) /\ passed[p] # passed[p] \cup now
      BY <1>8, <1>9
    <3>4. c <= d /\ c # d
      BY <3>2, <3>3, FS_Subset
    <3> HIDE DEF c, d
    <3>5. QED BY <3>2, <3>4
  <2>2. Unpaid(p) = c /\ Unpaid(p)' = d - 1
    <3>1. Unpaid(p) = c + 0
      BY <1>1, <1>2 DEF Unpaid
    <3>2. Unpaid(p)' = d + (-1)
      BY <1>6 DEF Unpaid
    <3> HIDE DEF c, d
    <3>3. QED BY <3>1, <3>2, <2>1
  <2> HIDE DEF c, d
  <2>3. QED BY <2>1, <2>2
<1>13. Overrun(p)'
  <2>1. time_used[p] + Pending(p) <= End[p] + 1
    BY <1>1, <1>2 DEF Budget, Overrun
  <2>2. Pending(p) \in 0 .. 2 /\ Pending(p)' \in 0 .. 2
    BY DEF Pending
  <2>3. time_used[p] + Pending(p)' <= End[p] + 3
    BY <2>1, <2>2, <1>2
  <2>4. QED BY <2>3, <1>2, <1>4, <1>6 DEF Overrun
<1>14. Budget(p)'
  <2>1. /\ time_slice[p] \in 0 .. TIMER_MAX /\ priority[p] \in Nat
        /\ time_used[p] >= time_slice[p] % ADJUST
        /\ priority[p] <= Ceiling(p, time_used[p], time_slice[p], Unpaid(p))
    BY <1>1, <1>2 DEF Types, Budget
  <2>2. priority[p] <= Ceiling(p, time_used[p], time_slice[p], Unpaid(p)')
    BY <2>1, <1>2, <1>12, CeilingMono
  <2>3. QED BY <2>2, <1>2, <1>4, <1>13 DEF Budget, Ceiling
<1>15. Sorted(slist', left')
  <2>1. \A i \in DOMAIN slist : slist[i] \in Procs \ {p}
    <3>1. \A i \in DOMAIN slist : slist[i] \in Workers /\ slist[i] # p
      BY <1>2 DEF Types, Members
    <3>2. QED BY <3>1, ConstantFacts
  <2>2. \A i \in DOMAIN slist : left'[slist[i]] = left[slist[i]]
    BY <2>1, <1>6
  <2>3. QED BY <2>2, <1>4 DEF IInv, Sorted
<1>16. QED
  BY <1>1, <1>2, <1>4, <1>6, <1>7, <1>11, <1>14, <1>15, LocalStep

LEMMA SleepStopsStep ==
  ASSUME IInv, NEW p \in Workers, SleepStops(p), moved' = TRUE
  PROVE  IInv'
<1>1. cur_process = p /\ pc[p] = "stop"
  BY DEF SleepStops, At
<1>2. /\ Types /\ p \in Procs /\ Phase(p) /\ Budget(p)
      /\ time_used[p] \in Nat /\ End[p] \in Nat
      /\ state[p] = "RUN" /\ p \notin Members(slist)
  BY <1>1, CurrentFacts
<1>3. state' = [state EXCEPT ![p] = "STOP"] /\ pc' = [pc EXCEPT ![p] = "clear"]
  BY DEF SleepStops, Goto
<1>4. /\ cur_process' = cur_process /\ priority' = priority
      /\ time_slice' = time_slice /\ time_used' = time_used /\ left' = left
      /\ passed' = passed /\ runq' = runq /\ slist' = slist
  BY DEF SleepStops
<1>5. /\ pc'[p] = "clear" /\ state'[p] = "STOP"
      /\ \A x \in Procs \ {p} : pc'[x] = pc[x] /\ state'[x] = state[x]
  BY <1>1, <1>2, <1>3 DEF Types
<1>6. Types'
  BY <1>2, <1>3, <1>4 DEF Types, Points, States
<1>7. Phase(p)'
  BY <1>1, <1>2, <1>4, <1>5
     DEF Phase, Unborn, Running, FallingAsleep, Asleep, Dead
<1>8. Unpaid(p)' = Unpaid(p)
  BY <1>1, <1>4, <1>5 DEF Unpaid
<1>9. Overrun(p)'
  <2>1. time_used[p] + Pending(p) <= End[p] + 3
    BY <1>1, <1>2 DEF Budget, Overrun
  <2>2. Pending(p) \in 0 .. 2
    BY DEF Pending
  <2>3. time_used[p] <= End[p] + 3
    BY <2>1, <2>2, <1>2
  <2>4. QED BY <2>3, <1>4, <1>5 DEF Overrun
<1>10. Budget(p)'
  BY <1>2, <1>4, <1>5, <1>8, <1>9 DEF Budget, Ceiling
<1>11. Sorted(slist', left')
  BY <1>4 DEF IInv
<1>12. QED
  BY <1>1, <1>2, <1>4, <1>5, <1>6, <1>7, <1>10, <1>11, LocalStep

LEMMA SleepClearsStep ==
  ASSUME IInv, NEW p \in Workers, SleepClears(p), moved' = TRUE
  PROVE  IInv'
<1>1. cur_process = p /\ pc[p] = "clear"
  BY DEF SleepClears, At
<1>2. /\ Types /\ p \in Procs /\ Phase(p) /\ Budget(p)
      /\ time_used[p] \in Nat /\ End[p] \in Nat /\ priority[p] \in Nat
      /\ time_slice[p] \in 0 .. TIMER_MAX - 1
      /\ state[p] = "STOP" /\ p \notin Members(slist)
      /\ Unpaid(p) \in Nat
  BY <1>1, CurrentFacts
<1>3. time_slice' = [time_slice EXCEPT ![p] = 0] /\ pc' = [pc EXCEPT ![p] = "unlink"]
  BY DEF SleepClears, Goto
<1>4. /\ cur_process' = cur_process /\ priority' = priority
      /\ state' = state /\ time_used' = time_used /\ left' = left
      /\ passed' = passed /\ runq' = runq /\ slist' = slist
  BY DEF SleepClears
<1>5. /\ pc'[p] = "unlink" /\ time_slice'[p] = 0
      /\ \A x \in Procs \ {p} : pc'[x] = pc[x] /\ time_slice'[x] = time_slice[x]
  BY <1>1, <1>2, <1>3 DEF Types
<1>6. Types'
  <2>1. 0 \in 0 .. TIMER_MAX
    BY ConstantFacts
  <2>2. QED BY <2>1, <1>2, <1>3, <1>4 DEF Types, Points
<1>7. Phase(p)'
  BY <1>1, <1>2, <1>4, <1>5, ConstantFacts
     DEF Phase, Unborn, Running, FallingAsleep, Asleep, Dead
<1>8. Unpaid(p)' \in Nat /\ Unpaid(p)' >= Unpaid(p)
  <2> DEFINE c == Cardinality(passed[p])
  <2>1. c \in Nat
    <3>1. passed[p] \subseteq SleepAt[p]
      BY <1>2 DEF Phase
    <3>2. QED BY <3>1, PassedProps
  <2>2. Unpaid(p) = c + (IF moved THEN -1 ELSE 0) /\ Unpaid(p)' = c + 0
    BY <1>1, <1>2, <1>4, <1>5 DEF Unpaid
  <2> HIDE DEF c
  <2>3. QED BY <2>1, <2>2
<1>9. Overrun(p)'
  BY <1>2, <1>4 DEF Budget, Overrun
<1>10. Budget(p)'
  <2>1. /\ time_used[p] >= time_slice[p] % ADJUST
        /\ priority[p] <= Ceiling(p, time_used[p], time_slice[p], Unpaid(p))
    BY <1>2 DEF Budget
  <2>2. /\ time_used[p] >= 0 % ADJUST
        /\ priority[p] <= Ceiling(p, time_used[p], 0, Unpaid(p))
    BY <2>1, <1>2, ConstantFacts, CeilingReset
  <2>3. 0 \in 0 .. TIMER_MAX
    BY ConstantFacts
  <2>4. priority[p] <= Ceiling(p, time_used[p], 0, Unpaid(p)')
    BY <2>2, <2>3, <1>2, <1>8, CeilingMono
  <2>5. QED BY <2>2, <2>4, <1>2, <1>4, <1>5, <1>9 DEF Budget, Ceiling
<1>11. Sorted(slist', left')
  BY <1>4 DEF IInv
<1>12. QED
  BY <1>1, <1>2, <1>4, <1>5, <1>6, <1>7, <1>10, <1>11, LocalStep

LEMMA SleepUnlinksStep ==
  ASSUME IInv, NEW p \in Workers, SleepUnlinks(p), moved' = TRUE
  PROVE  IInv'
<1>1. cur_process = p /\ pc[p] = "unlink"
  BY DEF SleepUnlinks, At
<1>2. /\ Types /\ p \in Procs /\ Phase(p) /\ Budget(p)
      /\ state[p] = "STOP" /\ p \notin Members(slist)
  BY <1>1, CurrentFacts
<1>3. runq' = UnlinkAll(runq, p) /\ pc' = [pc EXCEPT ![p] = "insert"]
  BY DEF SleepUnlinks, Goto
<1>4. /\ cur_process' = cur_process /\ priority' = priority
      /\ state' = state /\ time_used' = time_used /\ left' = left
      /\ passed' = passed /\ time_slice' = time_slice /\ slist' = slist
  BY DEF SleepUnlinks
<1>5. /\ pc'[p] = "insert"
      /\ \A x \in Procs \ {p} : pc'[x] = pc[x]
  BY <1>1, <1>2, <1>3 DEF Types
<1>6. /\ runq' \in [Queues -> Seq(Procs)]
      /\ \A x \in Procs \ {p} : Linked(runq', x) = Linked(runq, x)
  <2> DEFINE u == UnlinkAll(runq, p)
  <2>1. runq \in [Queues -> Seq(Procs)]
    BY <1>2 DEF Types
  <2>2. /\ u \in [Queues -> Seq(Procs)]
        /\ \A x : Linked(u, x) = IF x = p THEN {} ELSE Linked(runq, x)
    BY <2>1, UnlinkAllProps
  <2>3. runq' = u
    BY <1>3
  <2> HIDE DEF u
  <2>4. QED BY <2>2, <2>3
<1>7. Types'
  BY <1>2, <1>3, <1>4, <1>6 DEF Types, Points
<1>8. Phase(p)'
  BY <1>1, <1>2, <1>4, <1>5
     DEF Phase, Unborn, Running, FallingAsleep, Asleep, Dead
<1>9. Unpaid(p)' = Unpaid(p)
  BY <1>1, <1>2, <1>4, <1>5 DEF Unpaid
<1>10. Budget(p)'
  BY <1>2, <1>4, <1>9 DEF Budget, Overrun, Ceiling
<1>11. Sorted(slist', left')
  BY <1>4 DEF IInv
<1>12. QED
  BY <1>1, <1>2, <1>4, <1>5, <1>6, <1>7, <1>8, <1>10, <1>11, LocalStep

LEMMA SleepInsertsStep ==
  ASSUME IInv, NEW p \in Workers, SleepInserts(p), moved' = TRUE
  PROVE  IInv'
<1>1. cur_process = p /\ pc[p] = "insert"
  BY DEF SleepInserts, At
<1>2. /\ Types /\ p \in Procs /\ Phase(p) /\ Budget(p)
      /\ state[p] = "STOP" /\ p \notin Members(slist)
  BY <1>1, CurrentFacts
<1>3. /\ runq' = UnlinkAll(runq, p) /\ pc' = [pc EXCEPT ![p] = "schedule"]
      /\ slist' = InsertOrdered(slist, p)
  BY DEF SleepInserts, Goto
<1>4. /\ cur_process' = cur_process /\ priority' = priority
      /\ state' = state /\ time_used' = time_used /\ left' = left
      /\ passed' = passed /\ time_slice' = time_slice
  BY DEF SleepInserts
<1>5. /\ pc'[p] = "schedule"
      /\ \A x \in Procs \ {p} : pc'[x] = pc[x]
  BY <1>1, <1>2, <1>3 DEF Types
<1>6. /\ runq' \in [Queues -> Seq(Procs)]
      /\ Linked(runq', p) = {}
      /\ \A x \in Procs \ {p} : Linked(runq', x) = Linked(runq, x)
  <2> DEFINE u == UnlinkAll(runq, p)
  <2>1. runq \in [Queues -> Seq(Procs)]
    BY <1>2 DEF Types
  <2>2. /\ u \in [Queues -> Seq(Procs)]
        /\ \A x : Linked(u, x) = IF x = p THEN {} ELSE Linked(runq, x)
    BY <2>1, UnlinkAllProps
  <2>3. runq' = u
    BY <1>3
  <2> HIDE DEF u
  <2>4. QED BY <2>2, <2>3
<1>7. /\ slist' \in Seq(Workers)
      /\ Members(slist') = Members(slist) \cup {p}
      /\ Sorted(slist', left')
  <2>1. slist \in Seq(Workers) /\ left \in [Procs -> Nat] /\ Sorted(slist, left)
    BY <1>2 DEF Types, IInv
  <2>2. QED BY <2>1, <1>3, <1>4, InsertOrderedProps
<1>8. Types'
  BY <1>2, <1>3, <1>4, <1>6, <1>7 DEF Types, Points
<1>9. Phase(p)'
  BY <1>1, <1>2, <1>4, <1>5, <1>6, <1>7
     DEF Phase, Unborn, Running, FallingAsleep, Asleep, Dead
<1>10. Unpaid(p)' = Unpaid(p)
  BY <1>1, <1>2, <1>4, <1>5 DEF Unpaid
<1>11. Budget(p)'
  BY <1>2, <1>4, <1>10 DEF Budget, Overrun, Ceiling
<1>12. QED
  BY <1>1, <1>2, <1>4, <1>5, <1>6, <1>7, <1>8, <1>9, <1>11, LocalStep

LEMMA FreeMarksStep ==
  ASSUME IInv, NEW p \in Workers, FreeMarks(p), moved' = TRUE
  PROVE  IInv'
<1>1. cur_process = p /\ pc[p] = "free"
  BY DEF FreeMarks, At
<1>2. /\ Types /\ p \in Procs /\ Phase(p) /\ Budget(p)
      /\ time_used[p] \in Nat /\ End[p] \in Nat
      /\ state[p] = "RUN" /\ p \notin Members(slist)
  BY <1>1, CurrentFacts
<1>3. state' = [state EXCEPT ![p] = "ZOMBIE"] /\ pc' = [pc EXCEPT ![p] = "remove"]
  BY DEF FreeMarks, Goto
<1>4. /\ cur_process' = cur_process /\ priority' = priority
      /\ time_slice' = time_slice /\ time_used' = time_used /\ left' = left
      /\ passed' = passed /\ runq' = runq /\ slist' = slist
  BY DEF FreeMarks
<1>5. /\ pc'[p] = "remove" /\ state'[p] = "ZOMBIE"
      /\ \A x \in Procs \ {p} : pc'[x] = pc[x] /\ state'[x] = state[x]
  BY <1>1, <1>2, <1>3 DEF Types
<1>6. Types'
  BY <1>2, <1>3, <1>4 DEF Types, Points, States
<1>7. Phase(p)'
  BY <1>1, <1>2, <1>4, <1>5
     DEF Phase, Unborn, Running, FallingAsleep, Asleep, Dead
<1>8. Unpaid(p)' = Unpaid(p)
  BY <1>1, <1>2, <1>4, <1>5 DEF Unpaid
<1>9. Overrun(p)'
  <2>1. time_used[p] + Pending(p) <= End[p] + 6
    BY <1>1, <1>2 DEF Budget, Overrun
  <2>2. Pending(p) \in 0 .. 2
    BY DEF Pending
  <2>3. time_used[p] <= End[p] + 6
    BY <2>1, <2>2, <1>2
  <2>4. QED BY <2>3, <1>4, <1>5 DEF Overrun
<1>10. Budget(p)'
  BY <1>2, <1>4, <1>5, <1>8, <1>9 DEF Budget, Ceiling
<1>11. Sorted(slist', left')
  BY <1>4 DEF IInv
<1>12. QED
  BY <1>1, <1>2, <1>4, <1>5, <1>6, <1>7, <1>10, <1>11, LocalStep

LEMMA FreeUnlinksStep ==
  ASSUME IInv, NEW p \in Workers, FreeUnlinks(p), moved' = TRUE
  PROVE  IInv'
<1>1. cur_process = p /\ pc[p] = "remove"
  BY DEF FreeUnlinks, At
<1>2. /\ Types /\ p \in Procs /\ Phase(p) /\ Budget(p)
      /\ time_slice[p] \in 0 .. TIMER_MAX - 1 /\ priority[p] \in Nat
      /\ time_used[p] \in Nat
      /\ state[p] = "ZOMBIE" /\ p \notin Members(slist)
      /\ Unpaid(p) \in Nat
  BY <1>1, CurrentFacts
<1>3. runq' = UnlinkAll(runq, p) /\ pc' = [pc EXCEPT ![p] = "schedule"]
  BY DEF FreeUnlinks, Goto
<1>4. /\ cur_process' = cur_process /\ priority' = priority
      /\ state' = state /\ time_used' = time_used /\ left' = left
      /\ passed' = passed /\ time_slice' = time_slice /\ slist' = slist
  BY DEF FreeUnlinks
<1>5. /\ pc'[p] = "schedule"
      /\ \A x \in Procs \ {p} : pc'[x] = pc[x]
  BY <1>1, <1>2, <1>3 DEF Types
<1>6. /\ runq' \in [Queues -> Seq(Procs)]
      /\ \A x \in Procs \ {p} : Linked(runq', x) = Linked(runq, x)
  <2> DEFINE u == UnlinkAll(runq, p)
  <2>1. runq \in [Queues -> Seq(Procs)]
    BY <1>2 DEF Types
  <2>2. /\ u \in [Queues -> Seq(Procs)]
        /\ \A x : Linked(u, x) = IF x = p THEN {} ELSE Linked(runq, x)
    BY <2>1, UnlinkAllProps
  <2>3. runq' = u
    BY <1>3
  <2> HIDE DEF u
  <2>4. QED BY <2>2, <2>3
<1>7. Types'
  BY <1>2, <1>3, <1>4, <1>6 DEF Types, Points
<1>8. Phase(p)'
  BY <1>1, <1>2, <1>4, <1>5
     DEF Phase, Unborn, Running, FallingAsleep, Asleep, Dead
<1>9. Unpaid(p)' \in Nat /\ Unpaid(p)' >= Unpaid(p)
  <2> DEFINE c == Cardinality(passed[p])
  <2>1. c \in Nat
    <3>1. passed[p] \subseteq SleepAt[p]
      BY <1>2 DEF Phase
    <3>2. QED BY <3>1, PassedProps
  <2>2. Unpaid(p) = c + (IF moved THEN 0 ELSE 1) /\ Unpaid(p)' = c + 1
    BY <1>1, <1>2, <1>4, <1>5 DEF Unpaid
  <2> HIDE DEF c
  <2>3. QED BY <2>1, <2>2
<1>10. Budget(p)'
  <2>1. /\ time_used[p] >= time_slice[p] % ADJUST
        /\ priority[p] <= Ceiling(p, time_used[p], time_slice[p], Unpaid(p))
        /\ time_slice[p] \in 0 .. TIMER_MAX
    BY <1>2 DEF Budget, Types
  <2>2. priority[p] <= Ceiling(p, time_used[p], time_slice[p], Unpaid(p)')
    BY <2>1, <1>2, <1>9, CeilingMono
  <2>3. QED BY <2>1, <2>2, <1>2, <1>4 DEF Budget, Overrun, Ceiling
<1>11. Sorted(slist', left')
  BY <1>4 DEF IInv
<1>12. QED
  BY <1>1, <1>2, <1>4, <1>5, <1>6, <1>7, <1>8, <1>10, <1>11, LocalStep

-----------------------------------------------------------------------------
(* The first state, and the creation of the workers.                       *)

LEMMA InitStep == "asleep" \notin Windows /\ Init => IInv
<1> SUFFICES ASSUME "asleep" \notin Windows, Init
             PROVE  IInv
  OBVIOUS
<1>1. Types
  <2>1. <<Idle>> \in Seq(Procs) /\ <<>> \in Seq(Procs) /\ <<>> \in Seq(Workers)
    BY ConstantFacts
  <2>2. runq \in [Queues -> Seq(Procs)]
    BY <2>1 DEF Init
  <2>3. /\ 0 \in 0 .. TIMER_MAX /\ 0 \in 0 .. SLEEP /\ {} \in SUBSET Nat
        /\ Idle \in Procs /\ LOWEST \in Nat
    BY ConstantFacts
  <2>4. /\ state \in [Procs -> States] /\ pc \in [Procs -> Points]
        /\ priority \in [Procs -> Nat] /\ time_slice \in [Procs -> 0 .. TIMER_MAX]
        /\ time_used \in [Procs -> Nat] /\ left \in [Procs -> 0 .. SLEEP]
        /\ passed \in [Procs -> SUBSET Nat]
    BY <2>3 DEF Init, States, Points
  <2>5. cur_process \in Procs /\ slist \in Seq(Workers) /\ moved \in BOOLEAN
    BY <2>1, <2>3 DEF Init
  <2>6. QED
    BY <2>2, <2>4, <2>5 DEF Types
<1>2. IdleState
  BY ConstantFacts DEF Init, IdleState
<1>3. Members(slist) = {} /\ Sorted(slist, left)
  BY DEF Init, Members, Sorted
<1>4. ASSUME NEW p \in Workers PROVE Phase(p) /\ Budget(p)
  <2>1. /\ p \in Procs /\ p # Idle
        /\ state[p] = "UNUSED" /\ pc[p] = "loop" /\ cur_process # p
        /\ time_used[p] = 0 /\ time_slice[p] = 0 /\ passed[p] = {}
        /\ priority[p] = 0
    BY ConstantFacts DEF Init
  <2>2. Phase(p)
    BY <2>1, <1>3, ConstantFacts DEF Phase, Unborn
  <2>3. 0 % ADJUST = 0 /\ End[p] \in Nat
    BY ConstantFacts
  <2>4. Budget(p)
    BY <2>1, <2>3 DEF Budget, Overrun
  <2>5. QED BY <2>2, <2>4
<1>5. Queued
  <2>1. ASSUME NEW p \in Procs, state[p] = "RUN"
        PROVE  Linked(runq, p) = {proc_getpos(priority[p])}
    <3>1. p = Idle /\ priority[p] = LOWEST
      BY <2>1 DEF Init
    <3>2. RQ_NQS - 1 \in Queues /\ proc_getpos(LOWEST) = RQ_NQS - 1
      BY ConstantFacts, IdleAssumption DEF Queues, proc_getpos
    <3>3. Members(<<Idle>>) = {Idle} /\ Members(<<>>) = {}
      BY DEF Members
    <3>4. \A i \in Queues : Idle \in Members(runq[i]) <=> i = RQ_NQS - 1
      BY <3>3 DEF Init
    <3>5. QED BY <3>1, <3>2, <3>4 DEF Linked
  <2>2. QED BY <2>1 DEF Queued
<1>6. QED BY <1>1, <1>2, <1>3, <1>4, <1>5 DEF IInv

LEMMA IdleCreatesStep ==
  ASSUME IInv, IdleCreates, moved' = TRUE
  PROVE  IInv'
<1>1. PICK p \in Workers :
        /\ state[p] = "UNUSED"
        /\ state' = [state EXCEPT ![p] = "RUN"]
        /\ priority' = [priority EXCEPT ![p] = Priority0[p]]
        /\ runq' = Enqueue(runq, p, Priority0[p])
        /\ pc' = [pc EXCEPT ![Idle] = IF p + 1 \in Workers THEN "create"
                                      ELSE "schedule"]
  BY DEF IdleCreates, Goto
<1>2. /\ cur_process = Idle /\ cur_process' = Idle /\ time_slice' = time_slice
      /\ time_used' = time_used /\ left' = left /\ passed' = passed
      /\ slist' = slist
  BY DEF IdleCreates
<1>3. Types /\ p \in Procs /\ p # Idle /\ Idle \in Procs
  BY ConstantFacts DEF IInv
<1>4. /\ Priority0[p] \in Nat /\ Priority0[p] <= LOWEST /\ End[p] \in Nat
      /\ proc_getpos(Priority0[p]) \in Queues
  BY ConstantFacts, QueueOf
<1>5. /\ runq' \in [Queues -> Seq(Procs)]
      /\ \A x : Linked(runq', x) =
           IF x = p THEN {proc_getpos(Priority0[p])} ELSE Linked(runq, x)
  <2> DEFINE e == Enqueue(runq, p, Priority0[p])
  <2>1. runq \in [Queues -> Seq(Procs)]
    BY <1>3 DEF Types
  <2>2. /\ e \in [Queues -> Seq(Procs)]
        /\ \A x : Linked(e, x) =
             IF x = p THEN {proc_getpos(Priority0[p])} ELSE Linked(runq, x)
    BY <2>1, <1>3, <1>4, EnqueueProps
  <2>3. runq' = e
    BY <1>1
  <2> HIDE DEF e
  <2>4. QED BY <2>2, <2>3
<1>6. /\ state'[p] = "RUN" /\ priority'[p] = Priority0[p] /\ pc'[p] = pc[p]
      /\ pc'[Idle] \in {"create", "schedule"}
      /\ \A x \in Procs \ {p} : state'[x] = state[x] /\ priority'[x] = priority[x]
      /\ \A x \in Workers : pc'[x] = pc[x]
  BY <1>1, <1>3, ConstantFacts DEF Types
<1>7. Types'
  BY <1>1, <1>2, <1>3, <1>4, <1>5 DEF Types, States, Points
<1>8. Unborn(p) /\ Phase(p) /\ p \notin Members(slist)
  BY <1>1 DEF IInv, Phase, Unborn, Running, FallingAsleep, Asleep, Dead
<1>9. Phase(p)'
  BY <1>2, <1>3, <1>6, <1>8 DEF Phase, Unborn, Running
<1>10. Budget(p)'
  <2>1. 0 % ADJUST = 0
    BY ConstantFacts
  <2>2. Pending(p)' = 1
    BY <1>2, <1>3 DEF Pending
  <2>3. Overrun(p)'
    BY <2>2, <1>2, <1>4, <1>6, <1>8 DEF Overrun, Unborn
  <2>4. Unpaid(p)' = Unpaid(p) /\ Unpaid(p) \in Nat
    BY <1>1, <1>2, <1>6, <1>8, WorkerFacts DEF Unpaid, Unborn
  <2>5. Priority0[p] <= Ceiling(p, 0, 0, Unpaid(p))
    BY <2>4, CeilingBase
  <2>6. priority'[p] <= Ceiling(p, time_used'[p], time_slice'[p], Unpaid(p)')
    BY <2>4, <2>5, <1>2, <1>6, <1>8 DEF Unborn
  <2>7. time_used'[p] >= time_slice'[p] % ADJUST
    BY <2>1, <1>2, <1>8 DEF Unborn
  <2>8. QED BY <2>3, <2>6, <2>7, <1>6 DEF Budget, Ceiling
<1>11. ASSUME NEW x \in Workers, x # p PROVE Phase(x)' /\ Budget(x)'
  <2>1. x \in Procs \ {p} /\ x # Idle
    BY <1>11, ConstantFacts
  <2>2. Linked(runq', x) = Linked(runq, x)
    BY <1>5, <1>11
  <2>3. /\ state'[x] = state[x] /\ pc'[x] = pc[x] /\ priority'[x] = priority[x]
        /\ time_slice'[x] = time_slice[x] /\ time_used'[x] = time_used[x]
        /\ passed'[x] = passed[x] /\ cur_process # x /\ cur_process' # x
        /\ x \in Members(slist') <=> x \in Members(slist)
    BY <2>1, <1>2, <1>6
  <2>4. QED BY <2>2, <2>3, <1>7, OthersKeep
<1>12. \A x \in Workers : Phase(x)'
  BY <1>9, <1>11
<1>13. \A x \in Workers : Budget(x)'
  BY <1>10, <1>11
<1>14. IdleState'
  BY <1>2, <1>3, <1>6 DEF IInv, IdleState
<1>15. Queued'
  <2>1. SUFFICES ASSUME NEW x \in Procs, state'[x] = "RUN"
                 PROVE  Linked(runq', x) = {proc_getpos(priority'[x])}
    BY DEF Queued, proc_getpos, Linked
  <2>2. CASE x = p
    BY <2>2, <1>5, <1>6
  <2>3. CASE x # p
    BY <2>1, <2>3, <1>5, <1>6 DEF IInv, Queued
  <2>4. QED BY <2>2, <2>3
<1>16. Sorted(slist, left)'
  BY <1>2 DEF IInv, Sorted
<1>17. QED
  BY <1>7, <1>12, <1>13, <1>14, <1>15, <1>16 DEF IInv

-----------------------------------------------------------------------------
(* The calls of schedule().                                                *)

\* What a call of schedule() does to a worker that was not current.
LEMMA ScheduledOthers ==
  ASSUME IInv, Types', NEW x \in Workers, cur_process # x,
         NEW rq, NEW slice, NEW lf, NEW due \in SUBSET Members(slist),
         Scheduled(rq, slice, lf, due),
         slice \in [Procs -> 0 .. TIMER_MAX], slice[x] = time_slice[x],
         Linked(rq, x) = Linked(runq, x), pc'[x] = pc[x],
         priority'[x] = priority[x], time_used'[x] = time_used[x],
         passed'[x] = passed[x]
  PROVE  /\ Phase(x)' /\ Budget(x)'
         /\ state'[x] = "RUN" => Linked(runq', x) = {proc_getpos(priority'[x])}
<1>1. /\ Types /\ x \in Procs /\ Phase(x) /\ Budget(x)
      /\ Unpaid(x) \in Nat /\ time_used[x] \in Nat /\ End[x] \in Nat
      /\ time_slice[x] \in 0 .. TIMER_MAX /\ priority[x] \in Nat
  BY WorkerFacts, ConstantFacts DEF IInv, Types
<1>2. PICK next \in Procs : /\ cur_process' = next
                            /\ time_slice' = [slice EXCEPT ![next] = 0]
                            /\ state'[next] = "RUN"
  BY DEF Scheduled
<1>3. /\ state'[x] = IF x \in due THEN "RUN" ELSE state[x]
      /\ Linked(runq', x) = IF x \in due
                            THEN Linked(rq, x) \cup {proc_getpos(priority[x])}
                            ELSE Linked(rq, x)
      /\ x \in Members(slist') <=> x \in Members(slist) /\ x \notin due
  BY <1>1 DEF Scheduled
<1>4. time_slice'[x] = IF next = x THEN 0 ELSE time_slice[x]
  BY <1>1, <1>2
<1>5. CASE x \notin due /\ next # x
  <2>1. Phase(x)' /\ Budget(x)'
    BY <1>2, <1>3, <1>4, <1>5, OthersKeep
  <2>2. state'[x] = "RUN" => Linked(runq', x) = {proc_getpos(priority'[x])}
    BY <1>1, <1>3, <1>5 DEF IInv, Queued
  <2>3. QED BY <2>1, <2>2
<1>6. CASE x \in due \/ next = x
  <2>1. /\ state'[x] = "RUN" /\ x \notin Members(slist')
        /\ Linked(runq', x) = {proc_getpos(priority[x])}
        /\ pc[x] \in {"loop", "sleep", "stop", "free"}
        /\ state[x] \in {"RUN", "STOP"}
        /\ state[x] = "STOP" => pc[x] = "loop"
    <3>1. CASE x \in due
      <4>1. Asleep(x) /\ Linked(runq, x) = {}
        BY <3>1, <1>1 DEF Phase
      <4>2. QED BY <3>1, <4>1, <1>3 DEF Asleep
    <3>2. CASE x \notin due
      <4>1. state[x] = "RUN" /\ next = x
        BY <3>2, <1>2, <1>3, <1>6
      <4>2. Running(x) /\ x \notin Members(slist)
        BY <4>1, <1>1 DEF Phase, Unborn, Running, FallingAsleep, Asleep, Dead
      <4>3. Linked(runq, x) = {proc_getpos(priority[x])}
        BY <4>1, <1>1 DEF IInv, Queued
      <4>4. QED BY <3>2, <4>1, <4>2, <4>3, <1>3 DEF Running
    <3>3. QED BY <3>1, <3>2
  <2>2. Phase(x)'
    <3>1. cur_process' = x => time_slice'[x] < TIMER_MAX
      BY <1>2, <1>4, ConstantFacts
    <3>2. QED BY <2>1, <3>1, <1>1 DEF Phase, Running
  <2>3. Pending(x)' <= 1 /\ Pending(x)' \in Nat
    <3>1. time_slice'[x] = TIMER_MAX - 1 => cur_process' # x
      BY <1>2, <1>4, ConstantFacts
    <3>2. QED BY <3>1 DEF Pending
  <2>4. Overrun(x)'
    <3>1. state[x] = "RUN" => Pending(x) = 1
      BY DEF Pending
    <3>2. Overrun(x)
      BY <1>1 DEF Budget
    <3>3. state[x] = "RUN" =>
            time_used[x] + 1 <= End[x] + (IF pc[x] = "sleep" THEN 1
                                          ELSE IF pc[x] = "stop" THEN 3
                                          ELSE IF pc[x] = "loop" THEN 4 ELSE 6)
      BY <3>1, <3>2 DEF Overrun
    <3>4. state[x] = "STOP" => time_used[x] + 1 <= End[x] + 4
      BY <3>2, <1>1 DEF Overrun
    <3>5. time_used[x] + 1 <= End[x] + (IF pc[x] = "sleep" THEN 1
                                        ELSE IF pc[x] = "stop" THEN 3
                                        ELSE IF pc[x] = "loop" THEN 4 ELSE 6)
      BY <3>3, <3>4, <2>1
    <3>6. time_used[x] + Pending(x)' <=
             End[x] + (IF pc[x] = "sleep" THEN 1
                       ELSE IF pc[x] = "stop" THEN 3
                       ELSE IF pc[x] = "loop" THEN 4 ELSE 6)
      BY <3>5, <2>3, <1>1
    <3>7. QED BY <3>6, <2>1 DEF Overrun
  <2>5. Unpaid(x)' = Unpaid(x)
    BY <2>1 DEF Unpaid
  <2>6. /\ time_used[x] >= time_slice'[x] % ADJUST
        /\ priority[x] <= Ceiling(x, time_used[x], time_slice'[x], Unpaid(x))
    <3>1. /\ time_used[x] >= time_slice[x] % ADJUST
          /\ priority[x] <= Ceiling(x, time_used[x], time_slice[x], Unpaid(x))
      BY <2>1, <1>1 DEF Budget
    <3>2. /\ time_used[x] >= 0 % ADJUST
          /\ priority[x] <= Ceiling(x, time_used[x], 0, Unpaid(x))
      BY <3>1, <1>1, CeilingReset
    <3>3. QED BY <3>1, <3>2, <1>4
  <2>7. Budget(x)'
    BY <2>1, <2>4, <2>5, <2>6 DEF Budget, Ceiling
  <2>8. QED BY <2>1, <2>2, <2>7
<1>7. QED BY <1>5, <1>6

\* schedule() keeps the types.
LEMMA ScheduledTypes ==
  ASSUME Types, NEW rq, NEW slice \in [Procs -> 0 .. TIMER_MAX], NEW lf, NEW due,
         Scheduled(rq, slice, lf, due),
         pc' \in [Procs -> Points], priority' \in [Procs -> Nat],
         time_used' \in [Procs -> Nat], left' \in [Procs -> 0 .. SLEEP],
         passed' \in [Procs -> SUBSET Nat], moved' \in BOOLEAN
  PROVE  Types'
<1>1. 0 \in 0 .. TIMER_MAX
  BY ConstantFacts
<1>2. cur_process' \in Procs /\ time_slice' \in [Procs -> 0 .. TIMER_MAX]
  BY <1>1 DEF Scheduled
<1>3. state' \in [Procs -> States]
  BY DEF Scheduled, Types, States
<1>4. runq' \in [Queues -> Seq(Procs)] /\ slist' \in Seq(Workers)
  BY DEF Scheduled
<1>5. QED BY <1>2, <1>3, <1>4 DEF Types

\* and idle.
LEMMA ScheduledIdle ==
  ASSUME IInv, NEW rq, NEW slice \in [Procs -> 0 .. TIMER_MAX], NEW lf,
         NEW due \in SUBSET Members(slist), Scheduled(rq, slice, lf, due),
         slice[Idle] = 0, pc'[Idle] = pc[Idle], priority'[Idle] = priority[Idle],
         Linked(rq, Idle) = Linked(runq, Idle)
  PROVE  /\ IdleState'
         /\ Linked(runq', Idle) = {proc_getpos(priority'[Idle])}
<1>1. Types /\ IdleState /\ Idle \in Procs /\ Idle \notin due
  BY ConstantFacts DEF IInv, Types, Members
<1>2. state'[Idle] = "RUN"
  BY <1>1 DEF Scheduled, IdleState
<1>3. time_slice'[Idle] = 0
  BY <1>1 DEF Scheduled
<1>4. Linked(runq', Idle) = Linked(runq, Idle)
  BY <1>1 DEF Scheduled
<1>5. Linked(runq, Idle) = {proc_getpos(priority[Idle])}
  BY <1>1 DEF IInv, Queued, IdleState
<1>6. QED BY <1>1, <1>2, <1>3, <1>4, <1>5 DEF IdleState

\* The call of schedule() by the current process, with nothing else done.
LEMMA CallFacts ==
  ASSUME IInv, schedule(runq, time_slice, left)
  PROVE  /\ Due(left) = {p \in Members(slist) : left[p] = 0}
         /\ Due(left) \in SUBSET Members(slist)
         /\ Scheduled(runq, time_slice, left, Due(left))
<1>1. /\ Types /\ state[Idle] = "RUN" /\ Sorted(slist, left)
      /\ runq \in [Queues -> Seq(Procs)] /\ left \in [Procs -> Nat]
  BY DEF IInv, IdleState, Types
<1>2. \A p \in Workers : proc_getpos(priority[p]) \in Queues
  BY WorkerFacts
<1>3. /\ Due(left) = {p \in Members(slist) : left[p] = 0}
      /\ Scheduled(runq, time_slice, left, Due(left))
  BY <1>1, <1>2, ScheduleEffect
<1>4. QED BY <1>3

LEMMA IdleSchedulesStep ==
  ASSUME IInv, IdleSchedules, moved' = TRUE
  PROVE  IInv'
<1> DEFINE due == Due(left)
<1>1. /\ cur_process = Idle /\ pc' = pc /\ priority' = priority
      /\ time_used' = time_used /\ left' = left /\ passed' = passed
      /\ schedule(runq, time_slice, left)
  BY DEF IdleSchedules
<1>2. due \in SUBSET Members(slist) /\ Scheduled(runq, time_slice, left, due)
  BY <1>1, CallFacts
<1> HIDE DEF due
<1>3. Types /\ IdleState /\ time_slice \in [Procs -> 0 .. TIMER_MAX]
  BY DEF IInv, Types
<1>4. Types'
  <2>1. /\ pc' \in [Procs -> Points] /\ priority' \in [Procs -> Nat]
        /\ time_used' \in [Procs -> Nat] /\ left' \in [Procs -> 0 .. SLEEP]
        /\ passed' \in [Procs -> SUBSET Nat] /\ moved' \in BOOLEAN
    BY <1>1, <1>3 DEF Types
  <2>2. QED BY <2>1, <1>2, <1>3, ScheduledTypes
<1>5. ASSUME NEW x \in Workers
      PROVE  /\ Phase(x)' /\ Budget(x)'
             /\ state'[x] = "RUN" => Linked(runq', x) = {proc_getpos(priority'[x])}
  <2>1. cur_process # x
    BY <1>1, ConstantFacts
  <2>2. QED BY <2>1, <1>1, <1>2, <1>3, <1>4, ScheduledOthers
<1>6. IdleState' /\ Linked(runq', Idle) = {proc_getpos(priority'[Idle])}
  BY <1>1, <1>2, <1>3, ScheduledIdle DEF IdleState
<1>7. \A x \in Workers : Phase(x)'
  BY <1>5
<1>8. \A x \in Workers : Budget(x)'
  BY <1>5
<1>9. Queued'
  <2>1. SUFFICES ASSUME NEW x \in Procs, state'[x] = "RUN"
                 PROVE  Linked(runq', x) = {proc_getpos(priority'[x])}
    BY DEF Queued, proc_getpos, Linked
  <2>2. x = Idle \/ x \in Workers
    BY DEF Procs
  <2>3. QED BY <2>1, <2>2, <1>5, <1>6
<1>10. Sorted(slist, left)'
  BY <1>1, <1>2 DEF Scheduled, Sorted
<1>11. QED
  BY <1>4, <1>6, <1>7, <1>8, <1>9, <1>10 DEF IInv

LEMMA WorkerSchedulesStep ==
  ASSUME IInv, NEW p \in Workers, WorkerSchedules(p), moved' = TRUE
  PROVE  IInv'
<1> DEFINE due == Due(left)
<1>1. /\ cur_process = p /\ pc[p] = "schedule"
      /\ pc' = [pc EXCEPT ![p] = "loop"] /\ priority' = priority
      /\ time_used' = time_used /\ left' = left /\ passed' = passed
      /\ schedule(runq, time_slice, left)
  BY DEF WorkerSchedules, At, Goto
<1>2. /\ due = {x \in Members(slist) : left[x] = 0}
      /\ due \in SUBSET Members(slist)
      /\ Scheduled(runq, time_slice, left, due)
  BY <1>1, CallFacts
<1> HIDE DEF due
<1>3. /\ Types /\ IdleState /\ time_slice \in [Procs -> 0 .. TIMER_MAX]
      /\ p \in Procs /\ p # Idle /\ Idle \in Procs
      /\ Phase(p) /\ Budget(p) /\ Unpaid(p) \in Nat
      /\ Asleep(p) \/ Dead(p)
      /\ time_used[p] \in Nat /\ End[p] \in Nat /\ priority[p] \in Nat
      /\ time_slice[p] \in 0 .. TIMER_MAX
  BY <1>1, CurrentFacts, ConstantFacts DEF IInv, Types
<1>4. /\ pc'[p] = "loop" /\ \A x \in Procs \ {p} : pc'[x] = pc[x]
      /\ pc'[Idle] = pc[Idle]
  BY <1>1, <1>3 DEF Types
<1>5. Types'
  <2>1. /\ pc' \in [Procs -> Points] /\ priority' \in [Procs -> Nat]
        /\ time_used' \in [Procs -> Nat] /\ left' \in [Procs -> 0 .. SLEEP]
        /\ passed' \in [Procs -> SUBSET Nat] /\ moved' \in BOOLEAN
    BY <1>1, <1>3 DEF Types, Points
  <2>2. QED BY <2>1, <1>2, <1>3, ScheduledTypes
<1>6. ASSUME NEW x \in Workers, x # p
      PROVE  /\ Phase(x)' /\ Budget(x)'
             /\ state'[x] = "RUN" => Linked(runq', x) = {proc_getpos(priority'[x])}
  <2>1. cur_process # x /\ pc'[x] = pc[x]
    BY <1>1, <1>4, <1>6, ConstantFacts
  <2>2. QED BY <2>1, <1>1, <1>2, <1>3, <1>5, ScheduledOthers
<1>7. /\ cur_process' = Idle /\ time_slice'[p] = time_slice[p]
      /\ state'[p] = IF p \in due THEN "RUN" ELSE state[p]
      /\ Linked(runq', p) = IF p \in due
                            THEN Linked(runq, p) \cup {proc_getpos(priority[p])}
                            ELSE Linked(runq, p)
      /\ p \in Members(slist') <=> p \in Members(slist) /\ p \notin due
  BY <1>1, <1>2, <1>3 DEF Scheduled
<1>8. /\ Phase(p)' /\ Budget(p)'
      /\ state'[p] = "RUN" => Linked(runq', p) = {proc_getpos(priority'[p])}
  <2>1. CASE Asleep(p) /\ p \in due
    <3>1. state[p] = "STOP" /\ state'[p] = "RUN" /\ p \notin Members(slist')
      BY <2>1, <1>7 DEF Asleep
    <3>2. Linked(runq', p) = {proc_getpos(priority'[p])}
      BY <2>1, <1>1, <1>2, <1>3, <1>7 DEF Phase
    <3>3. Phase(p)'
      BY <3>1, <1>1, <1>3, <1>4, <1>7 DEF Phase, Running
    <3>4. Overrun(p)'
      <4>1. time_used[p] <= End[p] + 3
        BY <3>1, <1>3 DEF Budget, Overrun
      <4>2. Pending(p)' = 1
        BY <1>3, <1>7 DEF Pending
      <4>3. time_used[p] + 1 <= End[p] + 4
        BY <4>1, <1>3
      <4>4. QED BY <4>2, <4>3, <3>1, <1>1, <1>4 DEF Overrun
    <3>5. Unpaid(p)' = Unpaid(p)
      BY <3>1, <1>1, <1>4 DEF Unpaid
    <3>6. Budget(p)'
      BY <3>1, <3>4, <3>5, <1>1, <1>3, <1>7 DEF Budget, Ceiling
    <3>7. QED BY <3>2, <3>3, <3>6
  <2>2. CASE Asleep(p) /\ p \notin due
    <3>1. state[p] = "STOP" /\ state'[p] = "STOP" /\ p \in Members(slist')
      BY <2>2, <1>7 DEF Asleep
    <3>2. Linked(runq', p) = {}
      BY <2>2, <1>3, <1>7 DEF Phase, Asleep
    <3>3. Phase(p)'
      BY <3>1, <3>2, <1>1, <1>3, <1>4, <1>7 DEF Phase, Asleep
    <3>4. Unpaid(p)' = Unpaid(p)
      BY <3>1, <1>1, <1>4 DEF Unpaid
    <3>5. Budget(p)'
      BY <3>1, <3>4, <1>1, <1>3, <1>7 DEF Budget, Overrun, Ceiling
    <3>6. QED BY <3>1, <3>3, <3>5
  <2>3. CASE Dead(p)
    <3>1. p \notin Members(slist) /\ state[p] = "ZOMBIE"
      BY <2>3, <1>3 DEF Phase, Asleep, Dead
    <3>2. state'[p] = "ZOMBIE" /\ p \notin Members(slist')
      BY <3>1, <1>2, <1>7
    <3>3. Phase(p)'
      BY <3>2, <1>1, <1>3, <1>4, <1>7 DEF Phase, Dead
    <3>4. Unpaid(p)' \in Nat /\ Unpaid(p) <= Unpaid(p)'
      <4> DEFINE c == Cardinality(passed[p])
      <4>1. c \in Nat
        <5>1. passed[p] \subseteq SleepAt[p]
          BY <1>3 DEF Phase
        <5>2. QED BY <5>1, PassedProps
      <4>2. Unpaid(p) = c + (IF moved THEN 1 ELSE 2) /\ Unpaid(p)' = c + 2
        BY <3>1, <3>2, <1>1, <1>4 DEF Unpaid
      <4> HIDE DEF c
      <4>3. QED BY <4>1, <4>2
    <3>5. /\ time_used[p] >= time_slice[p] % ADJUST
          /\ priority[p] <= Ceiling(p, time_used[p], time_slice[p], Unpaid(p))
      BY <3>1, <1>3 DEF Budget
    <3>6. priority[p] <= Ceiling(p, time_used[p], time_slice[p], Unpaid(p)')
      BY <3>4, <3>5, <1>3, CeilingMono
    <3>7. Overrun(p)'
      BY <3>1, <3>2, <1>1, <1>3 DEF Budget, Overrun
    <3>8. Budget(p)'
      BY <3>2, <3>5, <3>6, <3>7, <1>1, <1>7 DEF Budget, Ceiling
    <3>9. QED BY <3>2, <3>3, <3>8
  <2>4. QED BY <1>3, <2>1, <2>2, <2>3
<1>9. IdleState' /\ Linked(runq', Idle) = {proc_getpos(priority'[Idle])}
  BY <1>1, <1>2, <1>3, <1>4, ScheduledIdle DEF IdleState
<1>10. \A x \in Workers : Phase(x)'
  BY <1>6, <1>8
<1>11. \A x \in Workers : Budget(x)'
  BY <1>6, <1>8
<1>12. Queued'
  <2>1. SUFFICES ASSUME NEW x \in Procs, state'[x] = "RUN"
                 PROVE  Linked(runq', x) = {proc_getpos(priority'[x])}
    BY DEF Queued, proc_getpos, Linked
  <2>2. x = Idle \/ x \in Workers
    BY DEF Procs
  <2>3. QED BY <2>1, <2>2, <1>6, <1>8, <1>9
<1>13. Sorted(slist, left)'
  BY <1>1, <1>2 DEF Scheduled, Sorted
<1>14. QED
  BY <1>5, <1>9, <1>10, <1>11, <1>12, <1>13 DEF IInv

-----------------------------------------------------------------------------
(* The timer.                                                              *)

\* The sleep list stays sorted as the times of all sleepers come nearer.
LEMMA CountdownProps ==
  ASSUME Types, Sorted(slist, left)
  PROVE  LET lf == [x \in Procs |-> IF left[x] > 0 THEN left[x] - 1 ELSE 0]
         IN  /\ lf \in [Procs -> 0 .. SLEEP]
             /\ Sorted(slist, lf)
<1> DEFINE lf == [x \in Procs |-> IF left[x] > 0 THEN left[x] - 1 ELSE 0]
<1>1. SLEEP \in Nat /\ \A x \in Procs : left[x] \in 0 .. SLEEP
  BY ConstantFacts DEF Types
<1>2. lf \in [Procs -> 0 .. SLEEP]
  BY <1>1
<1>3. \A i \in DOMAIN slist : slist[i] \in Procs
  BY ConstantFacts DEF Types
<1>4. ASSUME NEW i \in DOMAIN slist, NEW j \in DOMAIN slist, i < j
      PROVE  lf[slist[i]] <= lf[slist[j]]
  <2>1. left[slist[i]] <= left[slist[j]]
    BY <1>4 DEF Sorted
  <2>2. /\ left[slist[i]] \in Nat /\ left[slist[j]] \in Nat
        /\ lf[slist[i]] = (IF left[slist[i]] > 0 THEN left[slist[i]] - 1 ELSE 0)
        /\ lf[slist[j]] = (IF left[slist[j]] > 0 THEN left[slist[j]] - 1 ELSE 0)
    BY <1>1, <1>3
  <2> HIDE DEF lf
  <2>3. QED BY <2>1, <2>2
<1>5. QED BY <1>2, <1>4 DEF Sorted

\* A tick in idle only lets time pass.
LEMMA TickIdle ==
  ASSUME IInv, Tick, cur_process = Idle
  PROVE  IInv' /\ cur_process' = Idle
<1> DEFINE lf == [x \in Procs |-> IF left[x] > 0 THEN left[x] - 1 ELSE 0]
<1>1. /\ Types /\ IdleState /\ Idle \in Procs /\ TIMER_MAX > 1 /\ TIMER_MAX \in Nat
      /\ lf \in [Procs -> 0 .. SLEEP] /\ Sorted(slist, lf)
  BY ConstantFacts, CountdownProps DEF IInv
<1>2. /\ Charged(time_slice, Idle) = time_slice /\ Charged(time_used, Idle) = time_used
      /\ ~ (time_slice[Idle] >= TIMER_MAX)
  BY <1>1 DEF Charged, IdleState
<1>3. /\ moved' = FALSE /\ left' = lf /\ time_used' = time_used
      /\ priority' = [priority EXCEPT ![Idle] = priority[Idle]]
      /\ time_slice' = time_slice /\ runq' = runq /\ slist' = slist
      /\ cur_process' = cur_process /\ state' = state /\ pc' = pc /\ passed' = passed
  BY <1>1, <1>2 DEF Tick, Requeued
<1> HIDE DEF lf
<1>4. priority' = priority
  BY <1>1, <1>3 DEF Types
<1>5. Types'
  BY <1>1, <1>3, <1>4 DEF Types
<1>6. ASSUME NEW x \in Workers PROVE Phase(x)' /\ Budget(x)'
  <2>1. cur_process # x /\ cur_process' # x
    BY <1>3, ConstantFacts
  <2>2. QED BY <2>1, <1>3, <1>4, <1>5, OthersKeep
<1>7. \A x \in Workers : Phase(x)'
  BY <1>6
<1>8. \A x \in Workers : Budget(x)'
  BY <1>6
<1>9. IdleState'
  BY <1>1, <1>3, <1>4 DEF IdleState
<1>10. Queued'
  BY <1>3, <1>4 DEF IInv, Queued, Linked, Members, proc_getpos
<1>11. Sorted(slist, left)'
  BY <1>1, <1>3 DEF Sorted
<1>12. QED
  BY <1>3, <1>5, <1>7, <1>8, <1>9, <1>10, <1>11 DEF IInv

\* Adjustments without a charge there can have been once a tick has fallen on
\* the statement p is at.
FreeAfter(p) ==
  Cardinality(passed[p]) + (IF pc[p] = "stop" THEN -1
                            ELSE IF state[p] # "ZOMBIE" THEN 0
                            ELSE IF pc[p] = "remove" THEN 1 ELSE 2)

\* What a tick does to the accounts of the current worker, with slice[p], used
\* and prio the new values.
Accounted(p, slice, used, prio) ==
  /\ slice \in 0 .. TIMER_MAX
  /\ used \in Nat /\ prio \in Nat /\ proc_getpos(prio) \in Queues
  /\ used >= slice % ADJUST
  /\ prio <= Ceiling(p, used, slice, FreeAfter(p))
  /\ state[p] = "RUN" => slice = time_slice[p] + 1 /\ used = time_used[p] + 1
  /\ state[p] # "RUN" => slice = time_slice[p] /\ used = time_used[p]

LEMMA TickAccounts ==
  ASSUME IInv, NEW p \in Workers, cur_process = p, MayTick,
         NEW slice, slice = Charged(time_slice, p)[p],
         NEW used, used = Charged(time_used, p)[p],
         NEW prio, prio = IF slice % ADJUST = 0 THEN Recalculated(p, slice)
                          ELSE priority[p]
  PROVE  /\ Accounted(p, slice, used, prio)
         /\ p \notin Members(slist)
         /\ pc[p] = "schedule" => state[p] = "ZOMBIE"
<1>1. /\ Types /\ p \in Procs /\ p # Idle
      /\ Phase(p) /\ Budget(p) /\ Unpaid(p) \in Nat
      /\ time_used[p] \in Nat /\ End[p] \in Nat /\ priority[p] \in Nat
      /\ priority[p] <= LOWEST /\ LOWEST \in Nat
      /\ time_slice[p] \in 0 .. TIMER_MAX - 1 /\ TIMER_MAX \in Nat
  BY CurrentFacts, WorkerFacts, ConstantFacts
<1>2. moved /\ (pc[p] = "schedule" => state[p] = "ZOMBIE")
  <2>1. moved
    BY DEF MayTick
  <2>2. pc[p] = "schedule" => state[p] # "STOP"
    BY DEF MayTick, IInv
  <2>3. pc[p] = "schedule" => state[p] = "STOP" \/ state[p] = "ZOMBIE"
    BY CurrentFacts DEF Asleep, Dead
  <2>4. QED BY <2>1, <2>2, <2>3
<1>3. p \notin Members(slist)
  <2>1. p \in Members(slist) => pc[p] = "schedule" /\ state[p] = "STOP"
    BY <1>1 DEF Phase, Asleep
  <2>2. QED BY <2>1, <1>2
<1>4. /\ state[p] = "RUN" => slice = time_slice[p] + 1 /\ used = time_used[p] + 1
      /\ state[p] # "RUN" => slice = time_slice[p] /\ used = time_used[p]
  BY <1>1 DEF Charged, Types
<1>5. prio = IF slice % ADJUST = 0 THEN priority[p] + slice \div WEIGHT
             ELSE priority[p]
  BY <1>1 DEF Recalculated
<1>6. state[p] # "UNUSED"
  BY <1>1 DEF Phase, Unborn, Running, FallingAsleep, Asleep, Dead
<1>7. /\ time_used[p] >= time_slice[p] % ADJUST
      /\ priority[p] <= Ceiling(p, time_used[p], time_slice[p], Unpaid(p))
  BY <1>1, <1>6 DEF Budget
<1> DEFINE c == Cardinality(passed[p])
           d == Cardinality(SleepAt[p])
<1>8. /\ c \in Nat /\ d \in Nat /\ c <= d
      /\ pc[p] \in {"stop", "clear"} => c >= 1
  <2>1. passed[p] \subseteq SleepAt[p] /\ (pc[p] \in {"stop", "clear"} => passed[p] # {})
    BY <1>1 DEF Phase
  <2>2. /\ c \in Nat /\ d \in Nat /\ c <= d
        /\ passed[p] # {} => c >= 1
    BY <2>1, PassedProps
  <2> HIDE DEF c, d
  <2>3. QED BY <2>1, <2>2
<1>9. /\ FreeAfter(p) = c + (IF pc[p] = "stop" THEN -1
                             ELSE IF state[p] # "ZOMBIE" THEN 0
                             ELSE IF pc[p] = "remove" THEN 1 ELSE 2)
      /\ Unpaid(p) = c + (IF pc[p] \in {"stop", "clear"} THEN -1
                          ELSE IF state[p] # "ZOMBIE" \/ pc[p] = "remove" THEN 0
                          ELSE IF pc[p] = "schedule" THEN 1 ELSE 2)
  BY <1>2 DEF FreeAfter, Unpaid
<1> HIDE DEF c
<1>10. FreeAfter(p) \in Nat /\ FreeAfter(p) <= d + 2
  <2> HIDE DEF d
  <2>1. QED BY <1>8, <1>9
<1>11. CASE state[p] = "RUN"
  <2>1. pc[p] \in {"loop", "sleep", "stop", "free"}
    BY <1>1, <1>11 DEF Phase, Unborn, Running, FallingAsleep, Asleep, Dead
  <2>2. FreeAfter(p) = Unpaid(p)
    BY <2>1, <1>9, <1>11
  <2>3. /\ slice = time_slice[p] + 1 /\ used = time_used[p] + 1
        /\ slice \in 0 .. TIMER_MAX /\ slice \div WEIGHT \in Nat
        /\ used >= slice % ADJUST
        /\ priority[p] <= Ceiling(p, used, slice, Unpaid(p))
        /\ slice % ADJUST = 0 =>
             priority[p] + slice \div WEIGHT <= Ceiling(p, used, slice, Unpaid(p))
    <3> DEFINE ts == time_slice[p]
               tu == time_used[p]
    <3>1. /\ ts \in 0 .. TIMER_MAX - 1 /\ tu \in Nat /\ tu >= ts % ADJUST
          /\ priority[p] <= Ceiling(p, tu, ts, Unpaid(p))
      BY <1>1, <1>7
    <3>2. slice = ts + 1 /\ used = tu + 1
      BY <1>4, <1>11
    <3> HIDE DEF ts, tu
    <3>3. /\ ts + 1 \in 0 .. TIMER_MAX /\ (ts + 1) \div WEIGHT \in Nat
          /\ tu + 1 >= (ts + 1) % ADJUST
          /\ priority[p] <= Ceiling(p, tu + 1, ts + 1, Unpaid(p))
          /\ (ts + 1) % ADJUST = 0 =>
               priority[p] + (ts + 1) \div WEIGHT
                 <= Ceiling(p, tu + 1, ts + 1, Unpaid(p))
      BY <3>1, <1>1, CeilingProps
    <3>4. QED BY <3>2, <3>3 DEF ts, tu
  <2>4. used \in Nat /\ used <= End[p] + 6
    <3>1. Overrun(p) /\ Pending(p) >= 1 /\ Pending(p) \in Nat
      BY <1>1, <1>2 DEF Budget, Pending
    <3>2. time_used[p] + Pending(p) <= End[p] + 6
      BY <3>1, <1>1, <1>11 DEF Overrun
    <3>3. QED BY <3>1, <3>2, <2>3, <1>1
  <2>5. prio \in Nat /\ prio <= Ceiling(p, used, slice, FreeAfter(p))
    BY <2>2, <2>3, <1>1, <1>5
  <2>6. proc_getpos(prio) \in Queues
    BY <2>3, <2>4, <2>5, <1>10, CeilingFits
  <2>7. QED BY <2>3, <2>4, <2>5, <2>6, <1>2, <1>3, <1>11 DEF Accounted
<1>12. CASE state[p] # "RUN"
  <2>1. /\ slice = time_slice[p] /\ used = time_used[p]
        /\ slice \in 0 .. TIMER_MAX /\ used \in Nat
    BY <1>1, <1>4, <1>12
  <2>2. used <= End[p] + 6
    BY <2>1, WorkerFacts
  <2>3. prio \in Nat /\ prio <= Ceiling(p, used, slice, FreeAfter(p))
    <3>1. CASE pc[p] \in {"unlink", "insert"}
      <4>1. state[p] = "STOP" /\ time_slice[p] = 0
        BY <3>1, <1>1 DEF Phase, Unborn, Running, FallingAsleep, Asleep, Dead
      <4>2. FreeAfter(p) = Unpaid(p)
        BY <3>1, <4>1, <1>9
      <4>3. 0 \div WEIGHT = 0
        BY ConstantFacts
      <4>4. prio = priority[p]
        BY <4>1, <4>3, <2>1, <1>1, <1>5
      <4>5. QED BY <4>2, <4>4, <2>1, <1>1, <1>7
    <3>2. CASE pc[p] \notin {"unlink", "insert"}
      <4>1. \/ state[p] = "STOP" /\ pc[p] = "clear"
            \/ state[p] = "ZOMBIE" /\ pc[p] \in {"remove", "schedule"}
        BY <3>2, <1>1, <1>2, <1>6, <1>12
           DEF Phase, Unborn, Running, FallingAsleep, Asleep, Dead
      <4>2. FreeAfter(p) = Unpaid(p) + 1
        BY <4>1, <1>8, <1>9
      <4>3. /\ slice \div WEIGHT \in Nat
            /\ priority[p] <= Ceiling(p, used, slice, Unpaid(p) + 1)
            /\ slice % ADJUST = 0 =>
                 priority[p] + slice \div WEIGHT <= Ceiling(p, used, slice, Unpaid(p) + 1)
        BY <2>1, <1>1, <1>7, CeilingProps
      <4>4. QED BY <4>2, <4>3, <1>1, <1>5
    <3>3. QED BY <3>1, <3>2
  <2>4. used >= slice % ADJUST
    BY <2>1, <1>7
  <2>5. proc_getpos(prio) \in Queues
    BY <2>1, <2>2, <2>3, <2>4, <1>10, CeilingFits
  <2>6. QED BY <2>1, <2>3, <2>4, <2>5, <1>2, <1>3, <1>12 DEF Accounted
<1>13. QED BY <1>11, <1>12

\* A tick on a statement of a worker.
LEMMA TickWorker ==
  ASSUME IInv, Tick, NEW p \in Workers, cur_process = p
  PROVE  /\ IInv'
         /\ cur_process' # p => cur_process' = Idle /\
              \A x \in Workers : state'[x] = "STOP" => left'[x] > 0
<1> DEFINE slice == Charged(time_slice, p)
           used == Charged(time_used, p)
           adjusts == slice[p] % ADJUST = 0
           prio == IF adjusts THEN Recalculated(p, slice[p]) ELSE priority[p]
           rq == Requeued(adjusts, prio)
           lf == [x \in Procs |-> IF left[x] > 0 THEN left[x] - 1 ELSE 0]
<1>1. /\ Types /\ IdleState /\ p \in Procs /\ p # Idle /\ Idle \in Procs
      /\ Phase(p) /\ Budget(p)
      /\ TIMER_MAX \in Nat
      /\ state[p] = "RUN" => Linked(runq, p) = {proc_getpos(priority[p])}
  BY CurrentFacts, ConstantFacts DEF IInv
<1>2. lf \in [Procs -> 0 .. SLEEP] /\ Sorted(slist, lf)
  BY <1>1, CountdownProps DEF IInv
<1>3. /\ MayTick /\ moved' = FALSE /\ left' = lf /\ time_used' = used
      /\ priority' = [priority EXCEPT ![p] = prio]
      /\ pc' = pc /\ passed' = passed
      /\ \/ slice[p] >= TIMER_MAX /\ schedule(rq, slice, lf)
         \/ /\ slice[p] < TIMER_MAX
            /\ time_slice' = slice /\ runq' = rq
            /\ slist' = IF adjusts THEN Unlink(slist, p) ELSE slist
            /\ cur_process' = p /\ state' = state
  BY <1>1 DEF Tick
<1>4. /\ slice = [time_slice EXCEPT ![p] = slice[p]]
      /\ used = [time_used EXCEPT ![p] = used[p]]
  BY <1>1 DEF Charged, Types
<1>5. /\ Accounted(p, slice[p], used[p], prio)
      /\ p \notin Members(slist)
      /\ pc[p] = "schedule" => state[p] = "ZOMBIE"
  BY <1>3, TickAccounts
<1>6. rq = IF adjusts THEN Enqueue(runq, p, prio) ELSE runq
  BY DEF Requeued
<1> HIDE DEF slice, used, prio, rq, lf
<1>7. /\ slice[p] \in 0 .. TIMER_MAX /\ used[p] \in Nat /\ prio \in Nat
      /\ proc_getpos(prio) \in Queues
  BY <1>5 DEF Accounted
<1>8. /\ slice \in [Procs -> 0 .. TIMER_MAX] /\ used \in [Procs -> Nat]
      /\ \A x \in Procs \ {p} : slice[x] = time_slice[x] /\ used[x] = time_used[x]
  BY <1>1, <1>4, <1>7 DEF Types
<1>9. /\ rq \in [Queues -> Seq(Procs)]
      /\ \A x \in Procs \ {p} : Linked(rq, x) = Linked(runq, x)
      /\ state[p] = "RUN" => Linked(rq, p) = {proc_getpos(prio)}
  <2>1. runq \in [Queues -> Seq(Procs)]
    BY <1>1 DEF Types
  <2>2. CASE adjusts
    <3>1. rq = Enqueue(runq, p, prio)
      BY <2>2, <1>6
    <3> DEFINE e == Enqueue(runq, p, prio)
    <3>2. /\ e \in [Queues -> Seq(Procs)]
          /\ \A x : Linked(e, x) = IF x = p THEN {proc_getpos(prio)}
                                   ELSE Linked(runq, x)
      BY <2>1, <1>1, <1>7, EnqueueProps
    <3> HIDE DEF e
    <3>3. rq = e
      BY <3>1 DEF e
    <3>4. QED BY <3>2, <3>3
  <2>3. CASE ~ adjusts
    <3>1. rq = runq /\ prio = priority[p]
      BY <2>3, <1>6 DEF prio
    <3>2. QED BY <3>1, <2>1, <1>1
  <2>4. QED BY <2>2, <2>3
<1>10. /\ time_used'[p] = used[p] /\ priority'[p] = prio
       /\ \A x \in Procs \ {p} :
            time_used'[x] = time_used[x] /\ priority'[x] = priority[x]
  BY <1>1, <1>3, <1>8 DEF Types
<1>11. /\ pc' \in [Procs -> Points] /\ priority' \in [Procs -> Nat]
       /\ time_used' \in [Procs -> Nat] /\ left' \in [Procs -> 0 .. SLEEP]
       /\ passed' \in [Procs -> SUBSET Nat] /\ moved' \in BOOLEAN
  BY <1>1, <1>2, <1>3, <1>7, <1>8 DEF Types
<1>12. ASSUME state'[p] = state[p]
       PROVE  Unpaid(p)' = FreeAfter(p)
  BY <1>12, <1>3 DEF Unpaid, FreeAfter
<1>13. CASE slice[p] < TIMER_MAX
  <2>1. /\ time_slice' = slice /\ runq' = rq
        /\ slist' = IF adjusts THEN Unlink(slist, p) ELSE slist
        /\ cur_process' = p /\ state' = state
    <3>1. ~ (slice[p] >= TIMER_MAX)
      BY <1>1, <1>7, <1>13
    <3> HIDE DEF adjusts
    <3>2. QED BY <3>1, <1>3
  <2>2. /\ slist' \in Seq(Workers) /\ Members(slist') = Members(slist)
        /\ Sorted(slist', left')
    <3> DEFINE u == Unlink(slist, p)
    <3>1. slist \in Seq(Workers) /\ Workers \in SUBSET Procs
      BY <1>1, ConstantFacts DEF Types
    <3>2. u \in Seq(Workers) /\ Members(u) = Members(slist) \ {p}
      BY <3>1, UnlinkProps
    <3>3. Sorted(u, lf)
      BY <3>1, <1>2, KeptSorted DEF Unlink
    <3>4. slist' = u \/ slist' = slist
      BY <2>1
    <3> HIDE DEF u
    <3>5. QED BY <3>1, <3>2, <3>3, <3>4, <1>2, <1>3, <1>5
  <2>3. Types'
    BY <2>1, <2>2, <1>1, <1>8, <1>9, <1>11 DEF Types
  <2>4. Phase(p)'
    <3>1. /\ cur_process' = p /\ state'[p] = state[p] /\ pc'[p] = pc[p]
          /\ passed'[p] = passed[p] /\ p \notin Members(slist')
          /\ time_slice'[p] = slice[p] /\ time_used'[p] = used[p]
      BY <2>1, <2>2, <1>3, <1>5
    <3>2. /\ time_slice'[p] < TIMER_MAX /\ time_used[p] <= time_used'[p]
          /\ state[p] = "STOP" => time_slice'[p] = time_slice[p]
          /\ time_used[p] \in Nat /\ time_used'[p] \in Nat
      BY <3>1, <1>1, <1>5, <1>13 DEF Accounted, Types
    <3>3. pc[p] = "sleep" => \E t \in SleepAt[p] \ passed[p] : t <= time_used'[p]
      <4>1. ASSUME pc[p] = "sleep"
            PROVE  \E t \in SleepAt[p] \ passed[p] : t <= time_used'[p]
        <5>1. PICK t \in SleepAt[p] \ passed[p] : t <= time_used[p]
          BY <4>1, <1>1 DEF Phase
        <5>2. t \in Nat
          BY ConstantFacts
        <5>3. t <= time_used'[p]
          BY <5>1, <5>2, <3>2
        <5>4. QED BY <5>1, <5>3
      <4>2. QED BY <4>1
    <3>4. Running(p) \/ FallingAsleep(p) \/ Dead(p)
      BY <1>1, <1>5 DEF Phase, Unborn, Asleep
    <3>5. QED
      BY <3>1, <3>2, <3>3, <3>4, <1>1 DEF Phase, Running, FallingAsleep, Dead
  <2>5. Overrun(p)'
    <3>1. Overrun(p) /\ Pending(p)' = 0 /\ Pending(p) >= 1 /\ Pending(p) \in Nat
      BY <1>1, <1>3, <2>1 DEF Budget, Pending, MayTick
    <3>2. time_used[p] \in Nat /\ End[p] \in Nat
      BY <1>1, ConstantFacts DEF Types
    <3>3. state[p] = "RUN" => time_used'[p] + 0 <= time_used[p] + Pending(p)
      BY <3>1, <3>2, <1>5, <1>10 DEF Accounted
    <3>4. state[p] # "RUN" => time_used'[p] = time_used[p]
      BY <1>5, <1>10 DEF Accounted
    <3> DEFINE over == IF pc[p] = "sleep" THEN 1 ELSE IF pc[p] = "stop" THEN 3
                       ELSE IF pc[p] = "loop" THEN 4 ELSE 6
    <3>5. over \in Nat
      OBVIOUS
    <3>6. state[p] = "RUN" => time_used[p] + Pending(p) <= End[p] + over
      BY <3>1 DEF Overrun
    <3> HIDE DEF over
    <3>7. state[p] = "RUN" => time_used'[p] + 0 <= End[p] + over
      BY <3>1, <3>2, <3>3, <3>5, <3>6, <1>7, <1>10
    <3>8. state'[p] = state[p] /\ pc'[p] = pc[p]
      BY <2>1, <1>3
    <3>9. CASE state[p] = "RUN"
      BY <3>1, <3>7, <3>8, <3>9 DEF Overrun, over
    <3>10. CASE state[p] # "RUN"
      BY <3>1, <3>4, <3>8, <3>10 DEF Overrun
    <3>11. QED BY <3>9, <3>10
  <2>6. Budget(p)'
    <3>1. Unpaid(p)' = FreeAfter(p)
      BY <2>1, <1>12
    <3>2. /\ used[p] >= slice[p] % ADJUST
          /\ prio <= Ceiling(p, used[p], slice[p], FreeAfter(p))
      BY <1>5 DEF Accounted
    <3>3. state'[p] # "UNUSED"
      BY <2>1, <1>1 DEF Phase, Unborn, Running, FallingAsleep, Asleep, Dead
    <3>4. QED BY <2>1, <2>5, <3>1, <3>2, <3>3, <1>10 DEF Budget, Ceiling
  <2>7. state'[p] = "RUN" => Linked(runq', p) = {proc_getpos(priority'[p])}
    BY <2>1, <1>9, <1>10
  <2>8. IInv'
    <3>1. \A x \in Procs \ {p} :
           /\ state'[x] = state[x] /\ pc'[x] = pc[x] /\ priority'[x] = priority[x]
           /\ time_slice'[x] = time_slice[x] /\ time_used'[x] = time_used[x]
           /\ passed'[x] = passed[x]
           /\ x \in Members(slist') <=> x \in Members(slist)
           /\ Linked(runq', x) = Linked(runq, x)
      BY <2>1, <2>2, <1>3, <1>8, <1>9, <1>10
    <3>2. QED BY <3>1, <2>1, <2>2, <2>3, <2>4, <2>6, <2>7, LocalStep
  <2>9. QED BY <2>1, <2>8
<1>14. CASE ~ (slice[p] < TIMER_MAX)
  <2> DEFINE due == Due(lf)
  <2>1. /\ due = {x \in Members(slist) : lf[x] = 0}
        /\ Scheduled(rq, slice, lf, due)
    <3>1. /\ schedule(rq, slice, lf) /\ lf \in [Procs -> Nat] /\ state[Idle] = "RUN"
      BY <1>1, <1>2, <1>3, <1>14 DEF IdleState
    <3>2. \A x \in Workers : proc_getpos(priority[x]) \in Queues
      BY WorkerFacts
    <3>3. QED BY <3>1, <3>2, <1>1, <1>2, <1>9, ScheduleEffect
  <2> HIDE DEF due
  <2>2. due \in SUBSET Members(slist) /\ p \notin due
    BY <2>1, <1>5
  <2>3. state[p] = "RUN" /\ slice[p] = TIMER_MAX /\ time_slice[p] = TIMER_MAX - 1
    <3>1. time_slice[p] \in Nat /\ time_slice[p] < TIMER_MAX
      BY <1>1 DEF Phase, Types
    <3>2. slice[p] = TIMER_MAX
      BY <1>1, <1>7, <1>14
    <3>3. /\ state[p] # "RUN" => slice[p] = time_slice[p]
          /\ state[p] = "RUN" => slice[p] = time_slice[p] + 1
      BY <1>5 DEF Accounted
    <3>4. QED BY <3>1, <3>2, <3>3, <1>1
  <2>4. Types'
    BY <2>1, <1>1, <1>8, <1>11, ScheduledTypes
  <2>5. ASSUME NEW x \in Workers, x # p
        PROVE  /\ Phase(x)' /\ Budget(x)'
               /\ state'[x] = "RUN" => Linked(runq', x) = {proc_getpos(priority'[x])}
    <3>1. x \in Procs \ {p} /\ cur_process # x
      BY <2>5, ConstantFacts
    <3>2. /\ slice[x] = time_slice[x] /\ Linked(rq, x) = Linked(runq, x)
          /\ pc'[x] = pc[x] /\ priority'[x] = priority[x]
          /\ time_used'[x] = time_used[x] /\ passed'[x] = passed[x]
      BY <3>1, <1>3, <1>8, <1>9, <1>10
    <3>3. QED BY <3>1, <3>2, <2>1, <2>2, <2>4, <1>8, ScheduledOthers
  <2>6. /\ cur_process' = Idle /\ time_slice'[p] = TIMER_MAX
        /\ state'[p] = "RUN" /\ p \notin Members(slist')
        /\ Linked(runq', p) = {proc_getpos(prio)}
    BY <2>1, <2>2, <2>3, <1>1, <1>5, <1>8, <1>9 DEF Scheduled
  <2>7. Phase(p)'
    <3>1. /\ pc'[p] = pc[p] /\ passed'[p] = passed[p] /\ time_used'[p] = used[p]
      BY <1>3
    <3>2. Running(p)
      BY <2>3, <1>1 DEF Phase, Unborn, Running, FallingAsleep, Asleep, Dead
    <3>3. time_used[p] <= used[p] /\ time_used[p] \in Nat /\ used[p] \in Nat
      BY <2>3, <1>1, <1>5 DEF Accounted, Types
    <3>4. pc[p] = "sleep" => \E t \in SleepAt[p] \ passed[p] : t <= used[p]
      <4>1. ASSUME pc[p] = "sleep"
            PROVE  \E t \in SleepAt[p] \ passed[p] : t <= used[p]
        <5>1. PICK t \in SleepAt[p] \ passed[p] : t <= time_used[p]
          BY <4>1, <1>1 DEF Phase
        <5>2. t \in Nat
          BY ConstantFacts
        <5>3. t <= used[p]
          BY <5>1, <5>2, <3>3
        <5>4. QED BY <5>1, <5>3
      <4>2. QED BY <4>1
    <3>5. QED BY <2>6, <3>1, <3>2, <3>4, <1>1 DEF Phase, Running
  <2>8. Overrun(p)'
    <3>1. Overrun(p) /\ Pending(p) = 2 /\ Pending(p)' = 1
      BY <2>3, <2>6, <1>1, <1>3 DEF Budget, Pending, MayTick
    <3>2. /\ time_used[p] \in Nat /\ End[p] \in Nat
          /\ time_used'[p] = time_used[p] + 1
      BY <2>3, <1>1, <1>5, <1>10, ConstantFacts DEF Types, Accounted
    <3> DEFINE over == IF pc[p] = "sleep" THEN 1 ELSE IF pc[p] = "stop" THEN 3
                       ELSE IF pc[p] = "loop" THEN 4 ELSE 6
    <3>3. over \in Nat
      OBVIOUS
    <3>4. time_used[p] + 2 <= End[p] + over
      BY <3>1, <2>3 DEF Overrun
    <3> HIDE DEF over
    <3>5. time_used'[p] + 1 <= End[p] + over
      BY <3>2, <3>3, <3>4
    <3>6. pc'[p] = pc[p]
      BY <1>3
    <3>7. QED BY <2>6, <3>1, <3>5, <3>6 DEF Overrun, over
  <2>9. Budget(p)'
    <3>1. Unpaid(p)' = FreeAfter(p)
      BY <2>3, <2>6, <1>12
    <3>2. /\ used[p] >= slice[p] % ADJUST
          /\ prio <= Ceiling(p, used[p], slice[p], FreeAfter(p))
      BY <1>5 DEF Accounted
    <3>3. QED BY <2>3, <2>6, <2>8, <3>1, <3>2, <1>10 DEF Budget, Ceiling
  <2>10. IdleState' /\ Linked(runq', Idle) = {proc_getpos(priority'[Idle])}
    <3>1. /\ slice[Idle] = 0 /\ pc'[Idle] = pc[Idle]
          /\ priority'[Idle] = priority[Idle]
          /\ Linked(rq, Idle) = Linked(runq, Idle)
      BY <1>1, <1>3, <1>8, <1>9, <1>10 DEF IdleState
    <3>2. QED BY <3>1, <2>1, <2>2, <1>8, ScheduledIdle
  <2>11. \A x \in Workers : Phase(x)'
    BY <2>5, <2>7
  <2>12. \A x \in Workers : Budget(x)'
    BY <2>5, <2>9
  <2>13. Queued'
    <3>1. SUFFICES ASSUME NEW x \in Procs, state'[x] = "RUN"
                   PROVE  Linked(runq', x) = {proc_getpos(priority'[x])}
      BY DEF Queued, proc_getpos, Linked
    <3>2. x = Idle \/ x \in Workers
      BY DEF Procs
    <3>3. Linked(runq', p) = {proc_getpos(priority'[p])}
      BY <2>6, <1>10
    <3>4. QED BY <3>1, <3>2, <3>3, <2>5, <2>10
  <2>14. Sorted(slist, left)'
    BY <2>1, <1>3 DEF Scheduled, Sorted
  <2>15. IInv'
    BY <2>4, <2>10, <2>11, <2>12, <2>13, <2>14 DEF IInv
  <2>16. ASSUME NEW x \in Workers, state'[x] = "STOP"
         PROVE  left'[x] > 0
    <3>1. x \in Procs /\ x # p /\ x \notin due /\ state[x] = "STOP"
      BY <2>1, <2>6, <2>16, ConstantFacts DEF Scheduled
    <3>2. x \in Members(slist)
      BY <3>1, <1>1 DEF IInv, Phase, Unborn, Running, FallingAsleep, Asleep, Dead
    <3>3. lf[x] # 0 /\ lf[x] \in 0 .. SLEEP /\ SLEEP \in Nat
      BY <3>1, <3>2, <2>1, <1>2, ConstantFacts
    <3>4. QED BY <3>3, <1>3
  <2>17. QED BY <2>6, <2>15, <2>16
<1>15. QED BY <1>13, <1>14

-----------------------------------------------------------------------------
(* Every step.                                                             *)

LEMMA CodeStep == ASSUME IInv, Code PROVE IInv'
<1>1. moved' = TRUE
  BY DEF Code
<1>2. CASE IdleCreates
  BY <1>1, <1>2, IdleCreatesStep
<1>3. CASE IdleSchedules
  BY <1>1, <1>3, IdleSchedulesStep
<1>4. ASSUME NEW p \in Workers, Loop(p) PROVE IInv'
  BY <1>1, <1>4, LoopStep
<1>5. ASSUME NEW p \in Workers, proc_sleep(p) PROVE IInv'
  <2>1. CASE SleepTimes(p)
    BY <1>1, <2>1, SleepTimesStep
  <2>2. CASE SleepStops(p)
    BY <1>1, <2>2, SleepStopsStep
  <2>3. CASE SleepClears(p)
    BY <1>1, <2>3, SleepClearsStep
  <2>4. CASE SleepUnlinks(p)
    BY <1>1, <2>4, SleepUnlinksStep
  <2>5. CASE SleepInserts(p)
    BY <1>1, <2>5, SleepInsertsStep
  <2>6. QED BY <1>5, <2>1, <2>2, <2>3, <2>4, <2>5 DEF proc_sleep
<1>6. ASSUME NEW p \in Workers, proc_end(p) PROVE IInv'
  <2>1. CASE FreeMarks(p)
    BY <1>1, <2>1, FreeMarksStep
  <2>2. CASE FreeUnlinks(p)
    BY <1>1, <2>2, FreeUnlinksStep
  <2>3. QED BY <1>6, <2>1, <2>2 DEF proc_end
<1>7. ASSUME NEW p \in Workers, WorkerSchedules(p) PROVE IInv'
  BY <1>1, <1>7, WorkerSchedulesStep
<1>8. QED BY <1>2, <1>3, <1>4, <1>5, <1>6, <1>7 DEF Code

LEMMA TickStep == ASSUME IInv, Tick PROVE IInv'
<1>1. cur_process = Idle \/ cur_process \in Workers
  BY DEF IInv, Types, Procs
<1>2. CASE cur_process = Idle
  BY <1>2, TickIdle
<1>3. CASE cur_process \in Workers
  <2>1. PICK p \in Workers : cur_process = p
    BY <1>3
  <2>2. QED BY <2>1, TickWorker
<1>4. QED BY <1>1, <1>2, <1>3

LEMMA StutterStep == ASSUME IInv, UNCHANGED vars PROVE IInv'
<1>1. /\ cur_process' = cur_process /\ state' = state /\ pc' = pc
      /\ priority' = priority /\ time_slice' = time_slice
      /\ time_used' = time_used /\ left' = left /\ passed' = passed
      /\ runq' = runq /\ slist' = slist /\ moved' = moved
  BY DEF vars
<1>2. Types' /\ IdleState' /\ Queued' /\ Sorted(slist, left)'
  BY <1>1 DEF IInv, Types, IdleState, Queued, Sorted, Linked
<1>3. ASSUME NEW p \in Workers PROVE Phase(p)'
  <2>1. Phase(p)
    BY DEF IInv
  <2>2. QED
    BY <2>1, <1>1 DEF Phase, Unborn, Running, FallingAsleep, Asleep, Dead, Linked
<1>4. ASSUME NEW p \in Workers PROVE Budget(p)'
  <2>1. Budget(p)
    BY DEF IInv
  <2>2. Unpaid(p)' = Unpaid(p) /\ Pending(p)' = Pending(p)
    BY <1>1 DEF Unpaid, Pending
  <2>3. QED BY <2>1, <2>2, <1>1 DEF Budget, Overrun, Ceiling
<1>5. QED BY <1>2, <1>3, <1>4 DEF IInv

\* IInv is inductive: every step of the timer, of idle and of a worker keeps
\* it, wherever ticks fall outside the window "asleep".
THEOREM PrioInvariance == "asleep" \notin Windows /\ Spec => []IInv
<1>1. "asleep" \notin Windows /\ Init => IInv
  BY InitStep
<1>2. IInv /\ [Next]_vars => IInv'
  BY CodeStep, TickStep, StutterStep DEF Next
<1>3. QED BY <1>1, <1>2, PTL DEF Spec

-----------------------------------------------------------------------------
(* What the invariant says of the lists and of the CPU.                    *)

IdleAwake == passed[Idle] = {}

LEMMA IdleAwakeStep == ASSUME IInv, IdleAwake, [Next]_vars PROVE IdleAwake'
<1>1. passed \in [Procs -> SUBSET Nat]
  BY DEF IInv, Types
<1>2. CASE \E p \in Workers : SleepTimes(p)
  BY <1>1, <1>2, ConstantFacts DEF SleepTimes, IdleAwake
<1>3. CASE ~ \E p \in Workers : SleepTimes(p)
  <2>1. passed' = passed
    BY <1>3 DEF Next, Tick, Code, IdleCreates, IdleSchedules, Loop, proc_sleep,
                SleepStops, SleepClears, SleepUnlinks, SleepInserts, proc_end,
                FreeMarks, FreeUnlinks, WorkerSchedules, vars
  <2>2. QED BY <2>1 DEF IdleAwake
<1>4. QED BY <1>2, <1>3

LEMMA TypesOK == IInv /\ IdleAwake => TypeOK
<1> SUFFICES ASSUME IInv, IdleAwake PROVE TypeOK
  OBVIOUS
<1>1. Types /\ IdleState
  BY DEF IInv
<1>2. \A p \in Procs : proc_getpos(priority[p]) \in Queues
  <2>1. proc_getpos(LOWEST) \in Queues
    BY QueueOf, ConstantFacts
  <2>2. QED BY <2>1, <1>1, WorkerFacts DEF IdleState, Procs
<1>3. passed \in [Procs -> SUBSET UNION {SleepAt[p] : p \in Workers}]
  <2>1. \A p \in Workers : passed[p] \subseteq SleepAt[p]
    BY DEF IInv, Phase
  <2>2. \A p \in Procs : passed[p] \subseteq UNION {SleepAt[q] : q \in Workers}
    BY <2>1 DEF IdleAwake, Procs
  <2>3. QED BY <2>2, <1>1 DEF Types
<1>4. \A i \in Queues : Members(runq[i]) \subseteq Procs
  BY <1>1 DEF Types, Members
<1>5. Members(slist) \subseteq Workers
  BY <1>1 DEF Types, Members
<1>6. QED BY <1>1, <1>2, <1>3, <1>4, <1>5 DEF Types, TypeOK

\* Type correctness.  In particular runq[] has a queue for every priority,
\* though recalculate_priority() adds to a priority it has found below the
\* lowest: the workers end before that takes them past it.
THEOREM PrioTypes == "asleep" \notin Windows /\ Spec => []TypeOK
<1>1. Init => IdleAwake
  BY ConstantFacts DEF Init, IdleAwake
<1>2. IInv /\ IdleAwake /\ [Next]_vars => IdleAwake'
  BY IdleAwakeStep
<1>3. QED BY <1>1, <1>2, PrioInvariance, TypesOK, PTL DEF Spec

LEMMA QueuedOK == IInv => QueuedByPriority
<1> SUFFICES ASSUME IInv, NEW p \in Procs, state[p] = "RUN", NEW i \in Queues
             PROVE  p \in Members(runq[i]) <=> i = proc_getpos(priority[p])
  BY DEF QueuedByPriority
<1>1. Linked(runq, p) = {proc_getpos(priority[p])}
  BY DEF IInv, Queued
<1>2. QED BY <1>1 DEF Linked

\* Each runnable process is in the queue of its priority, once the handler
\* is through, and in no other.
THEOREM PrioQueued == "asleep" \notin Windows /\ Spec => []QueuedByPriority
BY PrioInvariance, QueuedOK, PTL

LEMMA SleepersOK == IInv => SleepersListed
<1> SUFFICES ASSUME IInv, NEW p \in Workers, state[p] = "STOP", cur_process # p
             PROVE  p \in Members(slist) /\ \A i \in Queues : p \notin Members(runq[i])
  BY DEF SleepersListed
<1>1. Phase(p)
  BY DEF IInv
<1>2. p \in Members(slist)
  BY <1>1 DEF Phase, Unborn, Running, FallingAsleep, Asleep, Dead
<1>3. Linked(runq, p) = {}
  BY <1>1, <1>2 DEF Phase
<1>4. QED BY <1>2, <1>3 DEF Linked

\* A process that gave up the CPU to sleep is in the sleep list and in no
\* run queue.
THEOREM PrioSleepers == "asleep" \notin Windows /\ Spec => []SleepersListed
BY PrioInvariance, SleepersOK, PTL

\* The sleepers that a call of schedule() leaves have ticks left.
LEMMA CallWakes ==
  ASSUME IInv, schedule(runq, time_slice, left), left' = left,
         pc[cur_process] = "schedule",
         NEW x \in Workers, state'[x] = "STOP"
  PROVE  left'[x] > 0
<1> DEFINE due == Due(left)
<1>1. /\ due = {p \in Members(slist) : left[p] = 0}
      /\ Scheduled(runq, time_slice, left, due)
  BY CallFacts
<1> HIDE DEF due
<1>2. x \notin due /\ state[x] = "STOP" /\ x \in Procs
  BY <1>1, ConstantFacts DEF Scheduled
<1>3. Phase(x) /\ left[x] \in 0 .. SLEEP /\ SLEEP \in Nat
  BY <1>2, ConstantFacts DEF IInv, Types
<1>4. x \in Members(slist)
  BY <1>2, <1>3 DEF Phase, Unborn, Running, FallingAsleep, Asleep, Dead
<1>5. left[x] # 0
  BY <1>1, <1>2, <1>4
<1>6. QED BY <1>3, <1>5

LEMMA WokenStep ==
  ASSUME IInv, [Next]_vars, cur_process' # cur_process,
         NEW x \in Workers, state'[x] = "STOP"
  PROVE  left'[x] > 0
<1>1. cur_process = Idle \/ cur_process \in Workers
  BY DEF IInv, Types, Procs
<1>2. CASE Tick
  <2>1. CASE cur_process = Idle
    BY <2>1, <1>2, TickIdle
  <2>2. CASE cur_process \in Workers
    <3>1. PICK p \in Workers : cur_process = p
      BY <2>2
    <3>2. QED BY <3>1, <1>2, TickWorker
  <2>3. QED BY <1>1, <2>1, <2>2
<1>3. CASE IdleSchedules
  BY <1>3, CallWakes DEF IdleSchedules
<1>4. CASE \E p \in Workers : WorkerSchedules(p)
  BY <1>4, CallWakes DEF WorkerSchedules, At
<1>5. CASE ~ (Tick \/ IdleSchedules \/ \E p \in Workers : WorkerSchedules(p))
  BY <1>5 DEF Next, Code, IdleCreates, Loop, proc_sleep, SleepTimes, SleepStops,
              SleepClears, SleepUnlinks, SleepInserts, proc_end, FreeMarks,
              FreeUnlinks, vars
<1>6. QED BY <1>2, <1>3, <1>4, <1>5

\* When the CPU changes hands no sleeper is left whose time has come: the
\* sleep list is sorted, so proc_wake(), which stops at the first process it
\* need not wake, has found them all.
THEOREM PrioWakes == "asleep" \notin Windows /\ Spec => WokenWhenDue
<1>1. ASSUME IInv, [Next]_vars
      PROVE  [cur_process' # cur_process =>
                \A p \in Workers : state'[p] = "STOP" => left'[p] > 0]_vars
  BY <1>1, WokenStep
<1>2. QED BY <1>1, PrioInvariance, PTL DEF Spec, WokenWhenDue

\* The process that idle gives the CPU to, in the queues that schedule()
\* leaves.
LEMMA IdleChooses ==
  ASSUME Types, cur_process = Idle, schedule(runq, time_slice, left)
  PROVE  /\ cur_process' \in Procs /\ state'[cur_process'] = "RUN"
         /\ \E q \in Queues :
              /\ cur_process' \in Members(runq'[q])
              /\ \A r \in Queues : r < q =>
                   \A x \in Members(runq'[r]) : state'[x] # "RUN"
<1> DEFINE awake == Woken(runq, left)
           st == [p \in Procs |-> IF p \in Due(left) THEN "RUN" ELSE state[p]]
<1>1. PICK p \in Procs : /\ IsNext(p, awake, st)
                         /\ cur_process' = p /\ state' = st /\ runq' = awake
  BY DEF schedule
<1>2. /\ st[p] = "RUN"
      /\ \E q \in Queues : \E i \in DOMAIN awake[q] :
           /\ awake[q][i] = p
           /\ \A r \in Queues : r < q => NoneRuns(awake[r], st)
  BY <1>1 DEF IsNext
<1> HIDE DEF awake, st
<1>3. QED BY <1>1, <1>2 DEF NoneRuns, Members

LEMMA BestStep ==
  ASSUME IInv, [Next]_vars, cur_process = Idle, cur_process' # Idle
  PROVE  /\ state'[cur_process'] = "RUN"
         /\ \A p \in Procs : state'[p] = "RUN" =>
              proc_getpos(priority[cur_process']) <= proc_getpos(priority[p])
<1>1. IdleSchedules
  <2>1. ~ Tick
    BY TickIdle
  <2>2. \A p \in Workers : cur_process # p
    BY ConstantFacts
  <2>3. QED
    BY <2>1, <2>2 DEF Next, Code, IdleCreates, Loop, proc_sleep, SleepTimes,
                      SleepStops, SleepClears, SleepUnlinks, SleepInserts,
                      proc_end, FreeMarks, FreeUnlinks, WorkerSchedules, At, vars
<1>2. priority' = priority /\ schedule(runq, time_slice, left) /\ Types
  BY <1>1 DEF IdleSchedules, IInv
<1>3. Queued'
  <2>1. IInv'
    BY CodeStep, TickStep, StutterStep DEF Next
  <2>2. QED BY <2>1 DEF IInv
<1> DEFINE next == cur_process'
<1>4. next \in Procs /\ state'[next] = "RUN"
  BY <1>2, IdleChooses
<1>5. PICK q \in Queues : /\ next \in Members(runq'[q])
                          /\ \A r \in Queues : r < q =>
                               \A x \in Members(runq'[r]) : state'[x] # "RUN"
  BY <1>2, IdleChooses
<1>6. ASSUME NEW p \in Procs, state'[p] = "RUN"
      PROVE  /\ proc_getpos(priority[p]) \in Queues
             /\ \A i \in Queues :
                  p \in Members(runq'[i]) <=> i = proc_getpos(priority[p])
  <2>1. Linked(runq', p) = {proc_getpos(priority[p])}
    BY <1>2, <1>3, <1>6 DEF Queued, Linked, proc_getpos
  <2>2. QED BY <2>1 DEF Linked
<1>7. q = proc_getpos(priority[next])
  BY <1>4, <1>5, <1>6
<1>8. ASSUME NEW p \in Procs, state'[p] = "RUN"
      PROVE  q <= proc_getpos(priority[p])
  <2> DEFINE r == proc_getpos(priority[p])
  <2>1. r \in Queues /\ p \in Members(runq'[r])
    BY <1>6, <1>8
  <2>2. ~ (r < q)
    BY <2>1, <1>5, <1>8
  <2> HIDE DEF r
  <2>3. q <= r
    BY <2>1, <2>2, ConstantFacts DEF Queues
  <2>4. QED BY <2>3 DEF r
<1>9. QED BY <1>4, <1>7, <1>8

\* idle gives the CPU to a runnable process of the best queue in use, looking
\* at the queues in order from the first.
THEOREM PrioBestFirst == "asleep" \notin Windows /\ Spec => BestFirst
<1>1. ASSUME IInv, [Next]_vars
      PROVE  [cur_process = Idle /\ cur_process' # Idle =>
                /\ state'[cur_process'] = "RUN"
                /\ \A p \in Procs : state'[p] = "RUN" =>
                     proc_getpos(priority[cur_process']) <= proc_getpos(priority[p])]_vars
  BY <1>1, BestStep
<1>2. QED BY <1>1, PrioInvariance, PTL DEF Spec, BestFirst
=============================================================================
