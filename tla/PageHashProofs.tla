---------------------------- MODULE PageHashProofs ----------------------------
(***************************************************************************)
(* Proofs about PageHash for heaps, buckets and pages of every size: no    *)
(* page is lost or handed out twice, and the hash table has one entry for  *)
(* every request, which returning the request will find.                   *)
(***************************************************************************)
EXTENDS PageHash, FiniteSetTheorems, SequenceTheorems, TLAPS

Heap == 2 .. MaxPages - 1

\* The pages that have a bucket in common with a page.
Neighbours(page) == {q \in Heap : S_IDX(Address(q)) = S_IDX(Address(page))}

\* At most one of them does not fit into the top buckets, as in the shipped sizes:
\* 9 pages and buckets of 4 slots.
Roomy ==
  /\ SLOT_NUM > 1
  /\ \A page \in Heap : Cardinality(Neighbours(page)) <= 2 * SLOT_NUM + 1

\* Pages are returned by their first address.
ByAddress == "stack" \notin Returns

AllPlaces == Levels \X Buckets \X Slots
Tables == [Levels -> [Buckets -> [Slots -> [token : {0, 1}, key : Nat]]]]
PlacesOf(key) == Places(Address(key))

Runs == held \cup ToSet(freelist)

\* Every page taken from the heap is in one run, owned or returned.
RunsOK ==
  /\ held \in SUBSET (Nat \X (Nat \ {0})) /\ IsFiniteSet(held)
  /\ freelist \in Seq(Nat \X (Nat \ {0}))
  /\ page_alloc_index \in 2 .. MaxPages
  /\ \A run \in Runs : Pages(run) \subseteq 2 .. page_alloc_index - 1
  /\ \A page \in 2 .. page_alloc_index - 1 : \E run \in Runs : page \in Pages(run)
  /\ \A r, s \in Runs : r # s => Pages(r) \cap Pages(s) = {}
  /\ \A i, j \in DOMAIN freelist : freelist[i] = freelist[j] => i = j
  /\ \A i \in DOMAIN freelist : freelist[i] \notin held

Entered(key) == \E p \in AllPlaces : At(p).token = 1 /\ At(p).key = key

\* An entry is in one of the places of its page, and no place before it has its key.
EntriesFound ==
  \A p \in AllPlaces : At(p).token = 1 =>
    /\ At(p).key \in 2 .. page_alloc_index - 1
    /\ \E n \in 1 .. 4 * SLOT_NUM :
         /\ p = PlacesOf(At(p).key)[n]
         /\ \A l \in 1 .. n - 1 : At(PlacesOf(At(p).key)[l]).key # At(p).key

\* The bottom level has at most one entry of pages that share a bucket.
BottomSparse ==
  \A p, q \in AllPlaces :
    /\ p[1] = "bottom" /\ At(p).token = 1
    /\ q[1] = "bottom" /\ At(q).token = 1
    /\ S_IDX(Address(At(p).key)) = S_IDX(Address(At(q).key))
    => p = q

\* Requests have entries, runs in the list have none.
EntriesMatch ==
  /\ \A run \in held \ parts : Entered(run[1])
  /\ \A i \in DOMAIN freelist : ~Entered(freelist[i][1])

IInv ==
  /\ hash_table \in Tables
  /\ RunsOK
  /\ EntriesFound
  /\ BottomSparse
  /\ EntriesMatch

-----------------------------------------------------------------------------
(* Arithmetic of the hash functions.                                       *)

\* Division, for the provers.
LEMMA DivMod ==
  ASSUME NEW o \in Nat, NEW B \in Nat \ {0}
  PROVE  /\ o \div B \in Nat /\ o % B \in 0 .. B - 1
         /\ o = B * (o \div B) + (o % B)
OBVIOUS

LEMMA Multiples ==
  ASSUME NEW B \in Nat, NEW m \in Nat, NEW n \in Nat, m < n
  PROVE  B * m + B <= B * n /\ B * m \in Nat /\ B * n \in Nat
<1>1. PICK d \in Nat : n = m + 1 + d
  <2>1. n - m - 1 \in Nat /\ n = m + 1 + (n - m - 1)
    OBVIOUS
  <2> QED BY <2>1
<1>2. B * n = B * m + B + B * d /\ B * d \in Nat /\ B * m \in Nat /\ B * n \in Nat
  BY <1>1
<1> QED BY <1>2

\* Quotient and remainder are unique.
LEMMA DivModUnique ==
  ASSUME NEW B \in Nat \ {0}, NEW q \in Nat, NEW r \in 0 .. B - 1
  PROVE  (B * q + r) \div B = q /\ (B * q + r) % B = r
<1> DEFINE o == B * q + r
           d == o \div B
           m == o % B
<1>1. B * q \in Nat /\ o \in Nat
  OBVIOUS
<1>2. d \in Nat /\ m \in 0 .. B - 1 /\ o = B * d + m
  <2> HIDE DEF o
  <2> QED BY <1>1, DivMod
<1>3. B * q + r = B * d + m
  BY <1>2
<1> HIDE DEF o, d, m
<1>4. ~(d < q)
  <2> SUFFICES ASSUME d < q PROVE FALSE
    OBVIOUS
  <2>1. B * d + B <= B * q /\ B * d \in Nat /\ B * q \in Nat
    BY <1>2, Multiples
  <2> QED BY <1>2, <1>3, <2>1
<1>5. ~(q < d)
  <2> SUFFICES ASSUME q < d PROVE FALSE
    OBVIOUS
  <2>1. B * q + B <= B * d /\ B * d \in Nat /\ B * q \in Nat
    BY <1>2, Multiples
  <2> QED BY <1>2, <1>3, <2>1
<1>6. d = q
  BY <1>2, <1>4, <1>5
<1>7. m = r
  BY <1>1, <1>2, <1>3, <1>6
<1> QED BY <1>6, <1>7 DEF o, d, m

\* The second hash of an address depends on the first one only.
LEMMA SameRemainder ==
  ASSUME NEW a \in Nat, NEW m \in Nat \ {0}
  PROVE  (a * 7) % m = ((a % m) * 7) % m
<1> DEFINE q == a \div m
           r == a % m
           u == (r * 7) \div m
           v == (r * 7) % m
<1>1. q \in Nat /\ r \in Nat /\ a = m * q + r
  BY DivMod
<1>2. u \in Nat /\ v \in 0 .. m - 1 /\ r * 7 = m * u + v
  <2> HIDE DEF r
  <2>1. r * 7 \in Nat
    BY <1>1
  <2> QED BY <2>1, DivMod
<1> HIDE DEF q, r, u, v
<1>3. a * 7 = m * (q * 7) + r * 7
  BY <1>1
<1>4. q * 7 + u \in Nat /\ m * (q * 7 + u) = m * (q * 7) + m * u
  BY <1>1, <1>2
<1>5. a * 7 = m * (q * 7 + u) + v
  <2>1. m * (q * 7) \in Nat /\ m * u \in Nat
    BY <1>1, <1>2
  <2> QED BY <1>2, <1>3, <1>4, <2>1
<1>6. (m * (q * 7 + u) + v) % m = v
  BY <1>2, <1>4, DivModUnique
<1> QED BY <1>5, <1>6 DEF v, r

Half == CAPACITY \div 2

\* The two top buckets of an address differ, and so do the two bottom buckets of
\* any two addresses, one taken by each hash.
LEMMA HashRange ==
  ASSUME NEW a \in Nat, NEW b \in Nat
  PROVE  /\ F_IDX(a) \in Buckets /\ S_IDX(a) \in Buckets /\ F_IDX(a) < S_IDX(b)
         /\ F_IDX(a) \div 2 \in Buckets /\ S_IDX(a) \div 2 \in Buckets
         /\ F_IDX(a) \div 2 < S_IDX(b) \div 2
         /\ F_IDX(a) = F_IDX(b) => S_IDX(a) = S_IDX(b)
<1>1. CAPACITY \in Nat /\ Half \in Nat /\ Half > 1 /\ 2 * Half <= CAPACITY
  BY SizesAssumption DEF Half
<1> DEFINE m == Half - 1
<1>2. m \in Nat \ {0}
  BY <1>1
<1>3. a * 7 \in Nat /\ b * 7 \in Nat
  OBVIOUS
<1>4. a % m \in 0 .. m - 1 /\ (a * 7) % m \in 0 .. m - 1 /\ (b * 7) % m \in 0 .. m - 1
  <2> HIDE DEF m
  <2> QED BY <1>2, <1>3, DivMod
<1>5. F_IDX(a) = a % m /\ S_IDX(a) = ((a * 7) % m) + Half /\ S_IDX(b) = ((b * 7) % m) + Half
      /\ F_IDX(b) = b % m
  BY DEF F_IDX, S_IDX, Half
<1>6. F_IDX(a) = F_IDX(b) => S_IDX(a) = S_IDX(b)
  <2> HIDE DEF m
  <2>1. (a * 7) % m = ((a % m) * 7) % m /\ (b * 7) % m = ((b % m) * 7) % m
    BY <1>2, SameRemainder
  <2> QED BY <1>5, <2>1
<1>7. F_IDX(a) \in 0 .. Half - 2 /\ S_IDX(a) \in Half .. 2 * Half - 2
      /\ S_IDX(b) \in Half .. 2 * Half - 2
  <2>1. F_IDX(a) \in 0 .. m - 1 /\ S_IDX(a) - Half \in 0 .. m - 1 /\ S_IDX(b) - Half \in 0 .. m - 1
        /\ S_IDX(a) \in Int /\ S_IDX(b) \in Int
    <3> HIDE DEF m
    <3> QED BY <1>1, <1>2, <1>4, <1>5
  <2> QED BY <1>1, <2>1
<1> HIDE DEF m
<1> QED BY <1>1, <1>6, <1>7 DEF Buckets

-----------------------------------------------------------------------------
(* Places.                                                                 *)

Top == 1 .. 2 * SLOT_NUM
Bottom == 2 * SLOT_NUM + 1 .. 4 * SLOT_NUM
All == 1 .. 4 * SLOT_NUM

\* Which place comes n-th.
LEMMA PlacesIs ==
  ASSUME NEW a
  PROVE  /\ \E V : Places(a) \in Seq(V)
         /\ Len(Places(a)) = 4 * SLOT_NUM /\ DOMAIN Places(a) = All
         /\ \A n \in Top : Places(a)[n] = PlacesIn("top", a)[n]
         /\ \A n \in Bottom : Places(a)[n] = PlacesIn("bottom", a)[n - 2 * SLOT_NUM]
<1> DEFINE t == PlacesIn("top", a)
           b == PlacesIn("bottom", a)
           V == {t[n] : n \in Top} \cup {b[n] : n \in Top}
<1>1. SLOT_NUM \in Nat \ {0} /\ 2 * SLOT_NUM \in Nat /\ 4 * SLOT_NUM = 2 * SLOT_NUM + 2 * SLOT_NUM
  BY SizesAssumption
<1>2. t \in [1 .. 2 * SLOT_NUM -> V] /\ b \in [1 .. 2 * SLOT_NUM -> V]
  BY DEF PlacesIn, Top
<1>3. Places(a) = t \o b
  BY DEF Places
<1> HIDE DEF t, b, V
<1>4. t \in Seq(V) /\ b \in Seq(V) /\ Len(t) = 2 * SLOT_NUM /\ Len(b) = 2 * SLOT_NUM
  BY <1>1, <1>2, SeqDef
<1>5. Len(Places(a)) = 4 * SLOT_NUM /\ DOMAIN Places(a) = All
  <2>1. t \o b \in Seq(V) /\ Len(t \o b) = Len(t) + Len(b)
    BY <1>4
  <2>2. DOMAIN (t \o b) = 1 .. Len(t \o b)
    BY <2>1
  <2> QED BY <1>1, <1>3, <1>4, <2>1, <2>2 DEF All
<1>6. \A n \in Top : Places(a)[n] = t[n]
  BY <1>1, <1>3, <1>4 DEF Top
<1>7. \A n \in Bottom : Places(a)[n] = b[n - 2 * SLOT_NUM]
  BY <1>1, <1>3, <1>4 DEF Bottom
<1>8. \E W : Places(a) \in Seq(W)
  BY <1>3, <1>4
<1> QED BY <1>5, <1>6, <1>7, <1>8 DEF t, b

\* The places of an address.
LEMMA PlaceFacts ==
  ASSUME NEW a \in Nat
  PROVE  /\ \A n \in All : Places(a)[n] \in AllPlaces
         /\ \A n \in Top : Places(a)[n][1] = "top" /\ Places(a)[n][2] \in {F_IDX(a), S_IDX(a)}
         /\ \A n \in Bottom : /\ Places(a)[n][1] = "bottom"
                              /\ Places(a)[n][2] \in {F_IDX(a) \div 2, S_IDX(a) \div 2}
         /\ \A n, l \in Top : Places(a)[n] = Places(a)[l] => n = l
         /\ \A j \in Slots : \E n \in Bottom : Places(a)[n] = <<"bottom", S_IDX(a) \div 2, j>>
         /\ All = Top \cup Bottom /\ Top \cap Bottom = {} /\ All \subseteq Nat
<1>1. SLOT_NUM \in Nat \ {0}
  BY SizesAssumption
<1>2. /\ F_IDX(a) \in Buckets /\ S_IDX(a) \in Buckets /\ F_IDX(a) < S_IDX(a)
      /\ F_IDX(a) \div 2 \in Buckets /\ S_IDX(a) \div 2 \in Buckets
  BY HashRange
<1>3. All = Top \cup Bottom /\ Top \cap Bottom = {} /\ All \subseteq Nat
  BY <1>1 DEF All, Top, Bottom
<1>4. \A n \in Top : (n + 1) \div 2 \in Slots
  BY <1>1 DEF Top, Slots
<1>5. ASSUME NEW n \in Top
      PROVE  Places(a)[n] = <<"top", IF n % 2 = 1 THEN F_IDX(a) ELSE S_IDX(a), (n + 1) \div 2>>
  BY PlacesIs DEF PlacesIn, Bucket, Top
<1>6. ASSUME NEW n \in Bottom
      PROVE  /\ n - 2 * SLOT_NUM \in Top
             /\ Places(a)[n] = <<"bottom",
                  (IF (n - 2 * SLOT_NUM) % 2 = 1 THEN F_IDX(a) ELSE S_IDX(a)) \div 2,
                  ((n - 2 * SLOT_NUM) + 1) \div 2>>
  <2>1. n - 2 * SLOT_NUM \in Top
    BY <1>1 DEF Bottom, Top
  <2>2. Places(a)[n] = PlacesIn("bottom", a)[n - 2 * SLOT_NUM]
    BY PlacesIs
  <2> DEFINE m == n - 2 * SLOT_NUM
  <2>3. PlacesIn("bottom", a)[m] =
               <<"bottom", Bucket("bottom", IF m % 2 = 1 THEN F_IDX(a) ELSE S_IDX(a)), (m + 1) \div 2>>
    <3> HIDE DEF m
    <3>1. m \in Top
      BY <2>1 DEF m
    <3> QED BY <3>1 DEF PlacesIn, Top
  <2> QED BY <2>1, <2>2, <2>3 DEF Bucket
<1>7. ASSUME NEW n \in All PROVE Places(a)[n] \in AllPlaces
  <2>1. CASE n \in Top
    BY <1>2, <1>4, <1>5, <2>1 DEF AllPlaces, Levels
  <2>2. CASE n \in Bottom
    <3> DEFINE m == n - 2 * SLOT_NUM
    <3>1. m \in Top /\ (m + 1) \div 2 \in Slots
      BY <1>4, <1>6, <2>2
    <3>2. Places(a)[n] = <<"bottom", (IF m % 2 = 1 THEN F_IDX(a) ELSE S_IDX(a)) \div 2,
                           (m + 1) \div 2>>
      BY <1>6, <2>2
    <3> HIDE DEF m
    <3> QED BY <1>2, <3>1, <3>2 DEF AllPlaces, Levels
  <2> QED BY <1>3, <2>1, <2>2
<1>8. \A n \in Top : Places(a)[n][1] = "top" /\ Places(a)[n][2] \in {F_IDX(a), S_IDX(a)}
  BY <1>5
<1>9. \A n \in Bottom : /\ Places(a)[n][1] = "bottom"
                        /\ Places(a)[n][2] \in {F_IDX(a) \div 2, S_IDX(a) \div 2}
  BY <1>6
<1>10. ASSUME NEW n \in Top, NEW l \in Top, Places(a)[n] = Places(a)[l] PROVE n = l
  <2>1. n \in Nat /\ l \in Nat
    BY <1>3
  <2>2. (n + 1) \div 2 = (l + 1) \div 2
    BY <1>5, <1>10
  <2>3. (n % 2 = 1) <=> (l % 2 = 1)
    <3>1. (IF n % 2 = 1 THEN F_IDX(a) ELSE S_IDX(a)) = (IF l % 2 = 1 THEN F_IDX(a) ELSE S_IDX(a))
      BY <1>5, <1>10
    <3>2. F_IDX(a) # S_IDX(a)
      BY <1>2 DEF Buckets
    <3> QED BY <3>1, <3>2
  <2> QED BY <2>1, <2>2, <2>3
<1>11. ASSUME NEW j \in Slots
       PROVE  \E n \in Bottom : Places(a)[n] = <<"bottom", S_IDX(a) \div 2, j>>
  <2> DEFINE n == 2 * SLOT_NUM + 2 * j
  <2>1. j \in Nat /\ n \in Bottom /\ n - 2 * SLOT_NUM = 2 * j
    BY <1>1 DEF Slots, Bottom
  <2>2. (2 * j) % 2 = 0 /\ (2 * j + 1) \div 2 = j
    BY <2>1
  <2> HIDE DEF n
  <2>3. Places(a)[n] = <<"bottom", S_IDX(a) \div 2, j>>
    BY <1>6, <2>1, <2>2
  <2> QED BY <2>1, <2>3
<1> QED BY <1>3, <1>7, <1>8, <1>9, <1>10, <1>11

\* Writing one place of a table.
Written(t, p, s) == [t EXCEPT ![p[1]][p[2]][p[3]] = s]

LEMMA TableExcept ==
  ASSUME NEW t \in Tables, NEW p \in AllPlaces, NEW s \in [token : {0, 1}, key : Nat]
  PROVE  /\ Written(t, p, s) \in Tables
         /\ \A q \in AllPlaces :
              Written(t, p, s)[q[1]][q[2]][q[3]] = IF q = p THEN s ELSE t[q[1]][q[2]][q[3]]
<1> DEFINE t2 == [t EXCEPT ![p[1]][p[2]][p[3]] = s]
<1>1. p[1] \in Levels /\ p[2] \in Buckets /\ p[3] \in Slots
  BY DEF AllPlaces
<1>2. t2 \in Tables
  BY <1>1 DEF Tables
<1>3. ASSUME NEW q \in AllPlaces
      PROVE  t2[q[1]][q[2]][q[3]] = IF q = p THEN s ELSE t[q[1]][q[2]][q[3]]
  <2>1. /\ q[1] \in Levels /\ q[2] \in Buckets /\ q[3] \in Slots
        /\ q = <<q[1], q[2], q[3]>> /\ p = <<p[1], p[2], p[3]>>
    BY DEF AllPlaces
  <2>2. q = p <=> q[1] = p[1] /\ q[2] = p[2] /\ q[3] = p[3]
    BY <2>1
  <2> QED BY <1>1, <2>1, <2>2 DEF Tables
<1> QED BY <1>2, <1>3 DEF Written

-----------------------------------------------------------------------------
(* Choosing a place.                                                       *)

LEMMA MinIs ==
  ASSUME NEW I \in SUBSET Nat, NEW n \in I, \A l \in I : n <= l
  PROVE  Min(I) = n
<1>1. n \in Nat
  OBVIOUS
<1>2. ASSUME NEW m \in I, \A l \in I : m <= l
      PROVE  m = n
  <2>1. m <= n /\ n <= m /\ m \in Nat
    BY <1>2
  <2> QED BY <1>1, <2>1
<1> QED BY <1>2 DEF Min

LEMMA LeastExists ==
  ASSUME NEW I \in SUBSET Nat, I # {}
  PROVE  \E n \in I : \A l \in I : n <= l
<1> DEFINE T == {0 .. n : n \in I}
<1>1. T \subseteq FiniteSubsetsOf(Nat) /\ T # {}
  <2>1. \A n \in I : (0 .. n) \subseteq Nat /\ IsFiniteSet(0 .. n)
    BY FS_Interval
  <2> QED BY <2>1 DEF FiniteSubsetsOf
<1>2. PICK n \in I : \A l \in I : <<0 .. l, 0 .. n>> \notin StrictSubsetOrdering(Nat)
  <2> HIDE DEF T
  <2>1. \E x \in T : \A y \in T : <<y, x>> \notin StrictSubsetOrdering(Nat)
    BY <1>1, FS_StrictSubsetOrderingWellFounded, WFMin
  <2> QED BY <2>1 DEF T
<1>3. ASSUME NEW l \in I, l < n
      PROVE  FALSE
  <2>1. l \in Nat /\ n \in Nat
    OBVIOUS
  <2>2. n \notin 0 .. l /\ n \in 0 .. n /\ 0 .. l \subseteq 0 .. n
    BY <1>3, <2>1
  <2>3. <<0 .. l, 0 .. n>> \in StrictSubsetOrdering(Nat)
    BY <2>1, <2>2 DEF StrictSubsetOrdering
  <2> QED BY <1>2, <2>3
<1> QED BY <1>3

\* The places after those of the page itself do not matter if one of them is chosen.
LEMMA Appended ==
  ASSUME NEW key
  PROVE  LET s == PlacesOf(key) \o MovePlaces(Address(key))
         IN  /\ Len(s) \in Nat /\ All \subseteq 1 .. Len(s)
             /\ \A n \in All : s[n] = PlacesOf(key)[n]
<1> DEFINE t == PlacesOf(key)
           b == MovePlaces(Address(key))
           W == {b[n] : n \in 1 .. SLOT_NUM * SLOT_NUM}
<1>1. SLOT_NUM \in Nat /\ SLOT_NUM * SLOT_NUM \in Nat /\ 4 * SLOT_NUM \in Nat
  BY SizesAssumption
<1>2. PICK V : t \in Seq(V)
  BY PlacesIs DEF PlacesOf
<1>3. Len(t) = 4 * SLOT_NUM
  BY PlacesIs DEF PlacesOf
<1>4. b \in [1 .. SLOT_NUM * SLOT_NUM -> W]
  BY DEF MovePlaces
<1> HIDE DEF t, b, W
<1>5. b \in Seq(W) /\ Len(b) \in Nat
  BY <1>1, <1>4, SeqDef
<1>6. t \in Seq(V \cup W) /\ b \in Seq(V \cup W)
  BY <1>2, <1>5
<1>7. Len(t \o b) = Len(t) + Len(b) /\ \A n \in 1 .. Len(t) : (t \o b)[n] = t[n]
  BY <1>6
<1>8. Len(t \o b) \in Nat /\ All \subseteq 1 .. Len(t \o b)
  BY <1>1, <1>3, <1>5, <1>7 DEF All
<1> QED BY <1>3, <1>7, <1>8 DEF t, b, All

\* Writing one place.
LEMMA ReplacedIs ==
  ASSUME hash_table \in Tables, NEW p \in AllPlaces, NEW s \in [token : {0, 1}, key : Nat]
  PROVE  /\ Replaced({p}, s) \in Tables
         /\ \A q \in AllPlaces :
              Replaced({p}, s)[q[1]][q[2]][q[3]] = IF q = p THEN s ELSE At(q)
<1>1. (CHOOSE q \in {p} : TRUE) = p
  OBVIOUS
<1>2. Replaced({p}, s) = Written(hash_table, p, s)
  BY <1>1 DEF Replaced, Written
<1>3. /\ Written(hash_table, p, s) \in Tables
      /\ \A q \in AllPlaces : Written(hash_table, p, s)[q[1]][q[2]][q[3]]
                                = IF q = p THEN s ELSE hash_table[q[1]][q[2]][q[3]]
  BY TableExcept, ZenonT(60)
<1>4. \A q \in AllPlaces : At(q) = hash_table[q[1]][q[2]][q[3]]
  BY DEF At
<1> DEFINE r == Replaced({p}, s)
           w == Written(hash_table, p, s)
<1>5. r = w
  BY <1>2
<1>6. /\ w \in Tables
      /\ \A q \in AllPlaces : w[q[1]][q[2]][q[3]] = IF q = p THEN s ELSE hash_table[q[1]][q[2]][q[3]]
  BY <1>3
<1> HIDE DEF r, w
<1>7. /\ r \in Tables
      /\ \A q \in AllPlaces : r[q[1]][q[2]][q[3]] = IF q = p THEN s ELSE At(q)
  BY <1>4, <1>5, <1>6
<1> QED BY <1>7 DEF r

\* The place that insert_hash_table() takes.
LEMMA InsertPlace ==
  ASSUME NEW key, NEW n \in All, At(PlacesOf(key)[n]).token = 0,
         \A l \in 1 .. n - 1 : At(PlacesOf(key)[l]).token # 0
  PROVE  insert_hash_table(Address(key), key)
           = Replaced({PlacesOf(key)[n]}, [token |-> 1, key |-> key])
<1> DEFINE s == PlacesOf(key) \o MovePlaces(Address(key))
           I == {m \in 1 .. Len(s) : At(s[m]).token = 0}
<1>1. /\ Len(s) \in Nat /\ All \subseteq 1 .. Len(s)
      /\ \A m \in All : s[m] = PlacesOf(key)[m]
  BY Appended
<1>2. n \in Nat \ {0} /\ \A l \in 1 .. n - 1 : l \in All
  BY SizesAssumption DEF All
<1> HIDE DEF s
<1>3. n \in I /\ \A l \in I : n <= l
  <2>1. n \in I
    BY <1>1
  <2>2. ASSUME NEW l \in I, l < n PROVE FALSE
    <3>1. l \in 1 .. n - 1
      BY <1>1, <1>2, <2>2
    <3> QED BY <1>1, <1>2, <3>1
  <2> QED BY <1>1, <1>2, <2>1, <2>2
<1>4. SelectInSeq(s, LAMBDA p : At(p).token = 0) = n
  <2>1. I \in SUBSET Nat
    OBVIOUS
  <2>2. Min(I) = n /\ I # {}
    BY <1>3, <2>1, MinIs
  <2> QED BY <2>2 DEF SelectInSeq
<1>5. FirstPlace(s, LAMBDA p : At(p).token = 0) = {PlacesOf(key)[n]}
  BY <1>1, <1>2, <1>4 DEF FirstPlace
<1> QED BY <1>5 DEF insert_hash_table, s, PlacesOf

-----------------------------------------------------------------------------
(* Entries.                                                                *)

LEMMA EntryType ==
  ASSUME hash_table \in Tables, NEW p \in AllPlaces
  PROVE  At(p) \in [token : {0, 1}, key : Nat] /\ At(p).token \in {0, 1} /\ At(p).key \in Nat
<1>1. p[1] \in Levels /\ p[2] \in Buckets /\ p[3] \in Slots
  BY DEF AllPlaces
<1> QED BY <1>1 DEF At, Tables

LEMMA AddressType ==
  ASSUME NEW page \in Nat
  PROVE  Address(page) \in Nat
BY SizesAssumption DEF Address

\* PlaceFacts for a page.
LEMMA PagePlaces ==
  ASSUME NEW page \in Nat
  PROVE  /\ \A n \in All : PlacesOf(page)[n] \in AllPlaces
         /\ \A n \in Top : /\ PlacesOf(page)[n][1] = "top"
                           /\ PlacesOf(page)[n][2] \in {F_IDX(Address(page)), S_IDX(Address(page))}
         /\ \A n \in Bottom : /\ PlacesOf(page)[n][1] = "bottom"
                              /\ PlacesOf(page)[n][2] \in {F_IDX(Address(page)) \div 2, S_IDX(Address(page)) \div 2}
         /\ \A n, l \in Top : PlacesOf(page)[n] = PlacesOf(page)[l] => n = l
         /\ \A j \in Slots : \E n \in Bottom :
              PlacesOf(page)[n] = <<"bottom", S_IDX(Address(page)) \div 2, j>>
         /\ All = Top \cup Bottom /\ Top \cap Bottom = {} /\ All \subseteq Nat
<1>1. Address(page) \in Nat
  BY AddressType
<1> HIDE DEF Address
<1> QED BY <1>1, PlaceFacts DEF PlacesOf

\* A page has one entry.
LEMMA OnePlace ==
  ASSUME EntriesFound, hash_table \in Tables,
         NEW p \in AllPlaces, NEW q \in AllPlaces, At(p).token = 1, At(q).token = 1,
         At(p).key = At(q).key
  PROVE  p = q
<1> DEFINE k == At(p).key
<1>1. PICK n \in All : /\ p = PlacesOf(k)[n]
                       /\ \A l \in 1 .. n - 1 : At(PlacesOf(k)[l]).key # k
  BY DEF EntriesFound, All
<1>2. PICK m \in All : /\ q = PlacesOf(k)[m]
                       /\ \A l \in 1 .. m - 1 : At(PlacesOf(k)[l]).key # k
  BY DEF EntriesFound, All
<1>3. n \in Nat \ {0} /\ m \in Nat \ {0}
  BY SizesAssumption DEF All
<1>4. At(q).key = k /\ At(p).key = k
  OBVIOUS
<1> HIDE DEF k
<1>5. ~(n < m)
  <2> SUFFICES ASSUME n < m PROVE FALSE
    OBVIOUS
  <2>1. n \in 1 .. m - 1
    BY <1>3
  <2> QED BY <2>1, <1>1, <1>2, <1>4
<1>6. ~(m < n)
  <2> SUFFICES ASSUME m < n PROVE FALSE
    OBVIOUS
  <2>1. m \in 1 .. n - 1
    BY <1>3
  <2> QED BY <2>1, <1>1, <1>2, <1>4
<1>7. n = m
  BY <1>3, <1>5, <1>6
<1> QED BY <1>1, <1>2, <1>7

\* Deleting finds the entry of a page.
LEMMA DeletePlace ==
  ASSUME EntriesFound, hash_table \in Tables,
         NEW p \in AllPlaces, At(p).token = 1
  PROVE  ToDelete(Address(At(p).key), At(p).key) = {p}
<1> DEFINE k == At(p).key
           s == PlacesOf(k)
           I == {m \in 1 .. Len(s) : At(s[m]).key = k}
<1>1. PICK n \in All : p = s[n] /\ \A l \in 1 .. n - 1 : At(s[l]).key # k
  BY DEF EntriesFound, All
<1>2. 1 .. Len(s) = All /\ Len(s) \in Nat
  BY PlacesIs, SizesAssumption DEF PlacesOf, All
<1>3. n \in I /\ I \in SUBSET Nat /\ n \in Nat \ {0}
  BY <1>1, <1>2
<1>4. ASSUME NEW l \in I PROVE n <= l
  <2> SUFFICES ASSUME l < n PROVE FALSE
    BY <1>3
  <2>1. l \in 1 .. n - 1
    BY <1>3
  <2> QED BY <2>1, <1>1
<1>5. Min(I) = n /\ I # {}
  <2> HIDE DEF I
  <2> QED BY <1>3, <1>4, MinIs
<1> HIDE DEF s
<1>6. SelectInSeq(s, LAMBDA q : At(q).key = k) = n
  BY <1>5 DEF SelectInSeq
<1>7. FirstPlace(s, LAMBDA q : At(q).key = k) = {s[n]}
  BY <1>3, <1>6 DEF FirstPlace
<1> QED BY <1>1, <1>7 DEF ToDelete, s, PlacesOf

\* What is not entered: nothing, or a former entry.
LEMMA DeleteNothing ==
  ASSUME hash_table \in Tables, NEW key \in Nat
  PROVE  \/ ToDelete(Address(key), key) = {}
         \/ \E p \in AllPlaces : ToDelete(Address(key), key) = {p} /\ At(p).key = key
<1> DEFINE s == PlacesOf(key)
           I == {m \in 1 .. Len(s) : At(s[m]).key = key}
           n == SelectInSeq(s, LAMBDA q : At(q).key = key)
<1>1. 1 .. Len(s) = All /\ \A m \in All : s[m] \in AllPlaces
  BY PlacesIs, PagePlaces DEF PlacesOf, All
<1>2. All \subseteq Nat
  BY SizesAssumption DEF All
<1>3. ToDelete(Address(key), key) = IF n = 0 THEN {} ELSE {s[n]}
  BY DEF ToDelete, FirstPlace, PlacesOf
<1> HIDE DEF s
<1>4. n = IF I # {} THEN Min(I) ELSE 0
  BY DEF SelectInSeq
<1>5. CASE I = {}
  BY <1>3, <1>4, <1>5
<1>6. CASE I # {}
  <2>1. I \in SUBSET Nat /\ \A m \in I : m \in All /\ At(s[m]).key = key
    BY <1>1, <1>2
  <2> HIDE DEF I, n
  <2>2. Min(I) \in I
    BY <1>6, <2>1, LeastExists, MinIs
  <2>3. n \in All /\ At(s[n]).key = key
    BY <1>4, <1>6, <2>1, <2>2
  <2>4. n = 0 \/ ToDelete(Address(key), key) = {s[n]}
    BY <1>3
  <2>5. s[n] \in AllPlaces
    BY <1>1, <2>3
  <2>6. n # 0
    BY <2>3, SizesAssumption DEF All
  <2> QED BY <2>3, <2>4, <2>5, <2>6
<1> QED BY <1>5, <1>6

\* The table after delete_hash_table(): the page has no entry, other pages have theirs.
LEMMA DeletedTable ==
  ASSUME EntriesFound, hash_table \in Tables, NEW key \in Nat,
         hash_table' = delete_hash_table(Address(key), key)
  PROVE  /\ hash_table' \in Tables
         /\ \A q \in AllPlaces :
              /\ At(q)'.key = At(q).key
              /\ At(q)'.token = 1 <=> At(q).token = 1 /\ At(q).key # key
<1> DEFINE d == ToDelete(Address(key), key)
           e == [token |-> 0, key |-> key]
<1>1. hash_table' = Replaced(d, e) /\ e \in [token : {0, 1}, key : Nat]
  BY DEF delete_hash_table
<1>2. d = {} \/ \E p \in AllPlaces : d = {p} /\ At(p).key = key
  BY DeleteNothing
<1>3. \A q \in AllPlaces : At(q).token = 1 /\ At(q).key = key => d = {q}
  BY DeletePlace
<1>4. \A q \in AllPlaces : At(q)' = hash_table'[q[1]][q[2]][q[3]]
  BY DEF At
<1> HIDE DEF d, e
<1>5. CASE d = {}
  <2>1. hash_table' = hash_table
    BY <1>1, <1>5 DEF Replaced
  <2>2. \A q \in AllPlaces : At(q)' = At(q)
    BY <2>1 DEF At
  <2>3. \A q \in AllPlaces : d # {q}
    BY <1>5
  <2> QED BY <1>3, <2>1, <2>2, <2>3
<1>6. ASSUME NEW p \in AllPlaces, d = {p}, At(p).key = key
      PROVE  /\ hash_table' \in Tables
             /\ \A q \in AllPlaces :
                  /\ At(q)'.key = At(q).key
                  /\ At(q)'.token = 1 <=> At(q).token = 1 /\ At(q).key # key
  <2> DEFINE r == Replaced({p}, e)
  <2>1. r \in Tables /\ \A q \in AllPlaces : r[q[1]][q[2]][q[3]] = IF q = p THEN e ELSE At(q)
    BY <1>1, ReplacedIs
  <2>2. hash_table' = r
    BY <1>1, <1>6
  <2> HIDE DEF r
  <2>3. \A q \in AllPlaces : At(q)' = IF q = p THEN e ELSE At(q)
    BY <1>4, <2>1, <2>2
  <2>4. e.token = 0 /\ e.key = key
    BY DEF e
  <2>5. ASSUME NEW q \in AllPlaces
        PROVE  /\ At(q)'.key = At(q).key
               /\ At(q)'.token = 1 <=> At(q).token = 1 /\ At(q).key # key
    <3>1. CASE q = p
      BY <1>6, <2>3, <2>4, <3>1
    <3>2. CASE q # p
      <4>1. At(q)' = At(q)
        BY <2>3, <3>2
      <4>2. d # {q}
        BY <1>6, <3>2
      <4> QED BY <1>3, <4>1, <4>2
    <3> QED BY <3>1, <3>2
  <2> QED BY <2>1, <2>2, <2>5
<1> QED BY <1>2, <1>5, <1>6

-----------------------------------------------------------------------------
(* There is room for every page.                                           *)

\* An entry in one of the places of a level that a page has shares the second bucket.
LEMMA SharedBucket ==
  ASSUME NEW k \in Nat, NEW l \in Nat, NEW n \in Top, NEW m \in All,
         PlacesOf(k)[n] = PlacesOf(l)[m]
  PROVE  S_IDX(Address(k)) = S_IDX(Address(l))
<1> DEFINE a == Address(k)
           b == Address(l)
<1>1. a \in Nat /\ b \in Nat
  BY AddressType
<1>2. /\ PlacesOf(k)[n][1] = "top"
      /\ PlacesOf(k)[n][2] \in {F_IDX(a), S_IDX(a)}
  BY PagePlaces
<1>3. /\ m \in Top \/ m \in Bottom
      /\ m \in Bottom => PlacesOf(l)[m][1] = "bottom"
      /\ m \in Top => PlacesOf(l)[m][2] \in {F_IDX(b), S_IDX(b)}
  BY PagePlaces
<1> HIDE DEF a, b
<1>4. /\ F_IDX(a) < S_IDX(b) /\ F_IDX(b) < S_IDX(a)
      /\ F_IDX(a) = F_IDX(b) => S_IDX(a) = S_IDX(b)
      /\ F_IDX(a) \in Int /\ F_IDX(b) \in Int /\ S_IDX(a) \in Int /\ S_IDX(b) \in Int
  BY <1>1, HashRange DEF Buckets
<1>5. m \in Top
  BY <1>2, <1>3
<1>6. PlacesOf(k)[n][2] \in {F_IDX(b), S_IDX(b)}
  BY <1>3, <1>5
<1>7. S_IDX(a) = S_IDX(b)
  BY <1>2, <1>4, <1>6
<1> QED BY <1>7 DEF a, b

\* When the top buckets of a page are full, no page that shares them is further down.
LEMMA FullTop ==
  ASSUME EntriesFound, hash_table \in Tables, Roomy, page_alloc_index \in 2 .. MaxPages,
         NEW key \in Heap, ~Entered(key),
         \A n \in Top : At(PlacesOf(key)[n]).token = 1,
         NEW p \in AllPlaces, p[1] = "bottom", At(p).token = 1
  PROVE  S_IDX(Address(At(p).key)) # S_IDX(Address(key))
<1> SUFFICES ASSUME S_IDX(Address(At(p).key)) = S_IDX(Address(key))
             PROVE  FALSE
  OBVIOUS
<1> DEFINE N == Neighbours(key)
           pk == At(p).key
           T == N \ {key, pk}
           f == [n \in Top |-> At(PlacesOf(key)[n]).key]
<1>1. key \in Nat /\ Heap \subseteq Nat /\ SLOT_NUM \in Nat /\ MaxPages \in Nat
  BY SizesAssumption DEF Heap
<1>2. \A q \in AllPlaces : At(q).token = 1 => At(q).key \in Heap /\ At(q).key # key
  <2>1. 2 .. page_alloc_index - 1 \subseteq Heap
    BY <1>1 DEF Heap
  <2> QED BY <2>1 DEF EntriesFound, Entered
<1>3. /\ \A n \in Top : PlacesOf(key)[n] \in AllPlaces /\ PlacesOf(key)[n][1] = "top"
      /\ \A n, l \in Top : PlacesOf(key)[n] = PlacesOf(key)[l] => n = l
  BY <1>1, PagePlaces
<1>4. IsFiniteSet(N) /\ Cardinality(N) \in Nat /\ Cardinality(N) <= 2 * SLOT_NUM + 1
  <2>1. IsFiniteSet(Heap)
    BY <1>1, FS_Interval DEF Heap
  <2>2. N \in SUBSET Heap
    BY DEF Neighbours
  <2>3. IsFiniteSet(N)
    BY <2>1, <2>2, FS_Subset
  <2> QED BY <2>3, FS_CardinalityType DEF Roomy
<1>5. key \in N /\ pk \in N /\ pk # key
  BY <1>2 DEF Neighbours
<1>6. IsFiniteSet(T) /\ Cardinality(T) <= 2 * SLOT_NUM - 1 /\ Cardinality(T) \in Nat
  <2>1. IsFiniteSet(N \ {key}) /\ Cardinality(N \ {key}) = Cardinality(N) - 1
    BY <1>4, <1>5, FS_RemoveElement
  <2>2. IsFiniteSet((N \ {key}) \ {pk}) /\ Cardinality((N \ {key}) \ {pk}) = Cardinality(N) - 2
    <3> DEFINE M == N \ {key}
    <3>1. pk \in M /\ IsFiniteSet(M) /\ Cardinality(M) = Cardinality(N) - 1
      BY <1>5, <2>1
    <3> HIDE DEF M, N, pk
    <3>2. IsFiniteSet(M \ {pk}) /\ Cardinality(M \ {pk}) = Cardinality(M) - 1
      BY <3>1, FS_RemoveElement
    <3>3. Cardinality(M \ {pk}) = Cardinality(N) - 2
      BY <1>4, <3>1, <3>2
    <3> QED BY <3>2, <3>3 DEF M
  <2>3. T = (N \ {key}) \ {pk}
    OBVIOUS
  <2> HIDE DEF T, N
  <2>4. IsFiniteSet(T) /\ Cardinality(T) = Cardinality(N) - 2
    BY <2>2, <2>3
  <2> QED BY <1>1, <1>4, <2>4, FS_CardinalityType
<1>7. ASSUME NEW n \in Top PROVE f[n] \in T
  <2> DEFINE q == PlacesOf(key)[n]
             k == At(q).key
  <2>1. q \in AllPlaces /\ At(q).token = 1 /\ q[1] = "top"
    BY <1>3
  <2>2. k \in Heap /\ k # key /\ \E m \in All : q = PlacesOf(k)[m]
    BY <1>2, <2>1 DEF EntriesFound, All
  <2>3. S_IDX(Address(key)) = S_IDX(Address(k))
    <3>1. k \in Nat /\ \E m \in All : PlacesOf(key)[n] = PlacesOf(k)[m]
      BY <1>1, <2>2
    <3> HIDE DEF k
    <3> QED BY <1>1, <3>1, SharedBucket
  <2>4. k # pk
    <3>1. q # p
      BY <2>1
    <3> QED BY <2>1, <3>1, OnePlace
  <2>5. k \in T
    BY <2>2, <2>3, <2>4 DEF Neighbours
  <2> QED BY <2>5
<1>8. ASSUME NEW n \in Top, NEW l \in Top, f[n] = f[l] PROVE n = l
  <2> DEFINE q == PlacesOf(key)[n]
             r == PlacesOf(key)[l]
  <2>1. q \in AllPlaces /\ r \in AllPlaces /\ At(q).token = 1 /\ At(r).token = 1
    BY <1>3
  <2>2. At(q).key = At(r).key
    BY <1>8
  <2> HIDE DEF q, r
  <2>3. q = r
    BY <2>1, <2>2, OnePlace
  <2> QED BY <1>3, <2>3 DEF q, r
<1>9. f \in Injection(Top, T)
  <2>1. f \in [Top -> T]
    BY <1>7
  <2> HIDE DEF f, T
  <2> QED BY <1>8, <2>1 DEF Injection, IsInjective
<1> HIDE DEF T, f
<1>10. Cardinality(Top) <= Cardinality(T)
  BY <1>6, <1>9, FS_Injection
<1>11. Cardinality(Top) = 2 * SLOT_NUM
  <2>1. 2 * SLOT_NUM \in Nat \ {0}
    BY SizesAssumption
  <2> QED BY <2>1, FS_Interval DEF Top
<1> QED BY <1>1, <1>6, <1>10, <1>11

\* A page that is not entered has a free place.
LEMMA FreePlace ==
  ASSUME EntriesFound, BottomSparse, hash_table \in Tables, Roomy,
         page_alloc_index \in 2 .. MaxPages, NEW key \in Heap, ~Entered(key)
  PROVE  \E n \in All : At(PlacesOf(key)[n]).token = 0
<1> SUFFICES ASSUME \A n \in All : At(PlacesOf(key)[n]).token # 0
             PROVE  FALSE
  OBVIOUS
<1>1. key \in Nat /\ MaxPages \in Nat /\ 1 \in Slots /\ 2 \in Slots
  BY SizesAssumption DEF Heap, Roomy, Slots
<1>2. \A n \in All : PlacesOf(key)[n] \in AllPlaces /\ At(PlacesOf(key)[n]).token = 1
  <2>1. \A n \in All : PlacesOf(key)[n] \in AllPlaces
    BY <1>1, PagePlaces
  <2> QED BY <2>1, EntryType
<1>3. \A n \in Top : At(PlacesOf(key)[n]).token = 1
  BY <1>1, <1>2, PagePlaces
<1> DEFINE c == S_IDX(Address(key))
           b == c \div 2
<1>4. ASSUME NEW j \in Slots
      PROVE  LET p == <<"bottom", b, j>>
                 k == At(p).key
             IN  p \in AllPlaces /\ At(p).token = 1 /\ k \in Nat
                 /\ S_IDX(Address(k)) \div 2 = b /\ S_IDX(Address(k)) # c
  <2> DEFINE p == <<"bottom", b, j>>
             k == At(p).key
  <2>1. PICK n \in Bottom : PlacesOf(key)[n] = p
    BY <1>1, PagePlaces
  <2> HIDE DEF p
  <2>0. n \in All
    BY <1>1, PagePlaces
  <2>2. p \in AllPlaces /\ At(p).token = 1
    BY <1>2, <2>1, <2>0
  <2> USE DEF p
  <2>3. k \in Nat
    BY <2>2, EntryType
  <2>4. PICK m \in All : p = PlacesOf(k)[m]
    BY <2>2 DEF EntriesFound, All
  <2>5. p[1] = "bottom" /\ p[2] = b
    OBVIOUS
  <2> HIDE DEF p, k, b, c
  <2>6. m \in Bottom
    BY <2>3, <2>4, <2>5, PagePlaces
  <2>7. b = F_IDX(Address(k)) \div 2 \/ b = S_IDX(Address(k)) \div 2
    BY <2>3, <2>4, <2>5, <2>6, PagePlaces
  <2>8. b # F_IDX(Address(k)) \div 2
    <3>1. Address(k) \in Nat /\ Address(key) \in Nat
      BY <1>1, <2>3, AddressType
    <3>2. F_IDX(Address(k)) \div 2 < S_IDX(Address(key)) \div 2
      BY <3>1, HashRange
    <3>3. F_IDX(Address(k)) \div 2 \in Int /\ S_IDX(Address(key)) \div 2 \in Int
      BY <3>1, HashRange DEF Buckets
    <3> QED BY <3>2, <3>3 DEF b, c
  <2>9. S_IDX(Address(k)) # c
    BY <1>3, <2>2, <2>5, FullTop DEF k, c
  <2> QED BY <2>2, <2>3, <2>7, <2>8, <2>9 DEF p, k
<1> DEFINE p1 == <<"bottom", b, 1>>
           p2 == <<"bottom", b, 2>>
           k1 == At(p1).key
           k2 == At(p2).key
<1>5. /\ p1 \in AllPlaces /\ At(p1).token = 1 /\ k1 \in Nat
      /\ S_IDX(Address(k1)) \div 2 = b /\ S_IDX(Address(k1)) # c
  BY <1>1, <1>4
<1>6. /\ p2 \in AllPlaces /\ At(p2).token = 1 /\ k2 \in Nat
      /\ S_IDX(Address(k2)) \div 2 = b /\ S_IDX(Address(k2)) # c
  BY <1>1, <1>4
<1>7. p1[1] = "bottom" /\ p2[1] = "bottom" /\ p1 # p2
  OBVIOUS
<1>8. S_IDX(Address(k1)) \in Nat /\ S_IDX(Address(k2)) \in Nat /\ c \in Nat
  <2>1. Address(k1) \in Nat /\ Address(k2) \in Nat /\ Address(key) \in Nat
    BY <1>1, <1>5, <1>6, AddressType
  <2> QED BY <2>1, HashRange DEF Buckets
<1> HIDE DEF p1, p2, k1, k2
<1>9. S_IDX(Address(k1)) = S_IDX(Address(k2))
  <2> DEFINE x == S_IDX(Address(k1))
             y == S_IDX(Address(k2))
  <2>1. x \in Nat /\ y \in Nat /\ c \in Nat /\ x \div 2 = c \div 2 /\ y \div 2 = c \div 2
        /\ x # c /\ y # c
    BY <1>5, <1>6, <1>8
  <2> HIDE DEF x, y, c
  <2>2. x = y
    BY <2>1
  <2> QED BY <2>2 DEF x, y
<1>10. p1 = p2
  BY <1>5, <1>6, <1>7, <1>9 DEF BottomSparse, k1, k2
<1> QED BY <1>7, <1>10

\* The table after insert_hash_table(): the page has the first free one of its places,
\* one of the bottom level only if no page that shares its bucket is there.
LEMMA InsertedTable ==
  ASSUME EntriesFound, BottomSparse, hash_table \in Tables, Roomy,
         page_alloc_index \in 2 .. MaxPages, NEW key \in Heap, ~Entered(key),
         hash_table' = insert_hash_table(Address(key), key)
  PROVE  /\ hash_table' \in Tables
         /\ \E n \in All :
              /\ At(PlacesOf(key)[n]).token = 0
              /\ \A l \in 1 .. n - 1 : l \in All /\ At(PlacesOf(key)[l]).token = 1
              /\ n \in Top \/ \A p \in AllPlaces : p[1] = "bottom" /\ At(p).token = 1
                                => S_IDX(Address(At(p).key)) # S_IDX(Address(key))
              /\ \A q \in AllPlaces : At(q)' = IF q = PlacesOf(key)[n]
                                               THEN [token |-> 1, key |-> key] ELSE At(q)
<1> DEFINE I == {n \in All : At(PlacesOf(key)[n]).token = 0}
           e == [token |-> 1, key |-> key]
<1>1. key \in Nat /\ MaxPages \in Nat /\ SLOT_NUM \in Nat
  BY SizesAssumption DEF Heap
<1>2. I \in SUBSET Nat /\ I # {}
  BY <1>1, FreePlace, PagePlaces
<1>3. PICK n \in I : \A l \in I : n <= l
  <2> HIDE DEF I
  <2> QED BY <1>2, LeastExists
<1>4. n \in All /\ At(PlacesOf(key)[n]).token = 0 /\ PlacesOf(key)[n] \in AllPlaces
  BY <1>1, <1>3, PagePlaces
<1>5. ASSUME NEW l \in 1 .. n - 1 PROVE l \in All /\ At(PlacesOf(key)[l]).token = 1
  <2>1. l \in All /\ l < n /\ ~(n <= l)
    BY <1>1, <1>4 DEF All
  <2>2. PlacesOf(key)[l] \in AllPlaces /\ l \notin I
    BY <1>1, <1>3, <2>1, PagePlaces
  <2> QED BY <2>1, <2>2, EntryType
<1>6. ASSUME n \in Bottom
      PROVE  \A q \in AllPlaces : q[1] = "bottom" /\ At(q).token = 1
               => S_IDX(Address(At(q).key)) # S_IDX(Address(key))
  <2>1. \A l \in Top : l \in 1 .. n - 1
    BY <1>1, <1>6 DEF Top, Bottom
  <2>2. \A l \in Top : At(PlacesOf(key)[l]).token = 1
    BY <1>5, <2>1
  <2> HIDE DEF I
  <2> QED BY <2>2, FullTop
<1>7. n \in Top \/ n \in Bottom
  BY <1>1, <1>4, PagePlaces
<1>8. e \in [token : {0, 1}, key : Nat]
  BY <1>1
<1> DEFINE p == PlacesOf(key)[n]
           r == Replaced({p}, e)
<1>9. hash_table' = r
  <2>1. \A l \in 1 .. n - 1 : At(PlacesOf(key)[l]).token # 0
    BY <1>5
  <2> QED BY <1>4, <2>1, InsertPlace
<1>10. r \in Tables /\ \A q \in AllPlaces : r[q[1]][q[2]][q[3]] = IF q = p THEN e ELSE At(q)
  <2> HIDE DEF e
  <2> QED BY <1>4, <1>8, ReplacedIs
<1>11. \A q \in AllPlaces : At(q)' = hash_table'[q[1]][q[2]][q[3]]
  BY DEF At
<1> HIDE DEF r
<1>12. \A q \in AllPlaces : At(q)' = IF q = p THEN e ELSE At(q)
  BY <1>9, <1>10, <1>11
<1> HIDE DEF I
<1>13. n \in Top \/ \A q \in AllPlaces : q[1] = "bottom" /\ At(q).token = 1
                       => S_IDX(Address(At(q).key)) # S_IDX(Address(key))
  BY <1>6, <1>7
<1> QED BY <1>4, <1>5, <1>9, <1>10, <1>12, <1>13

\* Entering a page keeps what is known of the table.
LEMMA InsertKeeps ==
  ASSUME EntriesFound, BottomSparse, hash_table \in Tables, Roomy,
         page_alloc_index \in 2 .. MaxPages, NEW key \in Heap, ~Entered(key),
         hash_table' = insert_hash_table(Address(key), key),
         page_alloc_index' \in 2 .. MaxPages, page_alloc_index <= page_alloc_index',
         key \in 2 .. page_alloc_index' - 1
  PROVE  /\ hash_table' \in Tables /\ EntriesFound' /\ BottomSparse'
         /\ \A k \in Nat : Entered(k)' <=> Entered(k) \/ k = key
<1> DEFINE E(x) == hash_table'[x[1]][x[2]][x[3]]
<1>1. key \in Nat /\ MaxPages \in Nat /\ SLOT_NUM \in Nat
  BY SizesAssumption DEF Heap
<1>2. hash_table' \in Tables
  BY InsertedTable
<1>3. PICK n \in All :
        /\ At(PlacesOf(key)[n]).token = 0
        /\ \A l \in 1 .. n - 1 : l \in All /\ At(PlacesOf(key)[l]).token = 1
        /\ n \in Top \/ \A p \in AllPlaces : p[1] = "bottom" /\ At(p).token = 1
                          => S_IDX(Address(At(p).key)) # S_IDX(Address(key))
        /\ \A q \in AllPlaces : E(q) = IF q = PlacesOf(key)[n]
                                         THEN [token |-> 1, key |-> key] ELSE At(q)
  BY InsertedTable DEF At
<1> DEFINE p == PlacesOf(key)[n]
<1>4. p \in AllPlaces /\ E(p).token = 1 /\ E(p).key = key /\ At(p).token = 0
  BY <1>1, <1>3, PagePlaces
<1>5. \A q \in AllPlaces : q # p => E(q) = At(q)
  BY <1>3
<1>6. \A q \in AllPlaces : At(q).token = 1 => At(q).key # key /\ q # p
  BY <1>4 DEF Entered
<1>7. EntriesFound'
  <2> SUFFICES ASSUME NEW q \in AllPlaces, E(q).token = 1
               PROVE  /\ E(q).key \in 2 .. page_alloc_index' - 1
                      /\ \E m \in 1 .. 4 * SLOT_NUM :
                           /\ q = PlacesOf(E(q).key)[m]
                           /\ \A l \in 1 .. m - 1 : E(PlacesOf(E(q).key)[l]).key # E(q).key
    BY DEF EntriesFound, At
  <2> HIDE DEF E
  <2>1. CASE q = p
    <3>1. ASSUME NEW l \in 1 .. n - 1 PROVE E(PlacesOf(key)[l]).key # key
      <4>1. /\ PlacesOf(key)[l] \in AllPlaces /\ At(PlacesOf(key)[l]).token = 1
        BY <1>1, <1>3, PagePlaces
      <4> QED BY <1>5, <1>6, <1>4, <4>1
    <3>2. E(q).key = key /\ n \in 1 .. 4 * SLOT_NUM /\ q = PlacesOf(key)[n]
      BY <1>4, <2>1 DEF All
    <3> HIDE DEF p
    <3> QED BY <3>1, <3>2
  <2>2. CASE q # p
    <3> DEFINE k == At(q).key
    <3>1. E(q) = At(q) /\ At(q).token = 1 /\ k # key
      BY <1>5, <1>6, <2>2
    <3>2. k \in 2 .. page_alloc_index - 1 /\ k \in Nat
      BY <3>1 DEF EntriesFound
    <3>3. PICK m \in 1 .. 4 * SLOT_NUM :
            /\ q = PlacesOf(k)[m] /\ \A l \in 1 .. m - 1 : At(PlacesOf(k)[l]).key # k
      BY <3>1 DEF EntriesFound
    <3>4. ASSUME NEW l \in 1 .. m - 1 PROVE E(PlacesOf(k)[l]).key # k
      <4>1. l \in All
        BY <1>1 DEF All
      <4>2. PlacesOf(k)[l] \in AllPlaces /\ At(PlacesOf(k)[l]).key # k
        BY <3>2, <3>3, <4>1, PagePlaces
      <4> DEFINE r == PlacesOf(k)[l]
      <4> HIDE DEF p, k
      <4>3. CASE r = p
        BY <1>4, <3>1, <4>3
      <4>4. CASE r # p
        BY <1>5, <4>2, <4>4
      <4> QED BY <4>3, <4>4
    <3>5. k \in 2 .. page_alloc_index' - 1
      BY <1>1, <3>2
    <3>6. E(q).key = k
      BY <3>1
    <3> HIDE DEF k, p
    <3> QED BY <3>3, <3>4, <3>5, <3>6
  <2> QED BY <2>1, <2>2
<1>8. BottomSparse'
  <2> SUFFICES ASSUME NEW q \in AllPlaces, NEW r \in AllPlaces,
                      q[1] = "bottom", E(q).token = 1, r[1] = "bottom", E(r).token = 1,
                      S_IDX(Address(E(q).key)) = S_IDX(Address(E(r).key)), q # r
               PROVE  FALSE
    BY DEF BottomSparse, At
  <2> HIDE DEF E
  <2>1. p[1] = "bottom" => \A s \in AllPlaces : s[1] = "bottom" /\ At(s).token = 1
                             => S_IDX(Address(At(s).key)) # S_IDX(Address(key))
    <3>1. n \in Top => p[1] = "top"
      BY <1>1, PagePlaces
    <3> QED BY <1>3, <3>1
  <2> HIDE DEF p
  <2>2. CASE q # p /\ r # p
    <3>1. E(q) = At(q) /\ E(r) = At(r)
      BY <1>5, <2>2
    <3> QED BY <3>1 DEF BottomSparse
  <2>3. CASE q = p /\ r # p
    <3>1. E(q).key = key /\ E(r) = At(r)
      BY <1>4, <1>5, <2>3
    <3> QED BY <2>1, <2>3, <3>1
  <2>4. CASE q # p /\ r = p
    <3>1. E(r).key = key /\ E(q) = At(q)
      BY <1>4, <1>5, <2>4
    <3> QED BY <2>1, <2>4, <3>1
  <2> QED BY <2>2, <2>3, <2>4
<1>9. ASSUME NEW k \in Nat PROVE Entered(k)' <=> Entered(k) \/ k = key
  <2> HIDE DEF p
  <2>1. Entered(k)' <=> \E q \in AllPlaces : E(q).token = 1 /\ E(q).key = k
    BY DEF Entered, At
  <2> HIDE DEF E
  <2>2. ASSUME Entered(k)' PROVE Entered(k) \/ k = key
    <3>1. PICK q \in AllPlaces : E(q).token = 1 /\ E(q).key = k
      BY <2>1, <2>2
    <3>2. CASE q = p
      BY <1>4, <3>1, <3>2
    <3>3. CASE q # p
      BY <1>5, <3>1, <3>3 DEF Entered
    <3> QED BY <3>2, <3>3
  <2>3. ASSUME Entered(k) PROVE Entered(k)'
    <3>1. PICK q \in AllPlaces : At(q).token = 1 /\ At(q).key = k
      BY <2>3 DEF Entered
    <3>2. E(q) = At(q)
      BY <1>5, <1>6, <3>1
    <3> QED BY <2>1, <3>1, <3>2
  <2>4. ASSUME k = key PROVE Entered(k)'
    BY <1>4, <2>1, <2>4
  <2> QED BY <2>2, <2>3, <2>4
<1> QED BY <1>2, <1>7, <1>8, <1>9

\* So does deleting one.
LEMMA DeleteKeeps ==
  ASSUME EntriesFound, BottomSparse, hash_table \in Tables, NEW key \in Nat,
         hash_table' = delete_hash_table(Address(key), key), UNCHANGED page_alloc_index
  PROVE  /\ hash_table' \in Tables /\ EntriesFound' /\ BottomSparse'
         /\ \A k \in Nat : Entered(k)' <=> Entered(k) /\ k # key
<1> DEFINE E(x) == hash_table'[x[1]][x[2]][x[3]]
<1>1. hash_table' \in Tables
  BY DeletedTable
<1>2. \A q \in AllPlaces : /\ E(q).key = At(q).key
                           /\ E(q).token = 1 <=> At(q).token = 1 /\ At(q).key # key
  BY DeletedTable DEF At
<1>3. EntriesFound'
  <2> SUFFICES ASSUME NEW q \in AllPlaces, E(q).token = 1
               PROVE  /\ E(q).key \in 2 .. page_alloc_index' - 1
                      /\ \E m \in 1 .. 4 * SLOT_NUM :
                           /\ q = PlacesOf(E(q).key)[m]
                           /\ \A l \in 1 .. m - 1 : E(PlacesOf(E(q).key)[l]).key # E(q).key
    BY DEF EntriesFound, At
  <2> HIDE DEF E
  <2> DEFINE k == At(q).key
  <2>1. E(q).key = k /\ At(q).token = 1
    BY <1>2
  <2>2. k \in 2 .. page_alloc_index - 1 /\ k \in Nat
    BY <2>1 DEF EntriesFound
  <2>3. PICK m \in 1 .. 4 * SLOT_NUM :
          /\ q = PlacesOf(k)[m] /\ \A l \in 1 .. m - 1 : At(PlacesOf(k)[l]).key # k
    BY <2>1 DEF EntriesFound
  <2>4. \A l \in 1 .. m - 1 : PlacesOf(k)[l] \in AllPlaces
    <3>1. \A l \in 1 .. m - 1 : l \in All
      BY SizesAssumption DEF All
    <3> HIDE DEF k
    <3> QED BY <2>2, <3>1, PagePlaces
  <2>5. \A l \in 1 .. m - 1 : E(PlacesOf(k)[l]).key # k
    BY <1>2, <2>3, <2>4
  <2> HIDE DEF k
  <2> QED BY <2>1, <2>2, <2>3, <2>5
<1>4. BottomSparse'
  <2> SUFFICES ASSUME NEW q \in AllPlaces, NEW r \in AllPlaces,
                      q[1] = "bottom", E(q).token = 1, r[1] = "bottom", E(r).token = 1,
                      S_IDX(Address(E(q).key)) = S_IDX(Address(E(r).key))
               PROVE  q = r
    BY DEF BottomSparse, At
  <2> HIDE DEF E
  <2>1. /\ At(q).token = 1 /\ At(r).token = 1
        /\ E(q).key = At(q).key /\ E(r).key = At(r).key
    BY <1>2
  <2> QED BY <2>1 DEF BottomSparse
<1>5. ASSUME NEW k \in Nat PROVE Entered(k)' <=> Entered(k) /\ k # key
  <2>1. Entered(k)' <=> \E q \in AllPlaces : E(q).token = 1 /\ E(q).key = k
    BY DEF Entered, At
  <2> HIDE DEF E
  <2> QED BY <1>2, <2>1 DEF Entered
<1> QED BY <1>1, <1>3, <1>4, <1>5

-----------------------------------------------------------------------------
(* The runs.                                                               *)

Run == Nat \X (Nat \ {0})

\* Unlinking keeps the other runs and their order.
LEMMA RemoveAtIs ==
  ASSUME NEW S, NEW f \in Seq(S), NEW n \in 1 .. Len(f)
  PROVE  /\ RemoveAt(f, n) \in Seq(S)
         /\ DOMAIN RemoveAt(f, n) = 1 .. Len(f) - 1
         /\ \A i \in 1 .. Len(f) - 1 : RemoveAt(f, n)[i] = IF i < n THEN f[i] ELSE f[i + 1]
<1> DEFINE a == SubSeq(f, 1, n - 1)
           b == SubSeq(f, n + 1, Len(f))
<1>1. Len(f) \in Nat /\ n \in Nat
  OBVIOUS
<1>2. a \in Seq(S) /\ Len(a) = n - 1 /\ \A i \in 1 .. n - 1 : a[i] = f[i]
  BY <1>1
<1>3. b \in Seq(S) /\ Len(b) = Len(f) - n /\ \A i \in 1 .. Len(f) - n : b[i] = f[n + i]
  BY <1>1
<1> HIDE DEF a, b
<1>4. /\ a \o b \in Seq(S) /\ Len(a \o b) = Len(f) - 1
      /\ \A i \in 1 .. Len(f) - 1 : (a \o b)[i] = IF i <= Len(a) THEN a[i] ELSE b[i - Len(a)]
  <2>0. a \in Seq(S) /\ b \in Seq(S)
    BY <1>2, <1>3
  <2>1. a \o b \in Seq(S) /\ Len(a \o b) = Len(a) + Len(b)
    BY <2>0
  <2>2. Len(a \o b) = Len(f) - 1
    BY <1>1, <1>2, <1>3, <2>1
  <2>3. \A i \in 1 .. Len(f) - 1 : (a \o b)[i] = IF i <= Len(a) THEN a[i] ELSE b[i - Len(a)]
    <3>1. Len(f) - 1 = Len(a) + Len(b)
      BY <1>1, <1>2, <1>3
    <3> QED BY <2>0, <3>1
  <2> QED BY <2>1, <2>2, <2>3
<1>5. ASSUME NEW i \in 1 .. Len(f) - 1 PROVE (a \o b)[i] = IF i < n THEN f[i] ELSE f[i + 1]
  <2>1. CASE i < n
    BY <1>1, <1>2, <1>4, <2>1
  <2>2. CASE ~(i < n)
    <3>1. (a \o b)[i] = b[i - (n - 1)]
      BY <1>1, <1>2, <1>4, <2>2
    <3>2. i - (n - 1) \in 1 .. Len(f) - n /\ n + (i - (n - 1)) = i + 1
      BY <1>1, <2>2
    <3> QED BY <1>3, <2>2, <3>1, <3>2
  <2> QED BY <2>1, <2>2
<1>6. DOMAIN (a \o b) = 1 .. Len(f) - 1
  BY <1>4
<1> QED BY <1>4, <1>5, <1>6 DEF RemoveAt, a, b

LEMMA RunType ==
  ASSUME RunsOK
  PROVE  /\ Runs \subseteq Run /\ DOMAIN freelist = 1 .. Len(freelist) /\ Len(freelist) \in Nat
         /\ \A i \in DOMAIN freelist : freelist[i] \in Runs /\ freelist[i] \in Run
         /\ \A run \in Runs : /\ run[1] \in Nat /\ run[2] \in Nat \ {0} /\ run = <<run[1], run[2]>>
                              /\ run[1] \in Pages(run)
                              /\ run[1] \in 2 .. page_alloc_index - 1
         /\ \A r, s \in Runs : r[1] = s[1] => r = s
<1>1. DOMAIN freelist = 1 .. Len(freelist) /\ Len(freelist) \in Nat
  BY DEF RunsOK
<1>2. \A i \in DOMAIN freelist : freelist[i] \in Run
  BY <1>1 DEF RunsOK, Run
<1>3. Runs \subseteq Run
  BY <1>2 DEF RunsOK, Runs, ToSet, Run
<1>4. \A i \in DOMAIN freelist : freelist[i] \in Runs
  BY DEF Runs, ToSet
<1>5. ASSUME NEW run \in Runs
      PROVE  /\ run[1] \in Nat /\ run[2] \in Nat \ {0} /\ run = <<run[1], run[2]>>
             /\ run[1] \in Pages(run) /\ run[1] \in 2 .. page_alloc_index - 1
  <2>1. run[1] \in Nat /\ run[2] \in Nat \ {0} /\ run = <<run[1], run[2]>>
    BY <1>3 DEF Run
  <2>2. run[1] \in Pages(run)
    BY <2>1 DEF Pages
  <2>3. Pages(run) \subseteq 2 .. page_alloc_index - 1
    BY DEF RunsOK
  <2> QED BY <2>1, <2>2, <2>3
<1>6. \A r, s \in Runs : r[1] = s[1] => r = s
  BY <1>5 DEF RunsOK
<1> QED BY <1>1, <1>2, <1>3, <1>4, <1>5, <1>6

\* Some of the owned runs are exchanged for others with the same pages, the last of
\* which goes to the list.
LEMMA Exchanged ==
  ASSUME RunsOK, NEW D \in SUBSET held, NEW A \in SUBSET Run, IsFiniteSet(A),
         NEW x \in Run, x \notin A,
         UNION {Pages(run) : run \in D} = UNION {Pages(run) : run \in A \cup {x}},
         \A r, s \in A \cup {x} : r # s => Pages(r) \cap Pages(s) = {},
         held' = (held \ D) \cup A, freelist' = Append(freelist, x),
         UNCHANGED page_alloc_index
  PROVE  RunsOK'
<1> DEFINE New == A \cup {x}
           Old == Runs \ D
<1>1. \A run \in D : run \in Runs
  BY DEF Runs
<1>2. \A i \in DOMAIN freelist : freelist[i] \in Runs /\ freelist[i] \notin D
  BY RunType DEF RunsOK
<1>3. /\ freelist' \in Seq(Run) /\ Len(freelist') = Len(freelist) + 1
      /\ DOMAIN freelist' = 1 .. Len(freelist) + 1
      /\ \A i \in 1 .. Len(freelist) : freelist'[i] = freelist[i]
      /\ freelist'[Len(freelist) + 1] = x
  <2>1. freelist \in Seq(Run)
    BY DEF RunsOK, Run
  <2> QED BY <2>1
<1>4. DOMAIN freelist = 1 .. Len(freelist) /\ Len(freelist) \in Nat
  BY RunType
<1>5. \A i \in DOMAIN freelist' : freelist'[i] = x \/ (i \in DOMAIN freelist /\ freelist'[i] = freelist[i])
  BY <1>3, <1>4
<1>6. Runs' = Old \cup New
  <2>1. ToSet(freelist') = ToSet(freelist) \cup {x}
    BY <1>3, <1>4 DEF ToSet
  <2>2. ToSet(freelist) \cap D = {}
    BY <1>2 DEF ToSet
  <2> QED BY <2>1, <2>2 DEF Runs
<1>7. \A a \in New : Pages(a) # {} /\ \A page \in Pages(a) : \E d \in D : page \in Pages(d)
  <2>1. \A a \in New : a[1] \in Pages(a)
    BY DEF Run, Pages
  <2> QED BY <2>1
<1>8. \A d \in D : \A page \in Pages(d) : \E a \in New : page \in Pages(a)
  OBVIOUS
<1>9. ASSUME NEW r \in Old, NEW a \in New PROVE Pages(r) \cap Pages(a) = {}
  <2> SUFFICES ASSUME NEW page, page \in Pages(r), page \in Pages(a) PROVE FALSE
    OBVIOUS
  <2>1. PICK d \in D : page \in Pages(d)
    BY <1>7
  <2>2. d \in Runs /\ d # r
    BY <1>1, <2>1
  <2> QED BY <2>1, <2>2 DEF RunsOK
<1>10. \A r \in Old, a \in New : r # a
  BY <1>7, <1>9
<1> HIDE DEF New, Old
<1>11. held' \in SUBSET (Nat \X (Nat \ {0})) /\ IsFiniteSet(held')
  <2>1. IsFiniteSet(held \ D)
    BY FS_Subset DEF RunsOK
  <2>2. IsFiniteSet((held \ D) \cup A)
    BY <2>1, FS_Union
  <2> QED BY <2>2 DEF RunsOK, Run
<1>12. freelist' \in Seq(Nat \X (Nat \ {0})) /\ page_alloc_index' \in 2 .. MaxPages
  BY <1>3 DEF RunsOK, Run
<1>13. \A run \in Old \cup New : Pages(run) \subseteq 2 .. page_alloc_index - 1
  <2>1. \A run \in Runs : Pages(run) \subseteq 2 .. page_alloc_index - 1
    BY DEF RunsOK
  <2>2. \A run \in Old : Pages(run) \subseteq 2 .. page_alloc_index - 1
    BY <2>1 DEF Old
  <2>3. \A run \in New : Pages(run) \subseteq 2 .. page_alloc_index - 1
    BY <1>1, <1>7, <2>1
  <2> QED BY <2>2, <2>3
<1>14. \A page \in 2 .. page_alloc_index - 1 : \E run \in Old \cup New : page \in Pages(run)
  <2> SUFFICES ASSUME NEW page \in 2 .. page_alloc_index - 1
               PROVE  \E run \in Old \cup New : page \in Pages(run)
    OBVIOUS
  <2>1. PICK run \in Runs : page \in Pages(run)
    BY DEF RunsOK
  <2>2. CASE run \in D
    BY <1>8, <2>1, <2>2
  <2>3. CASE run \notin D
    BY <2>1, <2>3 DEF Old
  <2> QED BY <2>2, <2>3
<1>15. \A r, s \in Old \cup New : r # s => Pages(r) \cap Pages(s) = {}
  <2>1. \A r, s \in Old : r # s => Pages(r) \cap Pages(s) = {}
    BY DEF Old, RunsOK
  <2>2. \A r, s \in New : r # s => Pages(r) \cap Pages(s) = {}
    BY DEF New
  <2> QED BY <1>9, <2>1, <2>2
<1>16. \A i \in DOMAIN freelist : freelist[i] \in Old /\ freelist[i] # x
  BY <1>2, <1>10 DEF Old, New
<1>17. \A i, j \in DOMAIN freelist' : freelist'[i] = freelist'[j] => i = j
  <2> SUFFICES ASSUME NEW i \in DOMAIN freelist', NEW j \in DOMAIN freelist',
                      freelist'[i] = freelist'[j]
               PROVE  i = j
    OBVIOUS
  <2>1. CASE i \in DOMAIN freelist /\ j \in DOMAIN freelist
    BY <1>3, <1>4, <2>1 DEF RunsOK
  <2>2. CASE i \in DOMAIN freelist /\ j \notin DOMAIN freelist
    BY <1>3, <1>4, <1>16, <2>2
  <2>3. CASE i \notin DOMAIN freelist /\ j \in DOMAIN freelist
    BY <1>3, <1>4, <1>16, <2>3
  <2>4. CASE i \notin DOMAIN freelist /\ j \notin DOMAIN freelist
    BY <1>3, <1>4, <2>4
  <2> QED BY <2>1, <2>2, <2>3, <2>4
<1>18. \A i \in DOMAIN freelist' : freelist'[i] \notin held'
  <2>1. x \notin held'
    <3>1. held \ D \subseteq Old
      BY DEF Old, Runs
    <3> QED BY <1>10, <3>1 DEF New
  <2>2. \A i \in DOMAIN freelist : freelist[i] \notin held'
    BY <1>10, <1>16 DEF New, RunsOK
  <2> QED BY <1>5, <2>1, <2>2
<1>19. page_alloc_index' = page_alloc_index
  OBVIOUS
<1> QED BY <1>6, <1>11, <1>12, <1>13, <1>14, <1>15, <1>17, <1>18, <1>19 DEF RunsOK

\* The code finds the page of an address, whatever the offset in the page.
LEMMA PageOfAddress ==
  ASSUME NEW page \in Nat, NEW offset \in 0 .. PAGE_SIZE - 1
  PROVE  (Address(page) + offset - VKERNEL_HEAP_START) \div PAGE_SIZE = page
<1>1. PAGE_SIZE \in Nat \ {0} /\ VKERNEL_HEAP_START \in Nat
  BY SizesAssumption
<1>2. (PAGE_SIZE * page + offset) \div PAGE_SIZE = page
  BY <1>1, DivModUnique
<1>3. PAGE_SIZE * page \in Nat /\ page * PAGE_SIZE = PAGE_SIZE * page
  BY <1>1
<1>4. Address(page) + offset - VKERNEL_HEAP_START = PAGE_SIZE * page + offset
  BY <1>1, <1>3 DEF Address
<1> QED BY <1>2, <1>4

-----------------------------------------------------------------------------
(* The steps keep the partition of the heap.                               *)

\* A new run is taken from the end of the heap.
LEMMA GetNewRuns ==
  ASSUME RunsOK, NEW count \in 1 .. MaxCount, GetNew(count)
  PROVE  RunsOK'
<1> DEFINE new == <<page_alloc_index, count>>
           last == page_alloc_index - 1
<1>1. /\ MaxPages \in Nat /\ MaxCount \in Nat /\ page_alloc_index \in Nat /\ page_alloc_index >= 2
      /\ count \in Nat \ {0}
  BY SizesAssumption DEF RunsOK
<1>2. /\ page_alloc_index' = page_alloc_index + count /\ page_alloc_index' \in 2 .. MaxPages
      /\ held' = held \cup {new} /\ freelist' = freelist
  BY <1>1 DEF GetNew
<1>3. new \in Run /\ Pages(new) = page_alloc_index .. page_alloc_index' - 1
  <2>1. new[1] = page_alloc_index /\ new[2] = count
    OBVIOUS
  <2> QED BY <1>1, <1>2, <2>1 DEF Run, Pages
<1>4. Runs' = Runs \cup {new}
  BY <1>2 DEF Runs, ToSet
<1> HIDE DEF new
<1>5. \A run \in Runs : Pages(run) \subseteq 2 .. last /\ Pages(run) \cap Pages(new) = {} /\ run # new
  <2>1. (2 .. last) \cap Pages(new) = {} /\ page_alloc_index \in Pages(new)
    BY <1>1, <1>2, <1>3
  <2>2. \A run \in Runs : Pages(run) \subseteq 2 .. last
    BY DEF RunsOK
  <2> QED BY <2>1, <2>2
<1>6. held' \in SUBSET (Nat \X (Nat \ {0})) /\ IsFiniteSet(held')
  BY <1>2, <1>3, FS_AddElement DEF RunsOK, Run
<1>7. \A run \in Runs \cup {new} : Pages(run) \subseteq 2 .. page_alloc_index' - 1
  BY <1>1, <1>2, <1>3, <1>5
<1>8. \A page \in 2 .. page_alloc_index' - 1 : \E run \in Runs \cup {new} : page \in Pages(run)
  <2> SUFFICES ASSUME NEW page \in 2 .. page_alloc_index' - 1
               PROVE  \E run \in Runs \cup {new} : page \in Pages(run)
    OBVIOUS
  <2>1. CASE page \in 2 .. last
    BY <2>1 DEF RunsOK
  <2>2. CASE page \notin 2 .. last
    BY <1>1, <1>2, <1>3, <2>2
  <2> QED BY <2>1, <2>2
<1>9. \A r, s \in Runs \cup {new} : r # s => Pages(r) \cap Pages(s) = {}
  BY <1>5 DEF RunsOK
<1>10. \A i \in DOMAIN freelist : freelist[i] \notin held'
  BY <1>2, <1>5, RunType DEF RunsOK
<1> QED BY <1>2, <1>4, <1>6, <1>7, <1>8, <1>9, <1>10 DEF RunsOK

\* A returned run is taken from the list.
LEMMA GetReturnedRuns ==
  ASSUME RunsOK, NEW count \in 1 .. MaxCount, NEW n \in DOMAIN freelist, GetReturned(count, n)
  PROVE  /\ RunsOK'
         /\ \A i \in DOMAIN freelist' : \E j \in DOMAIN freelist : j # n /\ freelist'[i] = freelist[j]
<1>1. /\ DOMAIN freelist = 1 .. Len(freelist) /\ Len(freelist) \in Nat /\ freelist \in Seq(Run)
      /\ freelist[n] \in Runs /\ freelist[n] \in Run
  BY RunType DEF RunsOK, Run
<1>2. /\ page_alloc_index' = page_alloc_index /\ held' = held \cup {freelist[n]}
      /\ freelist' = RemoveAt(freelist, n)
  BY DEF GetReturned, Without
<1>3. /\ freelist' \in Seq(Run) /\ DOMAIN freelist' = 1 .. Len(freelist) - 1
      /\ \A i \in 1 .. Len(freelist) - 1 : freelist'[i] = IF i < n THEN freelist[i] ELSE freelist[i + 1]
  BY <1>1, <1>2, RemoveAtIs
<1> DEFINE from(i) == IF i < n THEN i ELSE i + 1
<1>4. ASSUME NEW i \in DOMAIN freelist'
      PROVE  from(i) \in DOMAIN freelist /\ from(i) # n /\ freelist'[i] = freelist[from(i)]
  BY <1>1, <1>3
<1>5. ASSUME NEW j \in DOMAIN freelist, j # n
      PROVE  \E i \in DOMAIN freelist' : from(i) = j
  <2> DEFINE i == IF j < n THEN j ELSE j - 1
  <2>1. i \in DOMAIN freelist' /\ from(i) = j
    BY <1>1, <1>3, <1>5
  <2> QED BY <2>1
<1>6. ASSUME NEW i \in DOMAIN freelist', NEW j \in DOMAIN freelist', from(i) = from(j)
      PROVE  i = j
  BY <1>1, <1>3, <1>6
<1> HIDE DEF from
<1>7. Runs' = Runs
  <2>1. \A run \in ToSet(freelist') : run \in ToSet(freelist)
    BY <1>4 DEF ToSet
  <2>2. \A run \in ToSet(freelist) : run = freelist[n] \/ run \in ToSet(freelist')
    BY <1>4, <1>5 DEF ToSet
  <2>3. freelist[n] \in Runs
    BY <1>1
  <2> QED BY <1>2, <2>1, <2>2, <2>3 DEF Runs
<1>8. held' \in SUBSET (Nat \X (Nat \ {0})) /\ IsFiniteSet(held')
  BY <1>1, <1>2, FS_AddElement DEF RunsOK, Run
<1>9. \A i, j \in DOMAIN freelist' : freelist'[i] = freelist'[j] => i = j
  BY <1>4, <1>6 DEF RunsOK
<1>10. \A i \in DOMAIN freelist' : freelist'[i] \notin held'
  <2>1. \A i \in DOMAIN freelist' : freelist'[i] # freelist[n] /\ freelist'[i] \notin held
    BY <1>4 DEF RunsOK
  <2> QED BY <1>2, <2>1
<1>11. freelist' \in Seq(Nat \X (Nat \ {0}))
  BY <1>3 DEF Run
<1>12. RunsOK'
  BY <1>2, <1>7, <1>8, <1>9, <1>10, <1>11 DEF RunsOK
<1> QED BY <1>4, <1>12

\* The effect of returning pages by an address in the first of them.
LEMMA FreeIs ==
  ASSUME NEW page \in Nat, NEW offset \in 0 .. PAGE_SIZE - 1, NEW count,
         Free(Address(page) + offset, count)
  PROVE  /\ hash_table' = delete_hash_table(Address(page) + offset, page)
         /\ freelist' = Append(freelist, <<page, count>>) /\ UNCHANGED page_alloc_index
<1> DEFINE addr == Address(page) + offset
<1>1. (addr - VKERNEL_HEAP_START) \div PAGE_SIZE = page
  BY PageOfAddress, AddressType, SizesAssumption
<1>2. Free(addr, count)
  OBVIOUS
<1> HIDE DEF addr
<1>3. /\ hash_table' = delete_hash_table(addr, page)
      /\ freelist' = Append(freelist, <<page, count>>) /\ UNCHANGED page_alloc_index
  BY <1>1, <1>2, Zenon DEF Free
<1> QED BY <1>3 DEF addr

\* The same, by the address itself.
LEMMA FreeAtStart ==
  ASSUME NEW page \in Nat, NEW count, Free(Address(page), count)
  PROVE  /\ hash_table' = delete_hash_table(Address(page), page)
         /\ freelist' = Append(freelist, <<page, count>>) /\ UNCHANGED page_alloc_index
<1>1. Address(page) + 0 = Address(page) /\ 0 \in 0 .. PAGE_SIZE - 1
  BY AddressType, SizesAssumption
<1> QED BY <1>1, FreeIs

LEMMA FreeExactRuns ==
  ASSUME RunsOK, NEW run \in held, FreeExact(run)
  PROVE  RunsOK'
<1>1. run \in Runs /\ run \in Run /\ run[1] \in Nat /\ run = <<run[1], run[2]>>
  BY RunType DEF Runs
<1>2. /\ held' = (held \ {run}) \cup {} /\ freelist' = Append(freelist, run)
      /\ UNCHANGED page_alloc_index
  BY <1>1, FreeAtStart DEF FreeExact
<1>3. IsFiniteSet({}) /\ UNION {Pages(r) : r \in {run}} = UNION {Pages(r) : r \in {} \cup {run}}
  BY FS_EmptySet
<1> QED BY <1>1, <1>2, <1>3, Exchanged

LEMMA FreeJointRuns ==
  ASSUME RunsOK, NEW run \in held, NEW next \in held, FreeJoint(run, next)
  PROVE  RunsOK'
<1> DEFINE x == <<run[1], run[2] + next[2]>>
           D == {run, next}
<1>1. /\ run[1] \in Nat /\ run[2] \in Nat \ {0} /\ next[1] \in Nat /\ next[2] \in Nat \ {0}
      /\ next[1] = run[1] + run[2]
  BY RunType DEF Runs, FreeJoint
<1>2. /\ held' = (held \ D) \cup {} /\ freelist' = Append(freelist, x)
      /\ UNCHANGED page_alloc_index
  BY <1>1, FreeAtStart DEF FreeJoint
<1>3. x \in Run /\ x[1] = run[1] /\ x[2] = run[2] + next[2]
  BY <1>1 DEF Run
<1>4. Pages(x) = Pages(run) \cup Pages(next)
  BY <1>1, <1>3 DEF Pages
<1> HIDE DEF x
<1>5. IsFiniteSet({}) /\ UNION {Pages(r) : r \in D} = UNION {Pages(r) : r \in {} \cup {x}}
  BY <1>4, FS_EmptySet
<1>6. D \in SUBSET held
  OBVIOUS
<1> HIDE DEF D
<1> QED BY <1>2, <1>3, <1>5, <1>6, Exchanged

LEMMA FreeFirstRuns ==
  ASSUME RunsOK, NEW run \in held, FreeFirst(run)
  PROVE  RunsOK'
<1> DEFINE x == <<run[1], 1>>
           rest == <<run[1] + 1, run[2] - 1>>
<1>1. run[1] \in Nat /\ run[2] \in Nat \ {0} /\ run[2] > 1
  BY RunType DEF Runs, FreeFirst
<1>2. /\ held' = (held \ {run}) \cup {rest} /\ freelist' = Append(freelist, x)
      /\ UNCHANGED page_alloc_index
  BY <1>1, FreeAtStart DEF FreeFirst
<1>3. x \in Run /\ x[1] = run[1] /\ x[2] = 1 /\ rest \in Run /\ rest[1] = run[1] + 1 /\ rest[2] = run[2] - 1
  BY <1>1 DEF Run
<1>4. Pages(run) = Pages(x) \cup Pages(rest) /\ Pages(x) \cap Pages(rest) = {}
  BY <1>1, <1>3 DEF Pages
<1>5. x # rest
  BY <1>1
<1> HIDE DEF x, rest
<1>6. UNION {Pages(r) : r \in {run}} = UNION {Pages(r) : r \in {rest} \cup {x}}
  BY <1>4
<1>7. \A r, s \in {rest} \cup {x} : r # s => Pages(r) \cap Pages(s) = {}
  BY <1>4
<1>8. IsFiniteSet({rest}) /\ {run} \in SUBSET held /\ {rest} \in SUBSET Run /\ x \notin {rest}
  BY <1>3, <1>5, FS_Singleton
<1> QED BY <1>2, <1>3, <1>6, <1>7, <1>8, Exchanged

LEMMA FreeStackRuns ==
  ASSUME RunsOK, NEW run \in held, NEW offset \in 1 .. PAGE_SIZE - 1, FreeStack(run, offset)
  PROVE  RunsOK'
<1>1. run \in Runs /\ run \in Run /\ run[1] \in Nat /\ run = <<run[1], run[2]>> /\ run[2] = 1
  BY RunType DEF Runs, FreeStack
<1>2. offset \in 0 .. PAGE_SIZE - 1
  BY SizesAssumption
<1>3. /\ held' = (held \ {run}) \cup {} /\ freelist' = Append(freelist, run)
      /\ UNCHANGED page_alloc_index
  BY <1>1, <1>2, FreeIs DEF FreeStack
<1>4. IsFiniteSet({}) /\ UNION {Pages(r) : r \in {run}} = UNION {Pages(r) : r \in {} \cup {run}}
  BY FS_EmptySet
<1> QED BY <1>1, <1>3, <1>4, Exchanged

LEMMA RunsStep == RunsOK /\ [Next]_vars => RunsOK'
<1> SUFFICES ASSUME RunsOK, [Next]_vars PROVE RunsOK'
  OBVIOUS
<1>1. CASE UNCHANGED vars
  BY <1>1 DEF vars, RunsOK, Runs
<1>2. ASSUME NEW count \in 1 .. MaxCount, GetNew(count) PROVE RunsOK'
  BY <1>2, GetNewRuns
<1>3. ASSUME NEW count \in 1 .. MaxCount, NEW n \in DOMAIN freelist, GetReturned(count, n)
      PROVE  RunsOK'
  BY <1>3, GetReturnedRuns
<1>4. ASSUME NEW run \in held, FreeExact(run) PROVE RunsOK'
  BY <1>4, FreeExactRuns
<1>5. ASSUME NEW run \in held, FreeFirst(run) PROVE RunsOK'
  BY <1>5, FreeFirstRuns
<1>6. ASSUME NEW run \in held, NEW next \in held, FreeJoint(run, next) PROVE RunsOK'
  BY <1>6, FreeJointRuns
<1>7. ASSUME NEW run \in held, NEW offset \in 1 .. PAGE_SIZE - 1, FreeStack(run, offset)
      PROVE  RunsOK'
  BY <1>7, FreeStackRuns
<1> QED BY <1>1, <1>2, <1>3, <1>4, <1>5, <1>6, <1>7 DEF Next

LEMMA RunsInit == Init => RunsOK
<1> SUFFICES ASSUME Init PROVE RunsOK
  OBVIOUS
<1>1. held = {} /\ freelist = <<>> /\ page_alloc_index = 2
  BY DEF Init
<1>2. freelist \in Seq(Nat \X (Nat \ {0})) /\ DOMAIN freelist = {}
  BY <1>1
<1>3. Runs = {}
  BY <1>1, <1>2 DEF Runs, ToSet
<1>4. 2 \in 2 .. MaxPages /\ 2 .. 2 - 1 = {}
  BY SizesAssumption
<1> QED BY <1>1, <1>2, <1>3, <1>4, FS_EmptySet DEF RunsOK

-----------------------------------------------------------------------------
(* The steps keep the entries.                                             *)

\* A run leaves the owned ones by a return of its first page.
LEMMA FreeEntries ==
  ASSUME IInv, NEW run \in held, NEW count,
         hash_table' = delete_hash_table(Address(run[1]), run[1]),
         freelist' = Append(freelist, <<run[1], count>>), UNCHANGED page_alloc_index,
         \A r \in held' \ parts' : r \in held \ parts /\ r # run
  PROVE  hash_table' \in Tables /\ EntriesFound' /\ BottomSparse' /\ EntriesMatch'
<1> DEFINE key == run[1]
           x == <<key, count>>
           After(k) == \E p \in AllPlaces : /\ hash_table'[p[1]][p[2]][p[3]].token = 1
                                            /\ hash_table'[p[1]][p[2]][p[3]].key = k
<1>1. RunsOK /\ EntriesFound /\ BottomSparse /\ EntriesMatch /\ hash_table \in Tables
  BY DEF IInv
<1>2. \A r \in held : r \in Runs
  BY DEF Runs
<1>3. key \in Nat /\ \A r \in held : r[1] \in Nat /\ (r[1] = key => r = run)
  BY <1>1, <1>2, RunType
<1>4. /\ hash_table' \in Tables /\ EntriesFound' /\ BottomSparse'
      /\ \A k \in Nat : After(k) <=> Entered(k) /\ k # key
  BY <1>1, <1>3, DeleteKeeps DEF Entered, At
<1> HIDE DEF After
<1>5. \A r \in held' \ parts' : After(r[1])
  BY <1>1, <1>3, <1>4 DEF EntriesMatch
<1>6. \A i \in DOMAIN freelist' : freelist'[i] = x \/ (i \in DOMAIN freelist /\ freelist'[i] = freelist[i])
  <2>1. freelist \in Seq(Run) /\ DOMAIN freelist = 1 .. Len(freelist) /\ Len(freelist) \in Nat
    BY <1>1, RunType DEF RunsOK, Run
  <2> QED BY <2>1
<1>7. \A i \in DOMAIN freelist : ~Entered(freelist[i][1]) /\ freelist[i][1] \in Nat
  BY <1>1, RunType DEF EntriesMatch
<1>8. x[1] = key
  OBVIOUS
<1> HIDE DEF x, key
<1>9. ASSUME NEW i \in DOMAIN freelist' PROVE freelist'[i][1] \in Nat /\ ~After(freelist'[i][1])
  <2> DEFINE k == freelist'[i][1]
  <2>1. k = key \/ (k \in Nat /\ ~Entered(k))
    BY <1>6, <1>7, <1>8
  <2>2. k \in Nat /\ (k = key \/ ~Entered(k))
    BY <1>3, <2>1
  <2> QED BY <1>4, <2>2
<1>10. EntriesMatch'
  BY <1>5, <1>9 DEF EntriesMatch, Entered, At, After
<1> QED BY <1>4, <1>10

\* A run becomes owned and its first page is entered.
LEMMA GetEntries ==
  ASSUME IInv, Roomy, NEW run \in Run, run[1] \in Heap, ~Entered(run[1]),
         hash_table' = insert_hash_table(Address(run[1]), run[1]),
         page_alloc_index' \in 2 .. MaxPages, page_alloc_index <= page_alloc_index',
         run[1] \in 2 .. page_alloc_index' - 1,
         held' = held \cup {run}, UNCHANGED parts,
         \A i \in DOMAIN freelist' : /\ freelist'[i][1] # run[1]
                                     /\ \E j \in DOMAIN freelist : freelist'[i] = freelist[j]
  PROVE  hash_table' \in Tables /\ EntriesFound' /\ BottomSparse' /\ EntriesMatch'
<1> DEFINE key == run[1]
           After(k) == \E p \in AllPlaces : /\ hash_table'[p[1]][p[2]][p[3]].token = 1
                                            /\ hash_table'[p[1]][p[2]][p[3]].key = k
<1>1. RunsOK /\ EntriesFound /\ BottomSparse /\ EntriesMatch /\ hash_table \in Tables
      /\ page_alloc_index \in 2 .. MaxPages
  BY DEF IInv, RunsOK
<1>2. key \in Heap /\ key \in Nat
  BY DEF Run
<1>3. /\ hash_table' \in Tables /\ EntriesFound' /\ BottomSparse'
      /\ \A k \in Nat : After(k) <=> Entered(k) \/ k = key
  BY <1>1, <1>2, InsertKeeps DEF Entered, At
<1> HIDE DEF After
<1>4. \A r \in held : r[1] \in Nat
  BY <1>1, RunType DEF Runs
<1>5. ASSUME NEW r \in held' \ parts' PROVE After(r[1])
  <2>1. r = run \/ r \in held \ parts
    OBVIOUS
  <2>2. CASE r = run
    BY <1>2, <1>3, <2>2
  <2>3. CASE r \in held \ parts
    <3> DEFINE k == r[1]
    <3>1. Entered(k) /\ k \in Nat
      BY <1>1, <1>4, <2>3 DEF EntriesMatch
    <3> QED BY <1>3, <3>1
  <2> QED BY <2>1, <2>2, <2>3
<1>6. ASSUME NEW i \in DOMAIN freelist' PROVE freelist'[i][1] \in Nat /\ ~After(freelist'[i][1])
  <2> DEFINE k == freelist'[i][1]
  <2>1. PICK j \in DOMAIN freelist : freelist'[i] = freelist[j]
    OBVIOUS
  <2>2. k \in Nat /\ ~Entered(k)
    BY <1>1, <2>1, RunType DEF EntriesMatch
  <2>3. k # key
    OBVIOUS
  <2> QED BY <1>3, <2>2, <2>3
<1>7. EntriesMatch'
  BY <1>5, <1>6 DEF EntriesMatch, Entered, At, After
<1> QED BY <1>3, <1>7

LEMMA EntriesStep ==
  ASSUME Roomy, ByAddress, IInv, [Next]_vars
  PROVE  IInv'
<1>1. RunsOK /\ RunsOK'
  BY RunsStep DEF IInv
<1>2. \A run \in held : run \in Runs /\ run[1] \in Nat
  BY <1>1, RunType DEF Runs
<1>3. page_alloc_index \in Nat /\ MaxPages \in Nat /\ page_alloc_index \in 2 .. MaxPages
      /\ page_alloc_index' \in 2 .. MaxPages
  BY <1>1, SizesAssumption DEF RunsOK
<1> DEFINE TableOK == hash_table \in Tables /\ EntriesFound /\ BottomSparse /\ EntriesMatch
<1>4. CASE UNCHANGED vars
  <2>1. UNCHANGED <<page_alloc_index, freelist, hash_table, held, parts>>
    BY <1>4 DEF vars
  <2>2. hash_table' \in Tables
    BY <2>1 DEF IInv
  <2>3. EntriesFound' /\ BottomSparse'
    BY <2>1 DEF IInv, EntriesFound, BottomSparse, At
  <2>4. EntriesMatch'
    BY <2>1 DEF IInv, EntriesMatch, Entered, At
  <2> QED BY <1>1, <2>2, <2>3, <2>4 DEF IInv
<1>5. ASSUME NEW count \in 1 .. MaxCount, GetNew(count) PROVE TableOK'
  <2> DEFINE new == <<page_alloc_index, count>>
  <2>1. count \in Nat \ {0}
    BY SizesAssumption
  <2>2. /\ page_alloc_index' = page_alloc_index + count /\ page_alloc_index' <= MaxPages
        /\ hash_table' = insert_hash_table(Address(new[1]), new[1])
        /\ held' = held \cup {new} /\ freelist' = freelist /\ UNCHANGED parts
    BY <1>5 DEF GetNew
  <2>3. new \in Run /\ new[1] = page_alloc_index
    BY <1>3, <2>1 DEF Run
  <2> HIDE DEF new
  <2>4. /\ new[1] \in Heap /\ page_alloc_index <= page_alloc_index'
        /\ new[1] \in 2 .. page_alloc_index' - 1
    BY <1>3, <2>1, <2>2, <2>3 DEF Heap
  <2>5. ~Entered(new[1])
    BY <1>3, <2>3 DEF Entered, IInv, EntriesFound
  <2>6. \A i \in DOMAIN freelist' : /\ freelist'[i][1] # new[1]
                                    /\ \E j \in DOMAIN freelist : freelist'[i] = freelist[j]
    <3>1. \A i \in DOMAIN freelist : freelist[i][1] \in 2 .. page_alloc_index - 1
      BY <1>1, RunType
    <3> QED BY <1>3, <2>2, <2>3, <3>1
  <2> QED BY <1>3, <2>2, <2>3, <2>4, <2>5, <2>6, GetEntries
<1>6. ASSUME NEW count \in 1 .. MaxCount, NEW n \in DOMAIN freelist, GetReturned(count, n)
      PROVE  TableOK'
  <2> DEFINE run == freelist[n]
  <2>1. /\ page_alloc_index' = page_alloc_index
        /\ hash_table' = insert_hash_table(Address(run[1]), run[1])
        /\ held' = held \cup {run} /\ UNCHANGED parts
    BY <1>6 DEF GetReturned
  <2>2. run \in Run /\ run[1] \in 2 .. page_alloc_index - 1 /\ run \in Runs
    BY <1>1, RunType
  <2>3. ~Entered(run[1])
    BY DEF IInv, EntriesMatch
  <2>4. \A i \in DOMAIN freelist' : /\ freelist'[i][1] # run[1]
                                    /\ \E j \in DOMAIN freelist : freelist'[i] = freelist[j]
    <3> SUFFICES ASSUME NEW i \in DOMAIN freelist'
                 PROVE  /\ freelist'[i][1] # run[1]
                        /\ \E j \in DOMAIN freelist : freelist'[i] = freelist[j]
      OBVIOUS
    <3>1. PICK j \in DOMAIN freelist : j # n /\ freelist'[i] = freelist[j]
      BY <1>1, <1>6, GetReturnedRuns
    <3>2. freelist[j] # freelist[n]
      BY <1>1, <3>1 DEF RunsOK
    <3>3. freelist[j][1] # run[1]
      BY <1>1, <2>2, <3>2, RunType
    <3> QED BY <3>1, <3>3
  <2> HIDE DEF run
  <2>5. /\ run[1] \in Heap /\ page_alloc_index <= page_alloc_index'
        /\ run[1] \in 2 .. page_alloc_index' - 1
    BY <1>3, <2>1, <2>2 DEF Heap
  <2> QED BY <1>3, <2>1, <2>2, <2>3, <2>4, <2>5, GetEntries
<1>7. ASSUME NEW run \in held, FreeExact(run) PROVE TableOK'
  <2>1. Free(Address(run[1]), run[2]) /\ held' = held \ {run} /\ parts' = parts \ {run}
    BY <1>7 DEF FreeExact
  <2>2. /\ hash_table' = delete_hash_table(Address(run[1]), run[1])
        /\ freelist' = Append(freelist, <<run[1], run[2]>>) /\ UNCHANGED page_alloc_index
    BY <1>2, <2>1, FreeAtStart
  <2>3. \A r \in held' \ parts' : r \in held \ parts /\ r # run
    BY <2>1
  <2> QED BY <2>2, <2>3, FreeEntries
<1>8. ASSUME NEW run \in held, FreeFirst(run) PROVE TableOK'
  <2> DEFINE rest == <<run[1] + 1, run[2] - 1>>
  <2>1. /\ Free(Address(run[1]), 1) /\ held' = (held \ {run}) \cup {rest}
        /\ parts' = (parts \ {run}) \cup {rest}
    BY <1>8 DEF FreeFirst
  <2>2. /\ hash_table' = delete_hash_table(Address(run[1]), run[1])
        /\ freelist' = Append(freelist, <<run[1], 1>>) /\ UNCHANGED page_alloc_index
    BY <1>2, <2>1, FreeAtStart
  <2> HIDE DEF rest
  <2>3. \A r \in held' \ parts' : r \in held \ parts /\ r # run
    BY <2>1
  <2> QED BY <2>2, <2>3, FreeEntries
<1>9. ASSUME NEW run \in held, NEW next \in held, FreeJoint(run, next) PROVE TableOK'
  <2>1. /\ Free(Address(run[1]), run[2] + next[2]) /\ held' = held \ {run, next}
        /\ parts' = parts \ {run, next}
    BY <1>9 DEF FreeJoint
  <2>2. /\ hash_table' = delete_hash_table(Address(run[1]), run[1])
        /\ freelist' = Append(freelist, <<run[1], run[2] + next[2]>>) /\ UNCHANGED page_alloc_index
    BY <1>2, <2>1, FreeAtStart
  <2>3. \A r \in held' \ parts' : r \in held \ parts /\ r # run
    BY <2>1
  <2> QED BY <2>2, <2>3, FreeEntries
<1>10. ASSUME NEW run \in held, NEW offset \in 1 .. PAGE_SIZE - 1, FreeStack(run, offset)
      PROVE  FALSE
  BY <1>10 DEF FreeStack, ByAddress
<1>11. CASE Next
  <2>1. TableOK'
    BY <1>5, <1>6, <1>7, <1>8, <1>9, <1>10, <1>11 DEF Next
  <2> QED BY <1>1, <2>1 DEF IInv
<1> QED BY <1>4, <1>11

LEMMA EntriesInit == Init => IInv
<1> SUFFICES ASSUME Init PROVE IInv
  OBVIOUS
<1>1. RunsOK
  BY RunsInit
<1>2. /\ hash_table = [lev \in Levels |-> [b \in Buckets |-> [j \in Slots |-> [token |-> 0, key |-> 0]]]]
      /\ held = {} /\ freelist = <<>>
  BY DEF Init
<1>3. hash_table \in Tables
  BY <1>2 DEF Tables
<1>4. \A p \in AllPlaces : At(p).token = 0
  <2> SUFFICES ASSUME NEW p \in AllPlaces PROVE At(p).token = 0
    OBVIOUS
  <2>1. p[1] \in Levels /\ p[2] \in Buckets /\ p[3] \in Slots
    BY DEF AllPlaces
  <2> QED BY <1>2, <2>1 DEF At
<1>5. EntriesFound /\ BottomSparse
  BY <1>4 DEF EntriesFound, BottomSparse
<1>6. EntriesMatch
  <2>1. DOMAIN freelist = {}
    BY <1>2
  <2> QED BY <1>2, <2>1 DEF EntriesMatch
<1> QED BY <1>1, <1>3, <1>5, <1>6 DEF IInv

-----------------------------------------------------------------------------
(* The theorems.                                                           *)

LEMMA RunsPartition == RunsOK => PagesPartitioned
<1> SUFFICES ASSUME RunsOK PROVE PagesPartitioned
  OBVIOUS
<1> DEFINE T == ToSet(freelist)
<1>1. UNION {Pages(run) : run \in Runs} = 2 .. page_alloc_index - 1
  BY DEF RunsOK
<1>2. DOMAIN freelist = 1 .. Len(freelist) /\ Len(freelist) \in Nat
  BY RunType
<1>3. IsFiniteSet(T) /\ Cardinality(T) = Len(freelist)
  <2> DEFINE f == [i \in 1 .. Len(freelist) |-> freelist[i]]
  <2>1. f \in Bijection(1 .. Len(freelist), T)
    <3>1. f \in [1 .. Len(freelist) -> T]
      BY <1>2 DEF ToSet
    <3>2. \A i, j \in 1 .. Len(freelist) : f[i] = f[j] => i = j
      BY <1>2 DEF RunsOK
    <3>3. \A t \in T : \E i \in 1 .. Len(freelist) : f[i] = t
      BY <1>2 DEF ToSet
    <3> HIDE DEF f, T
    <3> QED BY <3>1, <3>2, <3>3 DEF Bijection, Injection, Surjection, IsInjective
  <2> HIDE DEF f, T
  <2>2. IsFiniteSet(1 .. Len(freelist)) /\ Cardinality(1 .. Len(freelist)) = Len(freelist)
    <3> DEFINE n == Len(freelist)
    <3>1. n \in Nat /\ 1 \in Int /\ n \in Int
      BY <1>2
    <3> HIDE DEF n
    <3>2. IsFiniteSet(1 .. n) /\ Cardinality(1 .. n) = n
      BY <3>1, FS_Interval
    <3> QED BY <3>2 DEF n
  <2>3. ExistsBijection(1 .. Len(freelist), T)
    BY <2>1 DEF ExistsBijection
  <2> QED BY <2>2, <2>3, FS_Bijection
<1>4. held \cap T = {}
  BY DEF RunsOK, ToSet
<1>5. Cardinality(held) + Len(freelist) = Cardinality(Runs)
  <2> HIDE DEF T
  <2>1. IsFiniteSet(held) /\ Cardinality(held) \in Nat
    BY FS_CardinalityType DEF RunsOK
  <2>2. Cardinality(held \cup T) = Cardinality(held) + Cardinality(T) - Cardinality(held \cap T)
    BY <1>3, <2>1, FS_Union
  <2>3. Cardinality(held \cap T) = 0
    BY <1>4, FS_EmptySet
  <2>4. Cardinality(held \cup T) = Cardinality(held) + Len(freelist)
    BY <1>2, <1>3, <2>1, <2>2, <2>3
  <2> QED BY <2>4 DEF Runs, T
<1>6. \A r, s \in Runs : r # s => Pages(r) \cap Pages(s) = {}
  BY DEF RunsOK
<1> QED BY <1>1, <1>5, <1>6 DEF PagesPartitioned, Runs

LEMMA EntriesRecord == IInv => RecordedOnce
<1> SUFFICES ASSUME IInv PROVE RecordedOnce
  OBVIOUS
<1>1. RunsOK /\ EntriesFound /\ EntriesMatch /\ hash_table \in Tables
  BY DEF IInv
<1>2. \A key : Live(key) = {p \in AllPlaces : At(p).token = 1 /\ At(p).key = key}
  BY DEF Live, AllPlaces
<1>3. ASSUME NEW key PROVE Cardinality(Live(key)) <= 1
  <2>1. CASE Live(key) = {}
    BY <2>1, FS_EmptySet
  <2>2. CASE Live(key) # {}
    <3>1. PICK p \in AllPlaces : At(p).token = 1 /\ At(p).key = key
      BY <1>2, <2>2
    <3>2. Live(key) = {p}
      BY <1>1, <1>2, <3>1, OnePlace
    <3> QED BY <3>2, FS_Singleton
  <2> QED BY <2>1, <2>2
<1>4. ASSUME NEW run \in held
      PROVE  /\ Live(run[1]) \subseteq ToDelete(Address(run[1]), run[1])
             /\ run \in parts \/ Live(run[1]) # {}
  <2>1. ASSUME NEW p \in Live(run[1]) PROVE p \in ToDelete(Address(run[1]), run[1])
    <3>1. p \in AllPlaces /\ At(p).token = 1 /\ At(p).key = run[1]
      BY <1>2, <2>1
    <3>2. ToDelete(Address(run[1]), run[1]) = {p}
      BY <1>1, <3>1, DeletePlace
    <3> QED BY <3>2
  <2>2. run \in parts \/ Entered(run[1])
    BY <1>1 DEF EntriesMatch
  <2>3. Entered(run[1]) => Live(run[1]) # {}
    BY <1>2 DEF Entered
  <2> QED BY <2>1, <2>2, <2>3
<1> QED BY <1>3, <1>4 DEF RecordedOnce

\* palloc.c: over any sequence of requests and returns, returned together, in parts or by
\* a stack pointer, every page taken from the heap is in exactly one run.
THEOREM Partitioned == Spec => []PagesPartitioned
<1>1. Init => RunsOK
  BY RunsInit
<1>2. RunsOK /\ [Next]_vars => RunsOK'
  BY RunsStep
<1>3. RunsOK => PagesPartitioned
  BY RunsPartition
<1> QED BY <1>1, <1>2, <1>3, PTL DEF Spec

\* hashing.c: if all returns give the address of the request and no more than one page too
\* many shares the top buckets, insert_hash_table() always finds a free slot, so that every
\* request is entered once and delete_hash_table() will find that entry and no other.
THEOREM Recorded ==
  ASSUME Roomy, ByAddress
  PROVE  Spec => []RecordedOnce
<1>1. Init => IInv
  BY EntriesInit
<1>2. IInv /\ [Next]_vars => IInv'
  BY EntriesStep
<1>3. IInv => RecordedOnce
  BY EntriesRecord
<1> QED BY <1>1, <1>2, <1>3, PTL DEF Spec

=============================================================================
