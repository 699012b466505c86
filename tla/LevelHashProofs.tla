---------------------------- MODULE LevelHashProofs ----------------------------
(***************************************************************************)
(* Proofs about LevelHash for tables, buckets, keys, values and hash       *)
(* functions of every kind: no movement and no step of a resizing doubles  *)
(* an item or loses it, both search schemes find what is stored, and the   *)
(* table implements the dictionary.                                        *)
(***************************************************************************)
EXTENDS LevelHash, FiniteSetTheorems, SequenceTheorems, TLAPS

-----------------------------------------------------------------------------
(* The inductive invariant behind the properties.                          *)

SlotType == [token : 0 .. 2, key : Keys \cup {JunkKey}, value : Values \cup {NoValue}]

IsTable(t) ==
  /\ t = [buckets |-> [i \in 0 .. 2 |-> t.buckets[i]], level_item_num |-> t.level_item_num,
          level_size |-> t.level_size, level_expand_time |-> t.level_expand_time,
          resize_state |-> t.resize_state]
  /\ t.level_item_num \in [0 .. 1 -> 0 .. WORD - 1]
  /\ t.level_size \in MinLevelSize .. MaxLevelSize
  /\ t.level_expand_time \in 0 .. 255
  /\ t.resize_state \in 0 .. 2
  /\ t.resize_state = 1 => t.level_size > MinLevelSize
  /\ \A i \in 0 .. 2 : t.buckets[i] \in [0 .. Capacity(t, i) - 1 -> [Slots -> SlotType]]

\* What is not in use is junk: only the items of callers are ever found.
Clean(t) == \A i \in 0 .. 2 : \A b \in DOMAIN t.buckets[i], j \in Slots :
  LET slot == t.buckets[i][b][j]
  IN /\ slot.token # 1 => slot.key = JunkKey
     /\ slot.key = JunkKey <=> slot.value = NoValue

IInv == IsTable(level) /\ Clean(level) /\ Unique(level) /\ Placed(level) /\ Counted(level)

-----------------------------------------------------------------------------
(* Least numbers, powers of 2, the first good element of a sequence.       *)

LEMMA LeastExists ==
  ASSUME NEW I \in SUBSET Nat, I # {}
  PROVE  \E n \in I : \A l \in I : n <= l
<1> DEFINE T == {0 .. n : n \in I}
<1>1. T \subseteq FiniteSubsetsOf(Nat) /\ T # {}
  <2>1. \A n \in I : (0 .. n) \subseteq Nat /\ IsFiniteSet(0 .. n)
    BY FS_Interval
  <2> QED BY <2>1 DEF FiniteSubsetsOf
<1>2. PICK n \in I : \A l \in I : <<0 .. l, 0 .. n>> \notin StrictSubsetOrdering(Nat)
  <2> HIDE DEF T
  <2>1. \E x \in T : \A y \in T : <<y, x>> \notin StrictSubsetOrdering(Nat)
    BY <1>1, FS_StrictSubsetOrderingWellFounded, WFMin
  <2> QED BY <2>1 DEF T
<1>3. ASSUME NEW l \in I, l < n
      PROVE  FALSE
  <2>1. l \in Nat /\ n \in Nat
    OBVIOUS
  <2>2. n \notin 0 .. l /\ n \in 0 .. n /\ 0 .. l \subseteq 0 .. n
    BY <1>3, <2>1
  <2>3. <<0 .. l, 0 .. n>> \in StrictSubsetOrdering(Nat)
    BY <2>1, <2>2 DEF StrictSubsetOrdering
  <2> QED BY <1>2, <2>3
<1> QED BY <1>3

\* The beginning of the powers of 2.
Powers(g, m) ==
  g \in [0 .. m -> Nat \ {0}] /\ g[0] = 1 /\ \A n \in 0 .. m - 1 : g[n + 1] = 2 * g[n]

LEMMA PowersExist ==
  ASSUME NEW m \in Nat
  PROVE  \E g : Powers(g, m)
<1> DEFINE Bad == {n \in Nat : \A g : ~Powers(g, n)}
<1>1. ASSUME Bad # {}
      PROVE  FALSE
  <2>1. PICK n \in Bad : \A l \in Bad : n <= l
    BY <1>1, LeastExists
  <2>2. n # 0
    <3> DEFINE g == [i \in 0 .. 0 |-> 1]
    <3>1. Powers(g, 0)
      BY DEF Powers
    <3> QED BY <2>1, <3>1
  <2>3. n - 1 \in Nat /\ n \in Nat /\ n - 1 \notin Bad
    BY <2>1, <2>2
  <2>4. PICK g : Powers(g, n - 1)
    BY <2>3
  <2> DEFINE h == [i \in 0 .. n |-> IF i = n THEN 2 * g[n - 1] ELSE g[i]]
  <2>5. h \in [0 .. n -> Nat \ {0}]
    <3>1. \A i \in 0 .. n : i # n => i \in 0 .. n - 1
      BY <2>3
    <3>2. g[n - 1] \in Nat \ {0}
      BY <2>3, <2>4 DEF Powers
    <3>3. \A i \in 0 .. n - 1 : g[i] \in Nat \ {0}
      BY <2>4 DEF Powers
    <3>4. 2 * g[n - 1] \in Nat \ {0}
      BY <3>2
    <3> QED BY <3>1, <3>3, <3>4
  <2>6. h[0] = 1
    BY <2>2, <2>3, <2>4 DEF Powers
  <2>7. ASSUME NEW i \in 0 .. n - 1
        PROVE  h[i + 1] = 2 * h[i]
    <3>1. i \in 0 .. n /\ i + 1 \in 0 .. n /\ i # n
      BY <2>3
    <3>2. CASE i = n - 1
      BY <2>3, <3>1, <3>2
    <3>3. CASE i # n - 1
      <4>1. i \in 0 .. (n - 1) - 1 /\ i + 1 # n
        BY <2>3, <3>3
      <4> QED BY <2>4, <3>1, <4>1 DEF Powers
    <3> QED BY <3>2, <3>3
  <2>8. Powers(h, n)
    BY <2>5, <2>6, <2>7 DEF Powers
  <2> QED BY <2>1, <2>8
<1> QED BY <1>1

LEMMA PowersAgree ==
  ASSUME NEW g, NEW h, NEW m \in Nat, NEW l \in Nat, m <= l, Powers(g, m), Powers(h, l)
  PROVE  \A n \in 0 .. m : g[n] = h[n]
<1> DEFINE Bad == {n \in 0 .. m : g[n] # h[n]}
<1>1. ASSUME Bad # {}
      PROVE  FALSE
  <2>0. Bad \subseteq Nat
    OBVIOUS
  <2>1. PICK n \in Bad : \A i \in Bad : n <= i
    BY <1>1, <2>0, LeastExists
  <2>2. n # 0 /\ n \in Nat
    BY <2>1 DEF Powers
  <2>3. n - 1 \notin Bad /\ n - 1 \in 0 .. m - 1 /\ n - 1 \in 0 .. l - 1 /\ n - 1 \in 0 .. m
    BY <2>1, <2>2
  <2>4. g[n - 1] = h[n - 1]
    BY <2>3
  <2>5. g[(n - 1) + 1] = 2 * g[n - 1] /\ h[(n - 1) + 1] = 2 * h[n - 1]
    BY <2>3 DEF Powers
  <2>6. (n - 1) + 1 = n
    BY <2>2
  <2> QED BY <2>1, <2>4, <2>5, <2>6
<1> QED BY <1>1

LEMMA PowerOf2Is ==
  /\ PowerOf2[0] = 1
  /\ \A n \in Nat : PowerOf2[n] \in Nat \ {0} /\ PowerOf2[n + 1] = 2 * PowerOf2[n]
<1> DEFINE G(n) == CHOOSE g : Powers(g, n)
           f == [n \in Nat |-> G(n)[n]]
<1>1. \A n \in Nat : Powers(G(n), n)
  BY PowersExist
<1> HIDE DEF G
<1>2. f[0] = 1
  BY <1>1 DEF Powers
<1>3. ASSUME NEW n \in Nat
      PROVE  f[n] \in Nat \ {0} /\ f[n + 1] = 2 * f[n]
  <2>1. Powers(G(n), n) /\ Powers(G(n + 1), n + 1) /\ n + 1 \in Nat /\ n <= n + 1
    BY <1>1
  <2>2. G(n)[n] = G(n + 1)[n]
    BY <2>1, PowersAgree
  <2>3. G(n + 1)[n + 1] = 2 * G(n + 1)[n]
    BY <2>1 DEF Powers
  <2>4. G(n)[n] \in Nat \ {0}
    BY <2>1 DEF Powers
  <2> QED BY <2>1, <2>2, <2>3, <2>4
<1>4. \A n \in Nat : f[n] = IF n = 0 THEN 1 ELSE 2 * f[n - 1]
  <2> SUFFICES ASSUME NEW n \in Nat, n # 0
               PROVE  f[n] = 2 * f[n - 1]
    BY <1>2
  <2>1. n - 1 \in Nat /\ (n - 1) + 1 = n
    OBVIOUS
  <2> HIDE DEF f
  <2> QED BY <1>3, <2>1
<1>5. f = [n \in Nat |-> IF n = 0 THEN 1 ELSE 2 * f[n - 1]]
  BY <1>4
<1> HIDE DEF f
<1>6. PowerOf2 = [n \in Nat |-> IF n = 0 THEN 1 ELSE 2 * PowerOf2[n - 1]]
  BY <1>5 DEF PowerOf2
<1>7. \A n \in Nat : PowerOf2[n] = IF n = 0 THEN 1 ELSE 2 * PowerOf2[n - 1]
  BY <1>6
<1>8. ASSUME NEW n \in Nat
      PROVE  PowerOf2[n + 1] = 2 * PowerOf2[n]
  <2>1. n + 1 \in Nat /\ n + 1 # 0 /\ (n + 1) - 1 = n
    OBVIOUS
  <2> QED BY <1>7, <2>1
<1>9. PowerOf2[0] = 1
  BY <1>7
<1>10. \A n \in Nat : PowerOf2[n] \in Nat \ {0}
  <2> DEFINE Bad == {n \in Nat : PowerOf2[n] \notin Nat \ {0}}
  <2>1. ASSUME Bad # {}
        PROVE  FALSE
    <3>1. PICK n \in Bad : \A l \in Bad : n <= l
      BY <2>1, LeastExists
    <3>2. n # 0
      BY <1>9, <3>1
    <3>3. n - 1 \in Nat /\ (n - 1) + 1 = n /\ ~ n <= n - 1
      BY <3>1, <3>2
    <3>4. PowerOf2[n - 1] \in Nat \ {0}
      BY <3>1, <3>3
    <3>5. PowerOf2[n] = 2 * PowerOf2[n - 1]
      BY <1>8, <3>3
    <3>6. 2 * PowerOf2[n - 1] \in Nat \ {0}
      BY <3>4
    <3> QED BY <3>1, <3>5, <3>6
  <2> QED BY <2>1
<1> QED BY <1>8, <1>9, <1>10

LEMMA FirstInIs ==
  ASSUME NEW seq, NEW good, NEW x \in FirstIn(seq, good)
  PROVE  \E n \in DOMAIN seq :
           x = seq[n] /\ x \in good /\ \A m \in 1 .. n - 1 : seq[m] \notin good
BY DEF FirstIn

LEMMA FirstInEmpty ==
  ASSUME NEW seq, NEW N \in Nat, DOMAIN seq = 1 .. N, NEW good, FirstIn(seq, good) = {}
  PROVE  \A n \in DOMAIN seq : seq[n] \notin good
<1> DEFINE I == {n \in DOMAIN seq : seq[n] \in good}
<1>1. ASSUME I # {}
      PROVE  FALSE
  <2>1. I \subseteq Nat
    OBVIOUS
  <2>2. PICK n \in I : \A l \in I : n <= l
    BY <1>1, <2>1, LeastExists
  <2>3. \A m \in 1 .. n - 1 : seq[m] \notin good
    BY <2>2
  <2> QED BY <2>2, <2>3 DEF FirstIn
<1> QED BY <1>1

-----------------------------------------------------------------------------
(* Sizes and places.                                                       *)

KeyType == Keys \cup {JunkKey}

LEMMA CapacityIs ==
  ASSUME NEW t, IsTable(t)
  PROVE  /\ \A i \in 0 .. 2 : Capacity(t, i) \in Nat
         /\ \A i \in 0 .. 1 : /\ Capacity(t, i) \div 2 \in Nat \ {0}
                              /\ Capacity(t, i) = 2 * (Capacity(t, i) \div 2)
                              /\ ASSOC_NUM * Capacity(t, i) < WORD
<1> DEFINE n == t.level_size
<1>1. n \in Nat /\ n > 1 /\ n <= MaxLevelSize /\ MinLevelSize > 1
  BY SizesAssumption DEF IsTable
<1>2. t.resize_state \in 0 .. 2 /\ (t.resize_state = 1 => n > 2)
  BY SizesAssumption DEF IsTable
<1> HIDE DEF n
<1>3. n - 1 \in Nat /\ n + 1 \in Nat /\ n - 2 \in Nat
  BY <1>1
<1>4. PowerOf2[n - 1] \in Nat \ {0} /\ PowerOf2[n] \in Nat \ {0} /\ PowerOf2[n + 1] \in Nat \ {0}
      /\ PowerOf2[n - 2] \in Nat \ {0}
  BY <1>1, <1>3, PowerOf2Is
<1>5. PowerOf2[(n - 1) + 1] = 2 * PowerOf2[n - 1] /\ PowerOf2[(n - 2) + 1] = 2 * PowerOf2[n - 2]
  BY <1>3, PowerOf2Is
<1>6. PowerOf2[n] = 2 * PowerOf2[n - 1] /\ PowerOf2[n - 1] = 2 * PowerOf2[n - 2]
  <2>1. (n - 1) + 1 = n /\ (n - 2) + 1 = n - 1
    BY <1>1
  <2> QED BY <1>5, <2>1
<1>7. n \in 0 .. MaxLevelSize /\ n - 1 \in 0 .. MaxLevelSize
  BY <1>1, SizesAssumption
<1>8. ASSOC_NUM * PowerOf2[n] < WORD /\ ASSOC_NUM * PowerOf2[n - 1] < WORD
  BY <1>7, WordAssumption
<1>9. Capacity(t, 0) = PowerOf2[n] /\ Capacity(t, 1) = PowerOf2[n - 1]
  <2>1. n - 0 = n
    BY <1>1
  <2> QED BY <2>1 DEF Capacity, n
<1>10. /\ t.resize_state = 0 => Capacity(t, 2) = 0
       /\ t.resize_state = 1 => Capacity(t, 2) = PowerOf2[n - 2]
       /\ t.resize_state = 2 => Capacity(t, 2) = PowerOf2[n + 1]
  BY DEF Capacity, n
<1>11. Capacity(t, 2) \in Nat
  BY <1>2, <1>4, <1>10
<1>12. \A m \in Nat \ {0} : (2 * m) \div 2 = m
  OBVIOUS
<1>13. Capacity(t, 0) \div 2 = PowerOf2[n - 1] /\ Capacity(t, 1) \div 2 = PowerOf2[n - 2]
  BY <1>4, <1>6, <1>9, <1>12
<1>14. \A i \in 0 .. 2 : i = 0 \/ i = 1 \/ i = 2
  OBVIOUS
<1>15. \A i \in 0 .. 1 : i = 0 \/ i = 1
  OBVIOUS
<1>16. \A i \in 0 .. 2 : Capacity(t, i) \in Nat
  BY <1>4, <1>9, <1>11, <1>14
<1>17. ASSUME NEW i \in 0 .. 1
       PROVE  /\ Capacity(t, i) \div 2 \in Nat \ {0}
              /\ Capacity(t, i) = 2 * (Capacity(t, i) \div 2)
              /\ ASSOC_NUM * Capacity(t, i) < WORD
  BY <1>4, <1>6, <1>8, <1>9, <1>13, <1>15
<1> QED BY <1>16, <1>17

\* The hash values of a key are indexes of buckets.
LEMMA IdxOfIs ==
  ASSUME NEW t, IsTable(t), NEW k \in KeyType, NEW i \in 0 .. 1
  PROVE  /\ IdxOf(t, k, i)[1] \in 0 .. Capacity(t, i) - 1
         /\ IdxOf(t, k, i)[2] \in 0 .. Capacity(t, i) - 1
         /\ ToSet(IdxOf(t, k, i)) = {IdxOf(t, k, i)[1], IdxOf(t, k, i)[2]}
<1> DEFINE c == Capacity(t, i)
           h == c \div 2
<1>1. h \in Nat \ {0} /\ c = 2 * h
  BY CapacityIs
<1> HIDE DEF h, c
<1>2. F_HASH[k] \in Nat /\ S_HASH[k] \in Nat
  BY KeysAssumption DEF KeyType
<1>3. F_HASH[k] % h \in 0 .. h - 1 /\ S_HASH[k] % h \in 0 .. h - 1
  BY <1>1, <1>2
<1>4. F_HASH[k] % h \in 0 .. c - 1 /\ (S_HASH[k] % h) + h \in 0 .. c - 1
  BY <1>1, <1>3
<1>5. IdxOf(t, k, i) = <<F_HASH[k] % h, (S_HASH[k] % h) + h>>
  BY DEF IdxOf, F_IDX, S_IDX, h, c
<1>6. ToSet(IdxOf(t, k, i)) = {IdxOf(t, k, i)[1], IdxOf(t, k, i)[2]}
  BY <1>5 DEF ToSet
<1> QED BY <1>4, <1>5, <1>6 DEF c

\* The slots of a table.
Places(t) == {p \in (0 .. 2) \X Nat \X Slots : p[2] < Capacity(t, p[1])}

LEMMA PlaceIs ==
  ASSUME NEW t, IsTable(t)
  PROVE  /\ \A i \in 0 .. 2 : \A b, j :
              <<i, b, j>> \in Places(t) <=> b \in DOMAIN t.buckets[i] /\ j \in Slots
         /\ \A p \in Places(t) :
              /\ p = <<p[1], p[2], p[3]>> /\ p[1] \in 0 .. 2 /\ p[3] \in Slots
              /\ p[2] \in 0 .. Capacity(t, p[1]) - 1
              /\ p[2] \in DOMAIN t.buckets[p[1]]
              /\ t.buckets[p[1]][p[2]] \in [Slots -> SlotType]
              /\ At(t, p) \in SlotType
<1>1. \A i \in 0 .. 2 : Capacity(t, i) \in Nat
  BY CapacityIs
<1>2. \A i \in 0 .. 2 : t.buckets[i] \in [0 .. Capacity(t, i) - 1 -> [Slots -> SlotType]]
  BY DEF IsTable
<1>3. ASSUME NEW i \in 0 .. 2, NEW b, NEW j
      PROVE  <<i, b, j>> \in Places(t) <=> b \in DOMAIN t.buckets[i] /\ j \in Slots
  <2>1. <<i, b, j>> \in Places(t) <=> b \in Nat /\ j \in Slots /\ b < Capacity(t, i)
    BY DEF Places
  <2>2. b \in 0 .. Capacity(t, i) - 1 <=> b \in Nat /\ b < Capacity(t, i)
    BY <1>1
  <2> QED BY <1>2, <2>1, <2>2
<1>4. ASSUME NEW p \in Places(t)
      PROVE  /\ p = <<p[1], p[2], p[3]>> /\ p[1] \in 0 .. 2 /\ p[3] \in Slots
             /\ p[2] \in 0 .. Capacity(t, p[1]) - 1
             /\ p[2] \in DOMAIN t.buckets[p[1]]
             /\ t.buckets[p[1]][p[2]] \in [Slots -> SlotType]
             /\ At(t, p) \in SlotType
  <2>1. p = <<p[1], p[2], p[3]>> /\ p[1] \in 0 .. 2 /\ p[3] \in Slots
    BY DEF Places
  <2>2. p[2] \in 0 .. Capacity(t, p[1]) - 1
    BY <1>1, <2>1 DEF Places
  <2>3. t.buckets[p[1]][p[2]] \in [Slots -> SlotType]
    BY <1>2, <2>1, <2>2
  <2>4. p[2] \in DOMAIN t.buckets[p[1]]
    BY <1>2, <2>1, <2>2
  <2> QED BY <2>1, <2>2, <2>3, <2>4 DEF At
<1> QED BY <1>3, <1>4

LEMMA UsedIs ==
  ASSUME NEW t, IsTable(t)
  PROVE  /\ Used(t) = {p \in Places(t) : At(t, p).token = 1}
         /\ \A i \in 0 .. 2 : \A b, j :
              <<b, j>> \in UsedIn(t.buckets[i]) <=>
                <<i, b, j>> \in Places(t) /\ At(t, <<i, b, j>>).token = 1
<1>1. ASSUME NEW i \in 0 .. 2, NEW b, NEW j
      PROVE  <<b, j>> \in UsedIn(t.buckets[i]) <=>
               <<i, b, j>> \in Places(t) /\ At(t, <<i, b, j>>).token = 1
  <2>1. <<b, j>> \in UsedIn(t.buckets[i]) <=>
          b \in DOMAIN t.buckets[i] /\ j \in Slots /\ t.buckets[i][b][j].token = 1
    BY DEF UsedIn
  <2> QED BY <2>1, PlaceIs DEF At
<1>2. ASSUME NEW p
      PROVE  p \in Used(t) <=> p \in Places(t) /\ At(t, p).token = 1
  <2>1. ASSUME p \in Used(t)
        PROVE  p \in Places(t) /\ At(t, p).token = 1
    <3>1. PICK i \in 0 .. 2 : \E x \in UsedIn(t.buckets[i]) : p = <<i, x[1], x[2]>>
      BY <2>1 DEF Used
    <3>2. PICK x \in UsedIn(t.buckets[i]) : p = <<i, x[1], x[2]>>
      BY <3>1
    <3>3. x = <<x[1], x[2]>>
      BY DEF UsedIn
    <3> QED BY <1>1, <3>2, <3>3
  <2>2. ASSUME p \in Places(t), At(t, p).token = 1
        PROVE  p \in Used(t)
    <3>1. p = <<p[1], p[2], p[3]>> /\ p[1] \in 0 .. 2
      BY <2>2, PlaceIs
    <3>2. <<p[2], p[3]>> \in UsedIn(t.buckets[p[1]])
      BY <1>1, <2>2, <3>1
    <3>3. p \in {<<p[1], x[1], x[2]>> : x \in UsedIn(t.buckets[p[1]])}
      BY <3>1, <3>2
    <3> QED BY <3>1, <3>3 DEF Used
  <2> QED BY <2>1, <2>2
<1> QED BY <1>1, <1>2

\* What is not in use is junk.
CleanSlot(slot) ==
  /\ slot.token # 1 => slot.key = JunkKey
  /\ slot.key = JunkKey <=> slot.value = NoValue

LEMMA CleanIs ==
  ASSUME NEW t, IsTable(t)
  PROVE  Clean(t) <=> \A p \in Places(t) : CleanSlot(At(t, p))
<1>1. ASSUME Clean(t), NEW p \in Places(t)
      PROVE  CleanSlot(At(t, p))
  BY <1>1, PlaceIs DEF Clean, CleanSlot, At
<1>2. ASSUME \A p \in Places(t) : CleanSlot(At(t, p)),
             NEW i \in 0 .. 2, NEW b \in DOMAIN t.buckets[i], NEW j \in Slots
      PROVE  CleanSlot(t.buckets[i][b][j])
  <2>1. <<i, b, j>> \in Places(t)
    BY PlaceIs
  <2>2. CleanSlot(At(t, <<i, b, j>>))
    BY <1>2, <2>1
  <2> QED BY <2>2 DEF At
<1> QED BY <1>1, <1>2 DEF Clean, CleanSlot

\* Two tables of the same shape.
Like(u, t) ==
  /\ u.level_size = t.level_size
  /\ u.resize_state = t.resize_state

LEMMA LikeIs ==
  ASSUME NEW t, NEW u, Like(u, t)
  PROVE  /\ \A i : Capacity(u, i) = Capacity(t, i)
         /\ \A k, i : IdxOf(u, k, i) = IdxOf(t, k, i)
         /\ Places(u) = Places(t)
<1>1. \A i : Capacity(u, i) = Capacity(t, i)
  BY DEF Capacity, Like
<1>2. \A k, i : IdxOf(u, k, i) = IdxOf(t, k, i)
  BY <1>1 DEF IdxOf
<1>3. Places(u) = Places(t)
  BY <1>1 DEF Places
<1> QED BY <1>1, <1>2, <1>3

LEMMA PutIs ==
  ASSUME NEW t, IsTable(t), NEW p \in Places(t), NEW x \in SlotType, NEW u, u = Put(t, p, x)
  PROVE  /\ IsTable(u) /\ Like(u, t)
         /\ u.level_item_num = t.level_item_num
         /\ \A q \in Places(t) : At(u, q) = IF q = p THEN x ELSE At(t, q)
<1> DEFINE B == t.buckets
<1>1. t = [buckets |-> [i \in 0 .. 2 |-> B[i]], level_item_num |-> t.level_item_num,
           level_size |-> t.level_size, level_expand_time |-> t.level_expand_time,
           resize_state |-> t.resize_state]
  BY DEF IsTable
<1>2. B = [i \in 0 .. 2 |-> B[i]]
  BY <1>1
<1>3. u = [t EXCEPT !.buckets = [B EXCEPT ![p[1]] = [B[p[1]] EXCEPT ![p[2]] = [B[p[1]][p[2]] EXCEPT ![p[3]] = x]]]]
  BY <1>1 DEF Put
<1> DEFINE C == [B EXCEPT ![p[1]] = [B[p[1]] EXCEPT ![p[2]] = [B[p[1]][p[2]] EXCEPT ![p[3]] = x]]]
<1>4. /\ u = [buckets |-> C, level_item_num |-> t.level_item_num,
              level_size |-> t.level_size, level_expand_time |-> t.level_expand_time,
              resize_state |-> t.resize_state]
  BY <1>1, <1>3
<1>5. Like(u, t) /\ u.level_item_num = t.level_item_num /\ u.buckets = C
      /\ u.level_expand_time = t.level_expand_time
  BY <1>4 DEF Like
<1>6. C = [i \in 0 .. 2 |-> C[i]]
  BY <1>2
<1>7. u = [buckets |-> [i \in 0 .. 2 |-> u.buckets[i]], level_item_num |-> u.level_item_num,
           level_size |-> u.level_size, level_expand_time |-> u.level_expand_time,
           resize_state |-> u.resize_state]
  BY <1>4, <1>6
<1>8. \A i \in 0 .. 2 : B[i] \in [0 .. Capacity(t, i) - 1 -> [Slots -> SlotType]]
  BY DEF IsTable
<1>9. p[1] \in 0 .. 2 /\ p[2] \in 0 .. Capacity(t, p[1]) - 1 /\ p[3] \in Slots
  BY PlaceIs
<1>10. ASSUME NEW i \in 0 .. 2
       PROVE  C[i] \in [0 .. Capacity(t, i) - 1 -> [Slots -> SlotType]]
  <2>1. CASE i = p[1]
    <3>1. C[i] = [B[i] EXCEPT ![p[2]] = [B[i][p[2]] EXCEPT ![p[3]] = x]]
      BY <1>2, <2>1
    <3> DEFINE y == [B[i][p[2]] EXCEPT ![p[3]] = x]
    <3>2. y \in [Slots -> SlotType]
      BY <1>8, <1>9, <2>1
    <3>3. C[i] = [B[i] EXCEPT ![p[2]] = y]
      BY <3>1
    <3>4. B[i] \in [0 .. Capacity(t, i) - 1 -> [Slots -> SlotType]]
      BY <1>8
    <3> HIDE DEF y, C, B
    <3> QED BY <3>2, <3>3, <3>4
  <2>2. CASE i # p[1]
    BY <1>2, <1>8, <2>2
  <2> QED BY <2>1, <2>2
<1>11. \A i \in 0 .. 2 : u.buckets[i] \in [0 .. Capacity(u, i) - 1 -> [Slots -> SlotType]]
  BY <1>5, <1>10, LikeIs
<1> HIDE DEF C
<1>12. IsTable(u)
  BY <1>5, <1>7, <1>11 DEF IsTable, Like
<1>13. ASSUME NEW q \in Places(t)
       PROVE  At(u, q) = IF q = p THEN x ELSE At(t, q)
  <2>1. q[1] \in 0 .. 2 /\ q[2] \in 0 .. Capacity(t, q[1]) - 1 /\ q[3] \in Slots
    BY PlaceIs
  <2>2. p = <<p[1], p[2], p[3]>> /\ q = <<q[1], q[2], q[3]>>
    BY PlaceIs
  <2>3. C[q[1]] = IF q[1] = p[1] THEN [B[p[1]] EXCEPT ![p[2]] = [B[p[1]][p[2]] EXCEPT ![p[3]] = x]] ELSE B[q[1]]
    BY <1>2, <2>1 DEF C
  <2>4. B[p[1]] \in [0 .. Capacity(t, p[1]) - 1 -> [Slots -> SlotType]]
    BY <1>8, <1>9
  <2>5. ASSUME q[1] = p[1]
        PROVE  C[q[1]][q[2]] = IF q[2] = p[2] THEN [B[p[1]][p[2]] EXCEPT ![p[3]] = x]
                               ELSE B[q[1]][q[2]]
    BY <2>1, <2>3, <2>4, <2>5
  <2>6. B[p[1]][p[2]] \in [Slots -> SlotType]
    BY <1>9, <2>4
  <2>7. [B[p[1]][p[2]] EXCEPT ![p[3]] = x][q[3]] = IF q[3] = p[3] THEN x ELSE B[p[1]][p[2]][q[3]]
    BY <2>1, <2>6
  <2>8. C[q[1]][q[2]][q[3]] = IF q = p THEN x ELSE B[q[1]][q[2]][q[3]]
    <3>1. CASE q[1] # p[1]
      BY <2>2, <2>3, <3>1
    <3>2. CASE q[1] = p[1] /\ q[2] # p[2]
      BY <2>2, <2>5, <3>2
    <3>3. CASE q[1] = p[1] /\ q[2] = p[2]
      BY <2>2, <2>5, <2>7, <3>3
    <3> QED BY <3>1, <3>2, <3>3
  <2> QED BY <1>5, <2>8 DEF At
<1> QED BY <1>5, <1>12, <1>13

\* u is t but for the count of level i, which is n.
Recounted(u, t, i, n) ==
  /\ IsTable(u) /\ Like(u, t)
  /\ \A j \in 0 .. 1 : u.level_item_num[j] = IF j = i THEN n ELSE t.level_item_num[j]
  /\ \A q : At(u, q) = At(t, q)

LEMMA CountIs ==
  ASSUME NEW t, IsTable(t), NEW i \in 0 .. 1, NEW d \in Int
  PROVE  Recounted(Count(t, i, d), t, i, (t.level_item_num[i] + d) % WORD)
<1> DEFINE n == (t.level_item_num[i] + d) % WORD
           u == Count(t, i, d)
<1>1. t.level_item_num \in [0 .. 1 -> 0 .. WORD - 1]
  BY DEF IsTable
<1>2. WORD \in Nat /\ WORD > 0
  BY <1>1, SizesAssumption
<1>3. n \in 0 .. WORD - 1
  <2>1. t.level_item_num[i] + d \in Int
    BY <1>1
  <2> QED BY <1>2, <2>1
<1> HIDE DEF n
<1>4. u = [t EXCEPT !.level_item_num = [@ EXCEPT ![i] = n]]
  BY DEF Count, IsTable, n
<1> HIDE DEF u
<1>5. u.level_item_num = [t.level_item_num EXCEPT ![i] = n] /\ u.buckets = t.buckets
      /\ u.level_size = t.level_size /\ u.level_expand_time = t.level_expand_time
      /\ u.resize_state = t.resize_state
      /\ u = [buckets |-> [j \in 0 .. 2 |-> u.buckets[j]], level_item_num |-> u.level_item_num,
              level_size |-> u.level_size, level_expand_time |-> u.level_expand_time,
              resize_state |-> u.resize_state]
  BY <1>4 DEF IsTable
<1>6. Like(u, t)
  BY <1>5 DEF Like
<1>7. u.level_item_num \in [0 .. 1 -> 0 .. WORD - 1]
  BY <1>1, <1>3, <1>5
<1>8. \A j \in 0 .. 2 : u.buckets[j] \in [0 .. Capacity(u, j) - 1 -> [Slots -> SlotType]]
  BY <1>5, <1>6, LikeIs DEF IsTable
<1>9. IsTable(u)
  BY <1>5, <1>7, <1>8 DEF IsTable
<1>10. \A j \in 0 .. 1 : u.level_item_num[j] = IF j = i THEN n ELSE t.level_item_num[j]
  BY <1>1, <1>5
<1>11. \A q : At(u, q) = At(t, q)
  BY <1>5 DEF At
<1> QED BY <1>6, <1>9, <1>10, <1>11 DEF n, u, Recounted

-----------------------------------------------------------------------------
(* The places of a key.                                                    *)

\* Rows of m slots, one after the other.
LEMMA RowsAre ==
  ASSUME NEW rows \in Nat, NEW m \in Nat \ {0}, NEW b \in 0 .. rows - 1, NEW j \in 1 .. m
  PROVE  /\ b * m + j \in 1 .. rows * m
         /\ ((b * m + j) - 1) \div m = b
         /\ ((b * m + j) - 1) % m = j - 1
OBVIOUS

KeyPlaces(t, k, i) ==
  {p \in Places(t) : p[1] = i /\ p[2] \in ToSet(IdxOf(t, k, i))}

LEMMA InsertPlacesIs ==
  ASSUME NEW t, IsTable(t), NEW k \in KeyType, NEW i \in 0 .. 1
  PROVE  /\ InsertPlaces(t, k, i) \in Seq(KeyPlaces(t, k, i))
         /\ Len(InsertPlaces(t, k, i)) = 2 * ASSOC_NUM
         /\ \A p \in KeyPlaces(t, k, i) :
              \E n \in 1 .. 2 * ASSOC_NUM : InsertPlaces(t, k, i)[n] = p
<1> DEFINE A == ASSOC_NUM
           x == IdxOf(t, k, i)
           s == InsertPlaces(t, k, i)
<1>1. A \in Nat /\ A > 0 /\ 2 * A \in Nat
  BY SizesAssumption
<1>2. /\ x[1] \in 0 .. Capacity(t, i) - 1 /\ x[2] \in 0 .. Capacity(t, i) - 1
      /\ ToSet(x) = {x[1], x[2]}
  BY IdxOfIs
<1>3. Capacity(t, i) \in Nat
  BY CapacityIs
<1>4. s = [n \in 1 .. 2 * A |-> <<i, x[1 + ((n - 1) % 2)], 1 + ((n - 1) \div 2)>>]
  BY DEF InsertPlaces
<1> HIDE DEF x, s, A
<1>5. ASSUME NEW b \in ToSet(x), NEW j \in 1 .. A
      PROVE  <<i, b, j>> \in KeyPlaces(t, k, i)
  <2>1. b \in Nat /\ b < Capacity(t, i)
    BY <1>2, <1>3
  <2>2. <<i, b, j>> \in Places(t)
    BY <2>1 DEF Places, Slots, A
  <2> QED BY <2>2 DEF KeyPlaces, x
<1>6. ASSUME NEW n \in 1 .. 2 * A
      PROVE  s[n] \in KeyPlaces(t, k, i)
  <2>1. 1 + ((n - 1) % 2) \in 1 .. 2 /\ 1 + ((n - 1) \div 2) \in 1 .. A
    BY <1>1
  <2>2. x[1 + ((n - 1) % 2)] \in ToSet(x)
    BY <1>2, <2>1
  <2> QED BY <1>4, <1>5, <2>1, <2>2
<1>7. ASSUME NEW p \in KeyPlaces(t, k, i)
      PROVE  \E n \in 1 .. 2 * A : s[n] = p
  <2>1. p = <<i, p[2], p[3]>> /\ p[2] \in {x[1], x[2]} /\ p[3] \in 1 .. A
    BY <1>2, PlaceIs DEF KeyPlaces, x, Slots, A
  <2>2. PICK o \in 0 .. 1 : p[2] = x[1 + o]
    <3>1. 1 + 0 = 1 /\ 1 + 1 = 2 /\ 0 \in 0 .. 1 /\ 1 \in 0 .. 1
      OBVIOUS
    <3> QED BY <2>1, <3>1
  <2> DEFINE n == (p[3] - 1) * 2 + (o + 1)
  <2>3. n \in 1 .. 2 * A /\ (n - 1) % 2 = o /\ 1 + ((n - 1) \div 2) = p[3]
    <3>1. p[3] - 1 \in 0 .. A - 1 /\ o + 1 \in 1 .. 2 /\ 2 \in Nat \ {0} /\ p[3] \in Nat
      BY <1>1, <2>1
    <3> DEFINE b == p[3] - 1
    <3>2. b \in Nat /\ b <= A - 1 /\ n - 1 = 2 * b + o /\ n \in 1 .. A * 2
      BY <1>1, <3>1
    <3> HIDE DEF n, b
    <3>3. (2 * b + o) \div 2 = b /\ (2 * b + o) % 2 = o
      BY <3>2
    <3>4. (n - 1) \div 2 = p[3] - 1 /\ (n - 1) % 2 = o
      BY <3>2, <3>3 DEF b
    <3> QED BY <1>1, <3>1, <3>2, <3>4
  <2> HIDE DEF n
  <2>4. s[n] = p
    BY <1>4, <2>1, <2>2, <2>3
  <2> QED BY <2>3, <2>4
<1>8. s \in [1 .. 2 * A -> KeyPlaces(t, k, i)]
  BY <1>4, <1>6
<1>9. s \in Seq(KeyPlaces(t, k, i)) /\ Len(s) = 2 * A
  BY <1>1, <1>8, SeqDef
<1> QED BY <1>7, <1>9 DEF s, A

LEMMA SearchPlacesIs ==
  ASSUME NEW t, IsTable(t), NEW k \in KeyType, NEW i \in 0 .. 1
  PROVE  /\ SearchPlaces(t, k, i) \in Seq(KeyPlaces(t, k, i))
         /\ Len(SearchPlaces(t, k, i)) = 2 * ASSOC_NUM
         /\ \A p \in KeyPlaces(t, k, i) :
              \E n \in 1 .. 2 * ASSOC_NUM : SearchPlaces(t, k, i)[n] = p
<1> DEFINE A == ASSOC_NUM
           x == IdxOf(t, k, i)
           s == SearchPlaces(t, k, i)
<1>1. A \in Nat /\ A > 0 /\ 2 * A \in Nat
  BY SizesAssumption
<1>2. /\ x[1] \in 0 .. Capacity(t, i) - 1 /\ x[2] \in 0 .. Capacity(t, i) - 1
      /\ ToSet(x) = {x[1], x[2]}
  BY IdxOfIs
<1>3. Capacity(t, i) \in Nat
  BY CapacityIs
<1>4. s = [n \in 1 .. 2 * A |-> <<i, x[1 + ((n - 1) \div A)], 1 + ((n - 1) % A)>>]
  BY DEF SearchPlaces
<1> HIDE DEF x, s, A
<1>5. ASSUME NEW b \in ToSet(x), NEW j \in 1 .. A
      PROVE  <<i, b, j>> \in KeyPlaces(t, k, i)
  <2>1. b \in Nat /\ b < Capacity(t, i)
    BY <1>2, <1>3
  <2>2. <<i, b, j>> \in Places(t)
    BY <2>1 DEF Places, Slots, A
  <2> QED BY <2>2 DEF KeyPlaces, x
<1>6. ASSUME NEW n \in 1 .. 2 * A
      PROVE  s[n] \in KeyPlaces(t, k, i)
  <2>1. 1 + ((n - 1) \div A) \in 1 .. 2 /\ 1 + ((n - 1) % A) \in 1 .. A
    BY <1>1
  <2>2. x[1 + ((n - 1) \div A)] \in ToSet(x)
    BY <1>2, <2>1
  <2> QED BY <1>4, <1>5, <2>1, <2>2
<1>7. ASSUME NEW p \in KeyPlaces(t, k, i)
      PROVE  \E n \in 1 .. 2 * A : s[n] = p
  <2>1. p = <<i, p[2], p[3]>> /\ p[2] \in {x[1], x[2]} /\ p[3] \in 1 .. A
    BY <1>2, PlaceIs DEF KeyPlaces, x, Slots, A
  <2>2. PICK o \in 0 .. 1 : p[2] = x[1 + o]
    <3>1. 1 + 0 = 1 /\ 1 + 1 = 2 /\ 0 \in 0 .. 1 /\ 1 \in 0 .. 1
      OBVIOUS
    <3> QED BY <2>1, <3>1
  <2> DEFINE n == o * A + p[3]
  <2>3. n \in 1 .. 2 * A /\ (n - 1) \div A = o /\ 1 + ((n - 1) % A) = p[3]
    <3>1. o \in 0 .. 2 - 1 /\ A \in Nat \ {0} /\ p[3] \in Nat
      BY <1>1, <2>1
    <3>2. n \in 1 .. 2 * A /\ (n - 1) \div A = o /\ (n - 1) % A = p[3] - 1
      BY <2>1, <3>1, RowsAre
    <3> HIDE DEF n
    <3> QED BY <3>1, <3>2
  <2> HIDE DEF n
  <2>4. s[n] = p
    BY <1>4, <2>1, <2>2, <2>3
  <2> QED BY <2>3, <2>4
<1>8. s \in [1 .. 2 * A -> KeyPlaces(t, k, i)]
  BY <1>4, <1>6
<1>9. s \in Seq(KeyPlaces(t, k, i)) /\ Len(s) = 2 * A
  BY <1>1, <1>8, SeqDef
<1> QED BY <1>7, <1>9 DEF s, A

\* What the parts of a concatenation say of it.
LEMMA ConcatIs ==
  ASSUME NEW W, NEW a \in Seq(W), NEW b \in Seq(W)
  PROVE  /\ a \o b \in Seq(W) /\ Len(a \o b) = Len(a) + Len(b)
         /\ Len(a) \in Nat /\ Len(b) \in Nat
         /\ \A n \in 1 .. Len(a) : (a \o b)[n] = a[n]
         /\ \A n \in 1 .. Len(b) : (a \o b)[Len(a) + n] = b[n]
         /\ \A n \in 1 .. Len(a \o b) : n <= Len(a) \/ n - Len(a) \in 1 .. Len(b)
         /\ DOMAIN (a \o b) = 1 .. Len(a \o b)
<1>1. a \o b \in Seq(W) /\ Len(a \o b) = Len(a) + Len(b)
      /\ Len(a) \in Nat /\ Len(b) \in Nat
  OBVIOUS
<1>2. \A n \in 1 .. Len(a) : (a \o b)[n] = a[n]
  OBVIOUS
<1>3. ASSUME NEW n \in 1 .. Len(b)
      PROVE  (a \o b)[Len(a) + n] = b[n]
  <2>1. Len(a) + n \in 1 .. Len(a) + Len(b) /\ ~ (Len(a) + n <= Len(a)) /\ (Len(a) + n) - Len(a) = n
    BY <1>1
  <2> QED BY <2>1
<1>4. \A n \in 1 .. Len(a \o b) : n <= Len(a) \/ n - Len(a) \in 1 .. Len(b)
  BY <1>1
<1>5. DOMAIN (a \o b) = 1 .. Len(a \o b)
  BY <1>1
<1> QED BY <1>1, <1>2, <1>3, <1>4, <1>5

-----------------------------------------------------------------------------
(* Searching.                                                              *)

Home(t, k) == KeyPlaces(t, k, 0) \cup KeyPlaces(t, k, 1)

HomeSearched(places, t, k) ==
  /\ places \in Seq(Home(t, k))
  /\ \A p \in Home(t, k) : \E n \in 1 .. Len(places) : places[n] = p

LEMMA BothLevels ==
  ASSUME NEW t, IsTable(t), NEW k \in KeyType, NEW i \in 0 .. 1, NEW j \in 0 .. 1, i # j
  PROVE  HomeSearched(SearchPlaces(t, k, i) \o SearchPlaces(t, k, j), t, k)
<1> DEFINE a == SearchPlaces(t, k, i)
           b == SearchPlaces(t, k, j)
           W == Home(t, k)
<1>1. 2 * ASSOC_NUM \in Nat
  BY SizesAssumption
<1>2. a \in Seq(KeyPlaces(t, k, i)) /\ b \in Seq(KeyPlaces(t, k, j))
      /\ Len(a) = 2 * ASSOC_NUM /\ Len(b) = 2 * ASSOC_NUM
      /\ (\A p \in KeyPlaces(t, k, i) : \E n \in 1 .. Len(a) : a[n] = p)
      /\ (\A p \in KeyPlaces(t, k, j) : \E n \in 1 .. Len(b) : b[n] = p)
  <2>1. /\ a \in Seq(KeyPlaces(t, k, i)) /\ Len(a) = 2 * ASSOC_NUM
        /\ \A p \in KeyPlaces(t, k, i) : \E n \in 1 .. 2 * ASSOC_NUM : a[n] = p
    BY SearchPlacesIs
  <2>2. /\ b \in Seq(KeyPlaces(t, k, j)) /\ Len(b) = 2 * ASSOC_NUM
        /\ \A p \in KeyPlaces(t, k, j) : \E n \in 1 .. 2 * ASSOC_NUM : b[n] = p
    BY SearchPlacesIs
  <2> HIDE DEF a, b
  <2> QED BY <2>1, <2>2
<1>3. W = KeyPlaces(t, k, i) \cup KeyPlaces(t, k, j)
  <2>1. (i = 0 /\ j = 1) \/ (i = 1 /\ j = 0)
    OBVIOUS
  <2> QED BY <2>1 DEF Home
<1> HIDE DEF a, b, W
<1>4. a \in Seq(W) /\ b \in Seq(W)
  BY <1>2, <1>3
<1>5. /\ a \o b \in Seq(W) /\ Len(a \o b) = Len(a) + Len(b)
      /\ Len(a) \in Nat /\ Len(b) \in Nat
      /\ \A n \in 1 .. Len(a) : (a \o b)[n] = a[n]
      /\ \A n \in 1 .. Len(b) : (a \o b)[Len(a) + n] = b[n]
  BY <1>4, ConcatIs
<1>6. ASSUME NEW p \in W
      PROVE  \E n \in 1 .. Len(a \o b) : (a \o b)[n] = p
  <2>1. CASE p \in KeyPlaces(t, k, i)
    <3>1. PICK n \in 1 .. Len(a) : a[n] = p
      BY <1>2, <2>1
    <3>2. n \in 1 .. Len(a \o b)
      BY <1>5
    <3> QED BY <1>5, <3>1, <3>2
  <2>2. CASE p \in KeyPlaces(t, k, j)
    <3>1. PICK n \in 1 .. Len(b) : b[n] = p
      BY <1>2, <2>2
    <3>2. Len(a) + n \in 1 .. Len(a \o b)
      BY <1>5
    <3> QED BY <1>5, <3>1, <3>2
  <2> QED BY <1>3, <2>1, <2>2
<1> QED BY <1>5, <1>6 DEF HomeSearched, a, b, W

\* Both search schemes look at all slots where the key may be.
LEMMA QueriesSearchHome ==
  ASSUME NEW t, IsTable(t), NEW k \in KeyType
  PROVE  HomeSearched(StaticPlaces(t, k), t, k) /\ HomeSearched(DynamicPlaces(t, k), t, k)
<1>1. HomeSearched(StaticPlaces(t, k), t, k)
  BY BothLevels DEF StaticPlaces
<1>2. HomeSearched(SearchPlaces(t, k, 1) \o SearchPlaces(t, k, 0), t, k)
  BY BothLevels
<1> QED BY <1>1, <1>2 DEF DynamicPlaces

Holds(t, p, k) == At(t, p).token = 1 /\ At(t, p).key = k

LEMMA FindIs ==
  ASSUME NEW t, NEW k, NEW places, HomeSearched(places, t, k)
  PROVE  /\ \A p \in Find(t, places, k) : p \in Home(t, k) /\ Holds(t, p, k)
         /\ Find(t, places, k) = {} => \A p \in Home(t, k) : ~Holds(t, p, k)
<1> DEFINE good == {p \in ToSet(places) : At(t, p).token = 1 /\ At(t, p).key = k}
<1>1. places \in Seq(Home(t, k)) /\ Len(places) \in Nat /\ DOMAIN places = 1 .. Len(places)
      /\ \A n \in 1 .. Len(places) : places[n] \in Home(t, k)
  BY DEF HomeSearched
<1>2. Find(t, places, k) = FirstIn(places, good)
  BY DEF Find
<1>3. \A n \in DOMAIN places : places[n] \in good <=> Holds(t, places[n], k)
  BY DEF ToSet, Holds
<1> HIDE DEF good
<1>4. ASSUME NEW p \in Find(t, places, k)
      PROVE  p \in Home(t, k) /\ Holds(t, p, k)
  <2>1. PICK n \in DOMAIN places : p = places[n] /\ p \in good
    BY <1>2, FirstInIs
  <2> QED BY <1>1, <1>3, <2>1
<1>5. ASSUME Find(t, places, k) = {}, NEW p \in Home(t, k)
      PROVE  ~Holds(t, p, k)
  <2>1. \A n \in DOMAIN places : places[n] \notin good
    BY <1>1, <1>2, <1>5, FirstInEmpty
  <2>2. PICK n \in 1 .. Len(places) : places[n] = p
    BY DEF HomeSearched
  <2> QED BY <1>1, <1>3, <2>1, <2>2
<1> QED BY <1>4, <1>5

-----------------------------------------------------------------------------
(* Ways to insert.                                                         *)

WayType(t) == [from : Places(t), to : Places(t)]

\* Something of a bucket of the key goes where it may be itself.
Moving(t, k) == {w \in WayType(t) : w.from \in Home(t, k) /\ w.to \in Home(t, At(t, w.from).key)}

\* All slots of the key come first, then the movements.
Ordered(s, t, k) ==
  /\ s \in Seq(WayType(t)) /\ 4 * ASSOC_NUM <= Len(s)
  /\ \A n \in 1 .. 4 * ASSOC_NUM : s[n].from = s[n].to /\ s[n].to \in Home(t, k)
  /\ \A p \in Home(t, k) : \E n \in 1 .. 4 * ASSOC_NUM : s[n].to = p
  /\ \A n \in 1 .. Len(s) : n <= 4 * ASSOC_NUM \/ s[n] \in Moving(t, k)

LEMMA DirectFirst ==
  ASSUME NEW t, IsTable(t), NEW k \in KeyType
  PROVE  Ordered(Direct(t, k, 0) \o Direct(t, k, 1), t, k)
<1> DEFINE A == 2 * ASSOC_NUM
           a == Direct(t, k, 0)
           b == Direct(t, k, 1)
           W == {w \in WayType(t) : w.from = w.to /\ w.to \in Home(t, k)}
<1>1. A \in Nat /\ 4 * ASSOC_NUM = A + A
  BY SizesAssumption
<1>2. ASSUME NEW i \in 0 .. 1
      PROVE  /\ Direct(t, k, i) \in Seq(W) /\ Len(Direct(t, k, i)) = A
             /\ \A p \in KeyPlaces(t, k, i) : \E n \in 1 .. A : Direct(t, k, i)[n].to = p
  <2> DEFINE s == InsertPlaces(t, k, i)
             d == Direct(t, k, i)
  <2>1. /\ s \in Seq(KeyPlaces(t, k, i)) /\ Len(s) = A
        /\ \A p \in KeyPlaces(t, k, i) : \E n \in 1 .. A : s[n] = p
    BY InsertPlacesIs
  <2>2. d = [n \in 1 .. A |-> [from |-> s[n], to |-> s[n]]]
    BY DEF Direct
  <2>3. KeyPlaces(t, k, i) \subseteq Places(t) /\ KeyPlaces(t, k, i) \subseteq Home(t, k)
    <3>1. i = 0 \/ i = 1
      OBVIOUS
    <3> QED BY <3>1 DEF KeyPlaces, Home
  <2> HIDE DEF s, d, A
  <2>4. \A n \in 1 .. A : s[n] \in KeyPlaces(t, k, i)
    BY <1>1, <2>1
  <2>5. d \in [1 .. A -> W]
    BY <2>2, <2>3, <2>4 DEF WayType
  <2>6. d \in Seq(W) /\ Len(d) = A
    BY <1>1, <2>5, SeqDef
  <2>7. \A p \in KeyPlaces(t, k, i) : \E n \in 1 .. A : d[n].to = p
    BY <2>1, <2>2
  <2> QED BY <2>6, <2>7 DEF d
<1>3. /\ a \in Seq(W) /\ b \in Seq(W) /\ Len(a) = A /\ Len(b) = A
      /\ \A p \in KeyPlaces(t, k, 0) : \E n \in 1 .. A : a[n].to = p
      /\ \A p \in KeyPlaces(t, k, 1) : \E n \in 1 .. A : b[n].to = p
  BY <1>2
<1> HIDE DEF a, b, A, W
<1> DEFINE s == a \o b
<1>4. /\ s \in Seq(W) /\ Len(s) = A + A
      /\ \A n \in 1 .. A : s[n] = a[n]
      /\ \A n \in 1 .. A : s[A + n] = b[n]
  BY <1>3, ConcatIs
<1> HIDE DEF s
<1>5. \A n \in 1 .. A + A : s[n] \in W
  BY <1>1, <1>4
<1>6. s \in Seq(WayType(t)) /\ Len(s) = 4 * ASSOC_NUM
  <2>1. W \subseteq WayType(t)
    BY DEF W
  <2> QED BY <1>1, <1>4, <2>1
<1>7. \A n \in 1 .. 4 * ASSOC_NUM : s[n].from = s[n].to /\ s[n].to \in Home(t, k)
  BY <1>1, <1>5 DEF W
<1>8. ASSUME NEW p \in Home(t, k)
      PROVE  \E n \in 1 .. 4 * ASSOC_NUM : s[n].to = p
  <2>1. CASE p \in KeyPlaces(t, k, 0)
    <3>1. PICK n \in 1 .. A : a[n].to = p
      BY <1>3, <2>1
    <3>2. n \in 1 .. 4 * ASSOC_NUM
      BY <1>1
    <3> QED BY <1>4, <3>1, <3>2
  <2>2. CASE p \in KeyPlaces(t, k, 1)
    <3>1. PICK n \in 1 .. A : b[n].to = p
      BY <1>3, <2>2
    <3>2. A + n \in 1 .. 4 * ASSOC_NUM
      BY <1>1
    <3> QED BY <1>4, <3>1, <3>2
  <2> QED BY <2>1, <2>2 DEF Home
<1>9. 4 * ASSOC_NUM <= Len(s) /\ \A n \in 1 .. Len(s) : n <= 4 * ASSOC_NUM
  BY <1>1, <1>6
<1> QED BY <1>6, <1>7, <1>8, <1>9 DEF Ordered, s, a, b

LEMMA MovementsLast ==
  ASSUME NEW t, NEW k, NEW s, Ordered(s, t, k), NEW m \in Seq(Moving(t, k))
  PROVE  Ordered(s \o m, t, k)
<1> DEFINE A == 4 * ASSOC_NUM
           u == s \o m
<1>1. A \in Nat
  BY SizesAssumption
<1>2. s \in Seq(WayType(t)) /\ A <= Len(s) /\ m \in Seq(WayType(t))
  BY DEF Ordered, Moving
<1>3. /\ u \in Seq(WayType(t)) /\ Len(u) = Len(s) + Len(m)
      /\ Len(s) \in Nat /\ Len(m) \in Nat
      /\ \A n \in 1 .. Len(s) : u[n] = s[n]
      /\ \A n \in 1 .. Len(m) : u[Len(s) + n] = m[n]
      /\ \A n \in 1 .. Len(u) : n <= Len(s) \/ n - Len(s) \in 1 .. Len(m)
  BY <1>2, ConcatIs
<1> HIDE DEF u, A
<1>4. \A n \in 1 .. A : n \in 1 .. Len(s) /\ u[n] = s[n]
  BY <1>1, <1>2, <1>3
<1>5. ASSUME NEW n \in 1 .. Len(u)
      PROVE  n <= A \/ u[n] \in Moving(t, k)
  <2>1. CASE n <= Len(s)
    <3>1. n \in 1 .. Len(s)
      BY <1>3, <2>1
    <3> QED BY <1>3, <3>1 DEF Ordered, A
  <2>2. CASE n - Len(s) \in 1 .. Len(m)
    <3>1. u[Len(s) + (n - Len(s))] = m[n - Len(s)]
      BY <1>3, <2>2
    <3>2. Len(s) + (n - Len(s)) = n
      BY <1>3
    <3>3. m[n - Len(s)] \in Moving(t, k)
      BY <2>2
    <3> QED BY <3>1, <3>2, <3>3
  <2> QED BY <1>3, <2>1, <2>2
<1>6. A <= Len(u)
  BY <1>1, <1>2, <1>3
<1>7. \A n \in 1 .. A : u[n].from = u[n].to /\ u[n].to \in Home(t, k)
  BY <1>4 DEF Ordered, A
<1>8. \A p \in Home(t, k) : \E n \in 1 .. A : u[n].to = p
  BY <1>4 DEF Ordered, A
<1> QED BY <1>3, <1>5, <1>6, <1>7, <1>8 DEF Ordered, A, u

\* The slots of a bucket of the key.
LEMMA BucketIs ==
  ASSUME NEW t, IsTable(t), NEW k \in KeyType, NEW i \in 0 .. 1,
         NEW b \in ToSet(IdxOf(t, k, i)), NEW j \in Slots
  PROVE  /\ <<i, b, j>> \in Home(t, k) /\ <<i, b, j>> \in Places(t)
         /\ At(t, <<i, b, j>>).key \in KeyType
<1>1. b \in 0 .. Capacity(t, i) - 1 /\ Capacity(t, i) \in Nat
  BY IdxOfIs, CapacityIs
<1>2. b \in Nat /\ b < Capacity(t, i)
  BY <1>1
<1>3. <<i, b, j>> \in Places(t)
  BY <1>2 DEF Places
<1>4. <<i, b, j>> \in KeyPlaces(t, k, i)
  BY <1>3 DEF KeyPlaces
<1>5. At(t, <<i, b, j>>) \in SlotType
  BY <1>3, PlaceIs
<1>6. i = 0 \/ i = 1
  OBVIOUS
<1> QED BY <1>3, <1>4, <1>5, <1>6 DEF Home, SlotType, KeyType

LEMMA TryMovementMoves ==
  ASSUME NEW t, IsTable(t), NEW k \in KeyType, NEW i \in 0 .. 1,
         NEW b \in ToSet(IdxOf(t, k, i))
  PROVE  TryMovement(t, i, b) \in Seq(Moving(t, k))
<1> DEFINE A == ASSOC_NUM
           s == TryMovement(t, i, b)
           From(n) == <<i, b, 1 + ((n - 1) \div A)>>
           To(n) == <<i, OtherIdx(t, At(t, From(n)).key, i, b), 1 + ((n - 1) % A)>>
<1>1. A \in Nat /\ A > 0 /\ A * A \in Nat
  BY SizesAssumption
<1>2. s = [n \in 1 .. A * A |-> [from |-> From(n), to |-> To(n)]]
  BY DEF TryMovement
<1>3. ASSUME NEW n \in 1 .. A * A
      PROVE  From(n) \in Places(t) /\ From(n) \in Home(t, k)
             /\ To(n) \in Places(t) /\ To(n) \in Home(t, At(t, From(n)).key)
  <2> DEFINE l == 1 + ((n - 1) \div A)
             j == 1 + ((n - 1) % A)
             key == At(t, From(n)).key
             o == OtherIdx(t, key, i, b)
  <2> HIDE DEF A
  <2>1. l \in 1 .. A /\ j \in 1 .. A
    BY <1>1
  <2> HIDE DEF l, j
  <2>2. l \in Slots /\ j \in Slots
    BY <2>1 DEF Slots, A
  <2>3. From(n) = <<i, b, l>>
    BY DEF l
  <2>4. From(n) \in Home(t, k) /\ From(n) \in Places(t) /\ key \in KeyType
    BY <2>2, <2>3, BucketIs
  <2> HIDE DEF key
  <2>5. o \in ToSet(IdxOf(t, key, i))
    BY <2>4, IdxOfIs DEF OtherIdx
  <2> HIDE DEF o
  <2>6. <<i, o, j>> \in Home(t, key) /\ <<i, o, j>> \in Places(t)
    BY <2>2, <2>4, <2>5, BucketIs
  <2>7. To(n) = <<i, o, j>>
    BY DEF o, j, key
  <2> QED BY <2>4, <2>6, <2>7 DEF key
<1> HIDE DEF From, To, s, A
<1>4. s \in [1 .. A * A -> Moving(t, k)]
  BY <1>2, <1>3 DEF Moving, WayType
<1>5. s \in Seq(Moving(t, k))
  BY <1>1, <1>4, SeqDef
<1> QED BY <1>5 DEF s

LEMMA BottomToTopMoves ==
  ASSUME NEW t, IsTable(t), NEW k \in KeyType, NEW b \in ToSet(IdxOf(t, k, 1))
  PROVE  BottomToTop(t, b) \in Seq(Moving(t, k))
<1> DEFINE A == ASSOC_NUM
           s == BottomToTop(t, b)
           From(n) == <<1, b, 1 + ((n - 1) \div (2 * A))>>
           To(n) == InsertPlaces(t, At(t, From(n)).key, 0)[1 + ((n - 1) % (2 * A))]
<1>1. A \in Nat /\ A > 0 /\ 2 * A \in Nat /\ A * 2 * A \in Nat
  BY SizesAssumption
<1>2. s = [n \in 1 .. A * 2 * A |-> [from |-> From(n), to |-> To(n)]]
  BY DEF BottomToTop
<1>3. ASSUME NEW n \in 1 .. A * 2 * A
      PROVE  From(n) \in Places(t) /\ From(n) \in Home(t, k)
             /\ To(n) \in Places(t) /\ To(n) \in Home(t, At(t, From(n)).key)
  <2> DEFINE l == 1 + ((n - 1) \div (2 * A))
             j == 1 + ((n - 1) % (2 * A))
             key == At(t, From(n)).key
  <2> HIDE DEF A
  <2>1. l \in 1 .. A /\ j \in 1 .. 2 * A
    <3> DEFINE m == 2 * A
    <3>1. m \in Nat \ {0} /\ n \in 1 .. A * m
      BY <1>1
    <3> HIDE DEF m
    <3>2. (n - 1) \div m \in 0 .. A - 1 /\ (n - 1) % m \in 0 .. m - 1
      BY <1>1, <3>1
    <3> QED BY <1>1, <3>1, <3>2 DEF m
  <2> HIDE DEF l, j
  <2>2. l \in Slots
    BY <2>1 DEF Slots, A
  <2>3. From(n) = <<1, b, l>>
    BY DEF l
  <2>4. From(n) \in Home(t, k) /\ From(n) \in Places(t) /\ key \in KeyType
    BY <2>2, <2>3, BucketIs
  <2> HIDE DEF key
  <2>5. /\ InsertPlaces(t, key, 0) \in Seq(KeyPlaces(t, key, 0))
        /\ Len(InsertPlaces(t, key, 0)) = 2 * A
    BY <2>4, InsertPlacesIs DEF A
  <2>6. InsertPlaces(t, key, 0)[j] \in KeyPlaces(t, key, 0)
    BY <1>1, <2>1, <2>5
  <2>7. To(n) = InsertPlaces(t, key, 0)[j]
    BY DEF j, key
  <2> HIDE DEF To
  <2>8. To(n) \in Places(t) /\ To(n) \in Home(t, key)
    BY <2>6, <2>7 DEF KeyPlaces, Home
  <2> QED BY <2>4, <2>8 DEF key
<1> HIDE DEF From, To, s, A
<1>4. s \in [1 .. A * 2 * A -> Moving(t, k)]
  BY <1>2, <1>3 DEF Moving, WayType
<1>5. s \in Seq(Moving(t, k))
  BY <1>1, <1>4, SeqDef
<1> QED BY <1>5 DEF s

LEMMA WaysOrdered ==
  ASSUME NEW t, IsTable(t), NEW k \in KeyType
  PROVE  Ordered(WaysToInsert(t, k), t, k)
<1> DEFINE M == Seq(Moving(t, k))
           m1 == TryMovement(t, 0, IdxOf(t, k, 0)[1])
           m2 == TryMovement(t, 0, IdxOf(t, k, 0)[2])
           m3 == TryMovement(t, 1, IdxOf(t, k, 1)[1])
           m4 == TryMovement(t, 1, IdxOf(t, k, 1)[2])
           m5 == BottomToTop(t, IdxOf(t, k, 1)[1])
           m6 == BottomToTop(t, IdxOf(t, k, 1)[2])
           m7 == IF t.level_expand_time > 0 THEN m5 \o m6 ELSE <<>>
           d == Direct(t, k, 0) \o Direct(t, k, 1)
<1>1. \A i \in 0 .. 1 : IdxOf(t, k, i)[1] \in ToSet(IdxOf(t, k, i))
                        /\ IdxOf(t, k, i)[2] \in ToSet(IdxOf(t, k, i))
  BY IdxOfIs
<1>2. m1 \in M /\ m2 \in M /\ m3 \in M /\ m4 \in M
  BY <1>1, TryMovementMoves
<1>3. m5 \in M /\ m6 \in M
  BY <1>1, BottomToTopMoves
<1>4. m7 \in M
  <2> HIDE DEF m5, m6
  <2>1. m5 \o m6 \in M /\ <<>> \in M
    BY <1>3
  <2> QED BY <2>1
<1>5. Ordered(d, t, k)
  BY DirectFirst
<1>6. WaysToInsert(t, k) = d \o m1 \o m2 \o m3 \o m4 \o m7
  BY DEF WaysToInsert
<1> HIDE DEF m1, m2, m3, m4, m5, m6, m7, d, M
<1>7. Ordered(d \o m1, t, k)
  BY <1>2, <1>5, MovementsLast DEF M
<1>8. Ordered(d \o m1 \o m2, t, k)
  BY <1>2, <1>7, MovementsLast DEF M
<1>9. Ordered(d \o m1 \o m2 \o m3, t, k)
  BY <1>2, <1>8, MovementsLast DEF M
<1>10. Ordered(d \o m1 \o m2 \o m3 \o m4, t, k)
  BY <1>2, <1>9, MovementsLast DEF M
<1>11. Ordered(d \o m1 \o m2 \o m3 \o m4 \o m7, t, k)
  BY <1>4, <1>10, MovementsLast DEF M
<1> QED BY <1>6, <1>11

\* A way that is taken: nothing is moved, or what lies in a full slot of the key.
Way(t, k, from, to) ==
  /\ from \in Home(t, k) /\ to \in Places(t) /\ to[1] \in 0 .. 1
  /\ At(t, to).token = 0
  /\ \/ from = to
     \/ At(t, from).token # 0 /\ to \in Home(t, At(t, from).key)

LEMMA HomeIs ==
  ASSUME NEW t, NEW k
  PROVE  \A p \in Home(t, k) : p \in Places(t) /\ p[1] \in 0 .. 1
                               /\ p[2] \in ToSet(IdxOf(t, k, p[1]))
BY DEF Home, KeyPlaces

LEMMA InsertedIs ==
  ASSUME NEW t, IsTable(t), NEW item, item.key \in KeyType, NEW u \in Inserted(t, item)
  PROVE  \E from, to : Way(t, item.key, from, to) /\ u = Go(t, [from |-> from, to |-> to], item)
<1> DEFINE k == item.key
           s == WaysToInsert(t, k)
           good == {w \in ToSet(s) : At(t, w.to).token = 0}
<1>1. PICK w \in FirstIn(s, good) : u = Go(t, w, item)
  BY DEF Inserted
<1>2. PICK n \in DOMAIN s : w = s[n] /\ w \in good /\ \A m \in 1 .. n - 1 : s[m] \notin good
  BY FirstInIs
<1>3. Ordered(s, t, k)
  BY WaysOrdered
<1> HIDE DEF s, k
<1>4. 4 * ASSOC_NUM \in Nat
  BY SizesAssumption
<1>5. /\ s \in Seq(WayType(t)) /\ DOMAIN s = 1 .. Len(s) /\ Len(s) \in Nat
      /\ w \in WayType(t) /\ 4 * ASSOC_NUM <= Len(s)
  BY <1>2, <1>3 DEF Ordered
<1>6. At(t, w.to).token = 0
  BY <1>2
<1>7. w.from \in Places(t) /\ w.to \in Places(t) /\ w = [from |-> w.from, to |-> w.to]
  BY <1>5 DEF WayType
<1>8. CASE n <= 4 * ASSOC_NUM
  <2>1. n \in 1 .. 4 * ASSOC_NUM
    BY <1>4, <1>5, <1>8
  <2>2. w.from = w.to /\ w.to \in Home(t, k)
    BY <1>2, <1>3, <2>1 DEF Ordered
  <2>3. Way(t, k, w.from, w.to)
    BY <1>6, <1>7, <2>2, HomeIs DEF Way
  <2> QED BY <1>1, <1>7, <2>3 DEF k
<1>9. CASE ~ n <= 4 * ASSOC_NUM
  <2>1. w \in Moving(t, k)
    BY <1>2, <1>3, <1>5, <1>9 DEF Ordered
  <2>2. w.from \in Home(t, k) /\ w.to \in Home(t, At(t, w.from).key)
    BY <2>1 DEF Moving
  <2>3. PICK m \in 1 .. 4 * ASSOC_NUM : s[m].to = w.from
    BY <1>3, <2>2 DEF Ordered
  <2>4. m \in 1 .. n - 1 /\ m \in DOMAIN s
    BY <1>4, <1>5, <1>9
  <2>5. s[m] \notin good /\ s[m] \in ToSet(s)
    BY <1>2, <2>4 DEF ToSet
  <2>6. At(t, w.from).token # 0
    BY <2>3, <2>5
  <2>7. Way(t, k, w.from, w.to)
    BY <1>6, <1>7, <2>2, <2>6, HomeIs DEF Way
  <2> QED BY <1>1, <1>7, <2>7 DEF k
<1> QED BY <1>8, <1>9

LEMMA RaisedIs ==
  ASSUME NEW t, IsTable(t), NEW item, item.key \in KeyType, NEW u \in Raised(t, item)
  PROVE  \E to : Way(t, item.key, to, to) /\ to[1] = 0 /\ u = Count(Put(t, to, item), 0, 1)
<1> DEFINE k == item.key
           s == InsertPlaces(t, k, 0)
           good == {p \in ToSet(s) : At(t, p).token = 0}
<1>1. PICK p \in FirstIn(s, good) : u = Count(Put(t, p, item), 0, 1)
  BY DEF Raised
<1>2. PICK n \in DOMAIN s : p = s[n] /\ p \in good
  BY FirstInIs
<1>3. s \in Seq(KeyPlaces(t, k, 0))
  BY InsertPlacesIs
<1> HIDE DEF s, k
<1>4. p \in KeyPlaces(t, k, 0)
  BY <1>2, <1>3
<1>5. p \in Home(t, k) /\ p \in Places(t) /\ p[1] = 0
  BY <1>4 DEF Home, KeyPlaces
<1>6. At(t, p).token = 0
  BY <1>2
<1>7. Way(t, k, p, p)
  BY <1>5, <1>6 DEF Way
<1> QED BY <1>1, <1>5, <1>7 DEF k

-----------------------------------------------------------------------------
(* Counting.                                                               *)

LEMMA UsedInLevel ==
  ASSUME NEW t, IsTable(t), NEW i \in 0 .. 1
  PROVE  \A b, j : <<b, j>> \in UsedIn(t.buckets[i]) <=> <<i, b, j>> \in Used(t)
<1>1. i \in 0 .. 2
  OBVIOUS
<1>2. \A p : p \in Used(t) <=> p \in Places(t) /\ At(t, p).token = 1
  BY UsedIs
<1>3. \A b, j : <<b, j>> \in UsedIn(t.buckets[i]) <=>
                  <<i, b, j>> \in Places(t) /\ At(t, <<i, b, j>>).token = 1
  BY <1>1, UsedIs
<1> QED BY <1>2, <1>3

LEMMA SamePairs ==
  ASSUME NEW U, NEW V, \A y \in U : y = <<y[1], y[2]>>, \A y \in V : y = <<y[1], y[2]>>,
         \A b, j : <<b, j>> \in U <=> <<b, j>> \in V
  PROVE  U = V
OBVIOUS

LEMMA UsedInIs ==
  ASSUME NEW t, IsTable(t), NEW i \in 0 .. 1
  PROVE  /\ IsFiniteSet(UsedIn(t.buckets[i]))
         /\ Cardinality(UsedIn(t.buckets[i])) \in 0 .. WORD - 1
<1> DEFINE U == UsedIn(t.buckets[i])
           B == 0 .. Capacity(t, i) - 1
<1>1. Capacity(t, i) \in Nat /\ ASSOC_NUM \in Nat /\ ASSOC_NUM * Capacity(t, i) < WORD /\ WORD \in Nat
  BY CapacityIs, SizesAssumption
<1>2. DOMAIN t.buckets[i] = B
  BY DEF IsTable
<1>3. U \subseteq B \X Slots
  BY <1>2 DEF UsedIn
<1>4. IsFiniteSet(B) /\ Cardinality(B) = Capacity(t, i)
  <2> DEFINE l == Capacity(t, i) - 1
  <2>1. l \in Int /\ Capacity(t, i) = l + 1 /\ (0 > l => Capacity(t, i) = 0)
    BY <1>1
  <2> HIDE DEF l
  <2>2. IsFiniteSet(0 .. l) /\ Cardinality(0 .. l) = IF 0 > l THEN 0 ELSE l - 0 + 1
    BY <2>1, FS_Interval
  <2> QED BY <2>1, <2>2 DEF l
<1>5. IsFiniteSet(Slots) /\ Cardinality(Slots) = ASSOC_NUM
  BY <1>1, FS_Interval DEF Slots
<1> HIDE DEF B, U
<1>6. IsFiniteSet(B \X Slots) /\ Cardinality(B \X Slots) = Capacity(t, i) * ASSOC_NUM
  BY <1>4, <1>5, FS_Product
<1>7. IsFiniteSet(U) /\ Cardinality(U) <= Capacity(t, i) * ASSOC_NUM
  BY <1>3, <1>6, FS_Subset
<1>8. Cardinality(U) \in Nat
  BY <1>7, FS_CardinalityType
<1> QED BY <1>1, <1>7, <1>8 DEF U

-----------------------------------------------------------------------------
(* Taking an item into the table.                                          *)

Sound(t) == IsTable(t) /\ Clean(t) /\ Unique(t) /\ Placed(t) /\ Counted(t)

\* u is t after what lay at from went to the place to, the item to from, and the
\* places in gone were emptied.
Took(t, u, from, to, item, gone) ==
  /\ IsTable(u) /\ Like(u, t)
  /\ \A q \in Places(t) : At(u, q) =
       IF q = from THEN item
       ELSE IF q = to THEN [At(t, from) EXCEPT !.token = 1]
       ELSE IF q \in gone THEN Empty ELSE At(t, q)
  /\ \A i \in 0 .. 1 : u.level_item_num[i] =
       IF i = to[1] THEN (t.level_item_num[i] + 1) % WORD ELSE t.level_item_num[i]

\* The item is new, or comes from a place in gone.
Fits(t, item, gone) ==
  /\ item \in SlotType /\ item.token = 1 /\ (item.key = JunkKey <=> item.value = NoValue)
  /\ \A q \in gone : q \in Places(t) /\ q[1] = 2 /\ At(t, q) = item
  /\ \A q \in Used(t) : q \in gone \/ item.key = JunkKey \/ At(t, q).key # item.key

Pair(slot) == <<slot.key, slot.value>>

LEMMA TookFrom ==
  ASSUME NEW t, NEW u, NEW from, NEW to, NEW item, NEW gone, Sound(t),
         Way(t, item.key, from, to), Fits(t, item, gone), Took(t, u, from, to, item, gone),
         NEW q \in Used(u), q # from
  PROVE  \E r \in Places(t) :
           /\ r = IF q = to THEN from ELSE q
           /\ r \notin gone /\ q \notin gone /\ q \in Places(t)
           /\ Pair(At(u, q)) = Pair(At(t, r))
           /\ r \in Used(t) \/ At(u, q).key = JunkKey
<1>1. IsTable(t) /\ IsTable(u) /\ Places(u) = Places(t)
  BY LikeIs DEF Sound, Took
<1>2. q \in Places(t) /\ At(u, q).token = 1
  BY <1>1, UsedIs
<1>3. from \in Places(t) /\ to \in Places(t) /\ from[1] \in 0 .. 1 /\ to[1] \in 0 .. 1
  BY HomeIs DEF Way
<1>4. from \notin gone /\ to \notin gone
  BY <1>3 DEF Fits
<1>5. At(u, q) = IF q = to THEN [At(t, from) EXCEPT !.token = 1]
                 ELSE IF q \in gone THEN Empty ELSE At(t, q)
  BY <1>2 DEF Took
<1>6. CASE q = to
  <2>1. At(t, from) \in SlotType
    BY <1>1, <1>3, PlaceIs
  <2>2. At(u, q) = [At(t, from) EXCEPT !.token = 1]
    BY <1>5, <1>6
  <2>3. At(u, q).key = At(t, from).key /\ At(u, q).value = At(t, from).value
    BY <2>1, <2>2 DEF SlotType
  <2>4. CleanSlot(At(t, from))
    BY <1>1, <1>3, CleanIs DEF Sound
  <2>5. from \in Used(t) \/ At(u, q).key = JunkKey
    BY <1>1, <1>3, <2>3, <2>4, UsedIs DEF CleanSlot
  <2> QED BY <1>2, <1>3, <1>4, <1>6, <2>3, <2>5 DEF Pair
<1>7. CASE q # to
  <2>1. q \notin gone
    <3>1. Empty.token = 0
      BY DEF Empty
    <3> QED BY <1>2, <1>5, <1>7, <3>1
  <2>2. At(u, q) = At(t, q)
    BY <1>5, <1>7, <2>1
  <2>3. q \in Used(t)
    BY <1>1, <1>2, <2>2, UsedIs
  <2> QED BY <1>2, <1>7, <2>1, <2>2, <2>3
<1> QED BY <1>6, <1>7

LEMMA TookTo ==
  ASSUME NEW t, NEW u, NEW from, NEW to, NEW item, NEW gone, Sound(t),
         Way(t, item.key, from, to), Fits(t, item, gone), Took(t, u, from, to, item, gone),
         NEW r \in Used(t), r \notin gone
  PROVE  \E q \in Used(u) :
           q # from /\ q = (IF r = from THEN to ELSE r) /\ Pair(At(u, q)) = Pair(At(t, r))
<1>1. IsTable(t) /\ IsTable(u) /\ Places(u) = Places(t)
  BY LikeIs DEF Sound, Took
<1>2. r \in Places(t) /\ At(t, r).token = 1
  BY <1>1, UsedIs
<1>3. from \in Places(t) /\ to \in Places(t) /\ from[1] \in 0 .. 1 /\ to[1] \in 0 .. 1
      /\ At(t, to).token = 0
  BY HomeIs DEF Way
<1>4. from \notin gone /\ to \notin gone
  BY <1>3 DEF Fits
<1>5. r # to
  BY <1>2, <1>3
<1>6. CASE r = from
  <2>1. At(u, to) = [At(t, from) EXCEPT !.token = 1]
    BY <1>3, <1>5, <1>6 DEF Took
  <2>2. At(t, from) \in SlotType
    BY <1>1, <1>3, PlaceIs
  <2>3. At(u, to).token = 1 /\ At(u, to).key = At(t, r).key /\ At(u, to).value = At(t, r).value
    BY <1>6, <2>1, <2>2 DEF SlotType
  <2>4. to \in Used(u)
    BY <1>1, <1>3, <2>3, UsedIs
  <2> QED BY <1>5, <1>6, <2>3, <2>4 DEF Pair
<1>7. CASE r # from
  <2>1. At(u, r) = At(t, r)
    BY <1>2, <1>5, <1>7 DEF Took
  <2>2. r \in Used(u)
    BY <1>1, <1>2, <2>1, UsedIs
  <2> QED BY <1>7, <2>1, <2>2
<1> QED BY <1>6, <1>7

LEMMA TookItem ==
  ASSUME NEW t, NEW u, NEW from, NEW to, NEW item, NEW gone, Sound(t),
         Way(t, item.key, from, to), Fits(t, item, gone), Took(t, u, from, to, item, gone)
  PROVE  from \in Used(u) /\ At(u, from) = item
<1>1. IsTable(u) /\ Places(u) = Places(t)
  BY LikeIs DEF Took
<1>2. from \in Places(t)
  BY HomeIs DEF Way
<1>3. At(u, from) = item
  BY <1>2 DEF Took
<1>4. item.token = 1
  BY DEF Fits
<1> QED BY <1>1, <1>2, <1>3, <1>4, UsedIs

LEMMA TookStored ==
  ASSUME NEW t, NEW u, NEW from, NEW to, NEW item, NEW gone, Sound(t),
         Way(t, item.key, from, to), Fits(t, item, gone), Took(t, u, from, to, item, gone)
  PROVE  StoredItems(u) = (StoredItems(t) \cup {Pair(item)}) \ {<<JunkKey, NoValue>>}
<1> DEFINE junk == <<JunkKey, NoValue>>
<1>1. \A x : x \in StoredItems(t) <=> x # junk /\ \E q \in Used(t) : x = Pair(At(t, q))
  BY DEF StoredItems, Pair
<1>2. \A x : x \in StoredItems(u) <=> x # junk /\ \E q \in Used(u) : x = Pair(At(u, q))
  BY DEF StoredItems, Pair
<1>3. IsTable(u) /\ Places(u) = Places(t)
  BY LikeIs DEF Took
<1> HIDE DEF junk
<1>4. ASSUME NEW x, x # junk, NEW q \in Used(u), x = Pair(At(u, q)), x # Pair(item)
      PROVE  \E r \in Used(t) : x = Pair(At(t, r))
  <2>1. q # from
    BY <1>4, TookItem
  <2>2. PICK r \in Places(t) : /\ Pair(At(u, q)) = Pair(At(t, r))
                               /\ r \in Used(t) \/ At(u, q).key = JunkKey
                               /\ r = IF q = to THEN from ELSE q
    BY <2>1, TookFrom
  <2>3. At(u, q).key # JunkKey
    <3>1. CleanSlot(At(t, r))
      BY CleanIs DEF Sound
    <3>2. Pair(At(u, q)) = <<At(u, q).key, At(u, q).value>> /\ Pair(At(t, r)) = <<At(t, r).key, At(t, r).value>>
      BY DEF Pair
    <3>3. At(u, q).key = At(t, r).key /\ At(u, q).value = At(t, r).value
      BY <2>2, <3>2
    <3> QED BY <1>4, <3>1, <3>2, <3>3 DEF CleanSlot, junk
  <2> QED BY <1>4, <2>2, <2>3
<1>5. ASSUME NEW x, NEW r \in Used(t), x = Pair(At(t, r))
      PROVE  \E q \in Used(u) : x = Pair(At(u, q))
  <2>1. CASE r \in gone
    <3>1. At(t, r) = item
      BY <2>1 DEF Fits
    <3> QED BY <1>5, <3>1, TookItem
  <2>2. CASE r \notin gone
    <3>1. \E q \in Used(u) : Pair(At(u, q)) = Pair(At(t, r))
      BY <2>2, TookTo
    <3> QED BY <1>5, <3>1
  <2> QED BY <2>1, <2>2
<1>6. \E q \in Used(u) : Pair(item) = Pair(At(u, q))
  BY TookItem
<1>7. ASSUME NEW x
      PROVE  x \in StoredItems(u) <=> (x \in StoredItems(t) \/ x = Pair(item)) /\ x # junk
  BY <1>1, <1>2, <1>4, <1>5, <1>6
<1> QED BY <1>7 DEF junk

LEMMA TookUnique ==
  ASSUME NEW t, NEW u, NEW from, NEW to, NEW item, NEW gone, Sound(t),
         Way(t, item.key, from, to), Fits(t, item, gone), Took(t, u, from, to, item, gone)
  PROVE  Unique(u) /\ Placed(u) /\ Clean(u)
<1>1. IsTable(u) /\ IsTable(t) /\ Places(u) = Places(t) /\ \A k, i : IdxOf(u, k, i) = IdxOf(t, k, i)
  BY LikeIs DEF Took, Sound
<1>2. \A q \in Used(u) : q # from =>
        \E r \in Places(t) :
           /\ r = IF q = to THEN from ELSE q
           /\ r \notin gone /\ q \notin gone /\ q \in Places(t)
           /\ At(u, q).key = At(t, r).key
           /\ r \in Used(t) \/ At(u, q).key = JunkKey
  <2>1. \A x, y : Pair(x) = Pair(y) => x.key = y.key
    BY DEF Pair
  <2> QED BY <2>1, TookFrom
<1>3. At(u, from) = item
  BY TookItem
<1>4. ASSUME NEW p \in Used(u), NEW q \in Used(u), At(u, p).key = At(u, q).key,
             At(u, p).key # JunkKey, p # q, p # from
      PROVE  FALSE
  <2>1. PICK r \in Used(t) : /\ r = IF p = to THEN from ELSE p
                             /\ r \notin gone /\ At(u, p).key = At(t, r).key
    BY <1>2, <1>4
  <2>2. CASE q = from
    <3>1. At(t, r).key = item.key
      BY <1>3, <1>4, <2>1, <2>2
    <3> QED BY <1>4, <2>1, <3>1 DEF Fits
  <2>3. CASE q # from
    <3>1. PICK s \in Used(t) : /\ s = IF q = to THEN from ELSE q
                               /\ s \notin gone /\ At(u, q).key = At(t, s).key
      BY <1>2, <1>4, <2>3
    <3>2. r # s
      BY <1>4, <2>1, <2>3, <3>1
    <3> QED BY <1>4, <2>1, <3>1, <3>2 DEF Sound, Unique
  <2> QED BY <2>2, <2>3
<1>5. Unique(u)
  <2> SUFFICES ASSUME NEW p \in Used(u), NEW q \in Used(u), At(u, p).key = At(u, q).key,
                      At(u, p).key # JunkKey, p # q
               PROVE  FALSE
    BY DEF Unique
  <2>1. CASE p # from
    BY <1>4, <2>1
  <2>2. CASE p = from
    <3>1. q # from /\ At(u, q).key # JunkKey
      BY <2>2
    <3> QED BY <1>4, <3>1
  <2> QED BY <2>1, <2>2
<1>6. ASSUME NEW q \in Used(u), At(u, q).key # JunkKey, q[1] # 2
      PROVE  q[2] \in ToSet(IdxOf(u, At(u, q).key, q[1]))
  <2>1. CASE q = from
    <3>1. from[2] \in ToSet(IdxOf(t, item.key, from[1]))
      BY HomeIs DEF Way
    <3> QED BY <1>1, <1>3, <2>1, <3>1
  <2>2. CASE q # from /\ q = to
    <3>1. At(u, q).key = At(t, from).key
      BY <1>2, <2>2
    <3>2. to \in Home(t, At(t, from).key)
      BY <2>2 DEF Way
    <3> QED BY <1>1, <2>2, <3>1, <3>2, HomeIs
  <2>3. CASE q # from /\ q # to
    <3>1. q \in Used(t) /\ At(u, q).key = At(t, q).key
      BY <1>2, <1>6, <2>3
    <3>2. q[2] \in ToSet(IdxOf(t, At(t, q).key, q[1]))
      BY <1>6, <3>1 DEF Sound, Placed
    <3> QED BY <1>1, <3>1, <3>2
  <2> QED BY <2>1, <2>2, <2>3
<1>7. ASSUME NEW q \in Places(t)
      PROVE  CleanSlot(At(u, q))
  <2>1. \A r \in Places(t) : CleanSlot(At(t, r)) /\ At(t, r) \in SlotType
    BY <1>1, CleanIs, PlaceIs DEF Sound
  <2>2. CASE q = from
    BY <1>3, <2>2 DEF Fits, CleanSlot
  <2>3. CASE q # from /\ q = to
    <3>1. At(u, q) = [At(t, from) EXCEPT !.token = 1] /\ from \in Places(t)
      BY <2>3, HomeIs DEF Took, Way
    <3>2. At(u, q).key = At(t, from).key /\ At(u, q).value = At(t, from).value /\ At(u, q).token = 1
      BY <2>1, <3>1 DEF SlotType
    <3> QED BY <2>1, <3>1, <3>2 DEF CleanSlot
  <2>4. CASE q # from /\ q # to
    <3>1. At(u, q) = IF q \in gone THEN Empty ELSE At(t, q)
      BY <2>4 DEF Took
    <3>2. CleanSlot(Empty)
      BY DEF CleanSlot, Empty
    <3> QED BY <2>1, <3>1, <3>2
  <2> QED BY <2>2, <2>3, <2>4
<1>8. Clean(u)
  BY <1>1, <1>7, CleanIs
<1> QED BY <1>5, <1>6, <1>8 DEF Placed

LEMMA TookCounted ==
  ASSUME NEW t, NEW u, NEW from, NEW to, NEW item, NEW gone, Sound(t),
         Way(t, item.key, from, to), Fits(t, item, gone), Took(t, u, from, to, item, gone)
  PROVE  Counted(u)
<1> SUFFICES ASSUME \A q \in Used(u) : At(u, q).key # JunkKey, NEW i \in 0 .. 1
             PROVE  u.level_item_num[i] = Cardinality(UsedIn(u.buckets[i]))
  BY DEF Counted
<1>1. IsTable(u) /\ IsTable(t) /\ Places(u) = Places(t)
  BY LikeIs DEF Took, Sound
<1>2. \A r \in Used(t) : At(t, r).key # JunkKey
  <2> SUFFICES ASSUME NEW r \in Used(t)
               PROVE  At(t, r).key # JunkKey
    OBVIOUS
  <2>1. CASE r \in gone
    <3>1. At(t, r) = item
      BY <2>1 DEF Fits
    <3> QED BY <3>1, TookItem
  <2>2. CASE r \notin gone
    <3>1. PICK q \in Used(u) : Pair(At(u, q)) = Pair(At(t, r))
      BY <2>2, TookTo
    <3> QED BY <3>1 DEF Pair
  <2> QED BY <2>1, <2>2
<1>3. t.level_item_num[i] = Cardinality(UsedIn(t.buckets[i]))
  BY <1>2 DEF Sound, Counted
<1>4. from = to \/ from \in Used(t)
  <2>1. CASE from # to
    <3>1. to \in Used(u) /\ to \in Places(t) /\ from \in Places(t)
      <4>1. to \in Places(t) /\ from \in Places(t)
        BY HomeIs DEF Way
      <4>2. At(t, from) \in SlotType
        BY <1>1, <4>1, PlaceIs
      <4>3. At(u, to) = [At(t, from) EXCEPT !.token = 1]
        BY <2>1, <4>1 DEF Took
      <4>4. At(u, to).token = 1
        BY <4>2, <4>3 DEF SlotType
      <4> QED BY <1>1, <4>1, <4>4, UsedIs
    <3>2. At(u, to).key # JunkKey
      BY <3>1
    <3> QED BY <2>1, <3>1, <3>2, TookFrom
  <2> QED BY <2>1
<1>5. ASSUME NEW q, q[1] \in 0 .. 1
      PROVE  q \in Used(u) <=> q \in Used(t) \/ q = to
  <2>1. q \notin gone
    BY <1>5 DEF Fits
  <2>2. ASSUME q \in Used(u)
        PROVE  q \in Used(t) \/ q = to
    <3>1. CASE q = from
      BY <1>4, <3>1
    <3>2. CASE q # from
      <4>1. At(u, q).key # JunkKey
        BY <2>2
      <4> QED BY <2>2, <3>2, <4>1, TookFrom
    <3> QED BY <3>1, <3>2
  <2>3. ASSUME q \in Used(t)
        PROVE  q \in Used(u)
    <3>1. CASE q = from
      BY <3>1, TookItem
    <3>2. CASE q # from
      BY <2>1, <2>3, <3>2, TookTo
    <3> QED BY <3>1, <3>2
  <2>4. to \in Used(u)
    <3>1. CASE from = to
      BY <3>1, TookItem
    <3>2. CASE from # to
      <4>1. from \in Used(t) /\ from \notin gone
        BY <1>4, <3>2, HomeIs DEF Way, Fits
      <4> QED BY <4>1, TookTo
    <3> QED BY <3>1, <3>2
  <2> QED BY <2>2, <2>3, <2>4
<1> DEFINE V == UsedIn(t.buckets[i])
           U == UsedIn(u.buckets[i])
           x == <<to[2], to[3]>>
<1>6. to \in Places(t) /\ to[1] \in 0 .. 1 /\ to = <<to[1], to[2], to[3]>>
  BY <1>1, PlaceIs DEF Way
<1>7. \A b, j : <<b, j>> \in U <=> <<i, b, j>> \in Used(u)
  BY <1>1, UsedInLevel
<1>8. \A b, j : <<b, j>> \in V <=> <<i, b, j>> \in Used(t)
  BY <1>1, UsedInLevel
<1>9. \A b, j : <<b, j>> \in U <=> <<b, j>> \in V \/ (<<b, j>> = x /\ i = to[1])
  <2> SUFFICES ASSUME NEW b, NEW j
               PROVE  <<b, j>> \in U <=> <<b, j>> \in V \/ (<<b, j>> = x /\ i = to[1])
    OBVIOUS
  <2>1. <<i, b, j>> \in Used(u) <=> <<i, b, j>> \in Used(t) \/ <<i, b, j>> = to
    <3>1. <<i, b, j>>[1] = i
      OBVIOUS
    <3> QED BY <1>5, <3>1
  <2>2. <<i, b, j>> = to <=> <<b, j>> = x /\ i = to[1]
    BY <1>6
  <2> QED BY <1>7, <1>8, <2>1, <2>2
<1>10. /\ \A y \in U : y = <<y[1], y[2]>>
       /\ \A y \in V : y = <<y[1], y[2]>>
  BY DEF UsedIn
<1>11. /\ IsFiniteSet(V) /\ Cardinality(V) \in 0 .. WORD - 1
       /\ IsFiniteSet(U) /\ Cardinality(U) \in 0 .. WORD - 1
  BY <1>1, UsedInIs
<1> HIDE DEF U, V
<1>12. CASE i # to[1]
  <2>1. U = V
    BY <1>9, <1>10, <1>12
  <2>2. u.level_item_num[i] = t.level_item_num[i]
    BY <1>12 DEF Took
  <2> QED BY <1>3, <2>1, <2>2 DEF U, V
<1>13. CASE i = to[1]
  <2>1. U = V \cup {x}
    BY <1>9, <1>10, <1>13
  <2>2. x \notin V
    <3>1. to \notin Used(t)
      BY <1>1, UsedIs DEF Way
    <3> QED BY <1>6, <1>8, <1>13, <3>1
  <2>3. Cardinality(U) = Cardinality(V) + 1
    BY <1>11, <2>1, <2>2, FS_AddElement
  <2>4. u.level_item_num[i] = (t.level_item_num[i] + 1) % WORD
    BY <1>13 DEF Took
  <2>5. WORD \in Nat
    BY SizesAssumption
  <2>6. \A n \in 0 .. WORD - 1 : n % WORD = n
    BY <2>5
  <2> QED BY <1>3, <1>11, <2>3, <2>4, <2>6 DEF U, V
<1> QED BY <1>12, <1>13

LEMMA TookSound ==
  ASSUME NEW t, NEW u, NEW from, NEW to, NEW item, NEW gone, Sound(t),
         Way(t, item.key, from, to), Fits(t, item, gone), Took(t, u, from, to, item, gone)
  PROVE  Sound(u)
<1>1. Unique(u) /\ Placed(u) /\ Clean(u)
  BY TookUnique
<1>2. Counted(u)
  BY TookCounted
<1>3. IsTable(u)
  BY DEF Took
<1> QED BY <1>1, <1>2, <1>3 DEF Sound

LEMMA GoTakes ==
  ASSUME NEW t, IsTable(t), NEW item \in SlotType, NEW from, NEW to, Way(t, item.key, from, to),
         NEW u, u = Go(t, [from |-> from, to |-> to], item)
  PROVE  Took(t, u, from, to, item, {})
<1> DEFINE x == [At(t, from) EXCEPT !.token = 1]
           m == Put(t, to, x)
           n == Put(m, from, item)
<1>1. from \in Places(t) /\ to \in Places(t) /\ to[1] \in 0 .. 1
  BY HomeIs DEF Way
<1>2. x \in SlotType
  <2>1. At(t, from) \in SlotType
    BY <1>1, PlaceIs
  <2> QED BY <2>1 DEF SlotType
<1> HIDE DEF x
<1>3. /\ IsTable(m) /\ Like(m, t) /\ m.level_item_num = t.level_item_num
      /\ \A q \in Places(t) : At(m, q) = IF q = to THEN x ELSE At(t, q)
  BY <1>1, <1>2, PutIs
<1> HIDE DEF m
<1>4. Places(m) = Places(t)
  BY <1>3, LikeIs
<1>5. /\ IsTable(n) /\ Like(n, m) /\ n.level_item_num = m.level_item_num
      /\ \A q \in Places(t) : At(n, q) = IF q = from THEN item ELSE At(m, q)
  BY <1>1, <1>3, <1>4, PutIs
<1> HIDE DEF n
<1>6. u = Count(n, to[1], 1)
  BY DEF Go, n, m, x
<1>7. Recounted(u, n, to[1], (n.level_item_num[to[1]] + 1) % WORD)
  <2>1. 1 \in Int
    OBVIOUS
  <2> QED BY <1>1, <1>5, <1>6, <2>1, CountIs
<1>8. Like(u, t)
  BY <1>3, <1>5, <1>7 DEF Like, Recounted
<1>9. \A q \in Places(t) : At(u, q) =
        IF q = from THEN item ELSE IF q = to THEN x ELSE IF q \in {} THEN Empty ELSE At(t, q)
  BY <1>3, <1>5, <1>7 DEF Recounted
<1>10. \A i \in 0 .. 1 : u.level_item_num[i] =
         IF i = to[1] THEN (t.level_item_num[i] + 1) % WORD ELSE t.level_item_num[i]
  BY <1>3, <1>5, <1>7 DEF Recounted
<1> QED BY <1>7, <1>8, <1>9, <1>10 DEF Took, Recounted, x

LEMMA RaisingTakes ==
  ASSUME NEW t, IsTable(t), NEW item \in SlotType, NEW to, Way(t, item.key, to, to), to[1] = 0,
         NEW u, u = Count(Put(t, to, item), 0, 1)
  PROVE  Took(t, u, to, to, item, {})
<1> DEFINE m == Put(t, to, item)
<1>1. to \in Places(t)
  BY DEF Way
<1>2. /\ IsTable(m) /\ Like(m, t) /\ m.level_item_num = t.level_item_num
      /\ \A q \in Places(t) : At(m, q) = IF q = to THEN item ELSE At(t, q)
  BY <1>1, PutIs
<1> HIDE DEF m
<1>3. u = Count(m, 0, 1) /\ 0 \in 0 .. 1
  BY DEF m
<1>4. Recounted(u, m, 0, (m.level_item_num[0] + 1) % WORD)
  <2>1. 1 \in Int
    OBVIOUS
  <2> QED BY <1>2, <1>3, <2>1, CountIs
<1>5. Like(u, t)
  BY <1>2, <1>4 DEF Like, Recounted
<1>6. \A q \in Places(t) : At(u, q) =
        IF q = to THEN item
        ELSE IF q = to THEN [At(t, to) EXCEPT !.token = 1]
        ELSE IF q \in {} THEN Empty ELSE At(t, q)
  BY <1>2, <1>4 DEF Recounted
<1>7. \A i \in 0 .. 1 : u.level_item_num[i] =
         IF i = to[1] THEN (t.level_item_num[i] + 1) % WORD ELSE t.level_item_num[i]
  BY <1>2, <1>4 DEF Recounted
<1> QED BY <1>4, <1>5, <1>6, <1>7 DEF Took, Recounted

LEMMA EmptyIs == Empty \in SlotType /\ CleanSlot(Empty) /\ Empty.token = 0 /\ Empty.key = JunkKey
BY DEF Empty, SlotType, CleanSlot

\* The place of a rehashed item is emptied last.
LEMMA EmptyingTakes ==
  ASSUME NEW t, IsTable(t), NEW item, NEW from, NEW to, Way(t, item.key, from, to),
         NEW u, Took(t, u, from, to, item, {}), NEW p \in Places(t), p[1] = 2,
         NEW v, v = Put(u, p, Empty)
  PROVE  Took(t, v, from, to, item, {p})
<1>1. IsTable(u) /\ Like(u, t) /\ Places(u) = Places(t)
  BY LikeIs DEF Took
<1>2. /\ IsTable(v) /\ Like(v, u) /\ v.level_item_num = u.level_item_num
      /\ \A q \in Places(t) : At(v, q) = IF q = p THEN Empty ELSE At(u, q)
  BY <1>1, EmptyIs, PutIs
<1>3. Like(v, t)
  BY <1>1, <1>2 DEF Like
<1>4. p # from /\ p # to
  <2>1. from[1] \in 0 .. 1 /\ to[1] \in 0 .. 1
    BY HomeIs DEF Way
  <2> QED BY <2>1
<1>5. \A q \in Places(t) : At(v, q) =
        IF q = from THEN item
        ELSE IF q = to THEN [At(t, from) EXCEPT !.token = 1]
        ELSE IF q \in {p} THEN Empty ELSE At(t, q)
  BY <1>2, <1>4 DEF Took
<1>6. \A i \in 0 .. 1 : v.level_item_num[i] =
         IF i = to[1] THEN (t.level_item_num[i] + 1) % WORD ELSE t.level_item_num[i]
  BY <1>2 DEF Took
<1> QED BY <1>2, <1>3, <1>5, <1>6 DEF Took

LEMMA RehashedTakes ==
  ASSUME NEW t, IsTable(t), NEW item \in SlotType, NEW u \in Rehashed(t, item)
  PROVE  \E from, to : Way(t, item.key, from, to) /\ Took(t, u, from, to, item, {})
<1>1. item.key \in KeyType
  BY DEF SlotType, KeyType
<1>2. CASE u \in Raised(t, item)
  BY <1>1, <1>2, RaisedIs, RaisingTakes
<1>3. CASE u \in Inserted(t, item)
  <2>1. PICK from, to : Way(t, item.key, from, to)
                        /\ u = Go(t, [from |-> from, to |-> to], item)
    BY <1>1, <1>3, InsertedIs
  <2>2. Took(t, u, from, to, item, {})
    BY <2>1, GoTakes
  <2> QED BY <2>1, <2>2
<1> QED BY <1>2, <1>3 DEF Rehashed

\* The next item of the emptied level, if any.
LEMMA NextItemIs ==
  ASSUME NEW t, IsTable(t)
  PROVE  /\ \A p \in NextItem(t) : p \in Used(t) /\ p \in Places(t) /\ p[1] = 2
         /\ NextItem(t) = {} => \A p \in Used(t) : p[1] # 2
<1> DEFINE s == OldPlaces(t)
           N == Capacity(t, 2) * ASSOC_NUM
           good == {p \in ToSet(s) : At(t, p).token = 1}
<1>1. ASSOC_NUM \in Nat \ {0} /\ Capacity(t, 2) \in Nat /\ N \in Nat
  <2>1. 2 \in 0 .. 2
    OBVIOUS
  <2>2. ASSOC_NUM \in Nat \ {0} /\ Capacity(t, 2) \in Nat
    BY <2>1, CapacityIs, SizesAssumption
  <2> QED BY <2>2
<1>2. s = [n \in 1 .. N |-> <<2, (n - 1) \div ASSOC_NUM, 1 + ((n - 1) % ASSOC_NUM)>>]
  BY DEF OldPlaces
<1>3. NextItem(t) = FirstIn(s, good)
  BY DEF NextItem
<1>4. DOMAIN s = 1 .. N
  BY <1>2
<1> DEFINE A == ASSOC_NUM
<1> HIDE DEF s
<1>5. \A n \in 1 .. N : s[n] \in good <=> At(t, s[n]).token = 1
  BY <1>4 DEF ToSet
<1>6. \A n \in 1 .. N : s[n] \in Places(t) /\ s[n][1] = 2
  <2> SUFFICES ASSUME NEW n \in 1 .. N
               PROVE  s[n] \in Places(t) /\ s[n][1] = 2
    OBVIOUS
  <2>1. (n - 1) \div A \in 0 .. Capacity(t, 2) - 1 /\ 1 + ((n - 1) % A) \in 1 .. A
    <3> DEFINE c == Capacity(t, 2)
    <3>1. A \in Nat \ {0} /\ c \in Nat /\ n \in 1 .. c * A
      BY <1>1
    <3> HIDE DEF c, A
    <3>2. (n - 1) \div A \in 0 .. c - 1 /\ 1 + ((n - 1) % A) \in 1 .. A
      BY <3>1
    <3> QED BY <3>2 DEF c
  <2>2. s[n] = <<2, (n - 1) \div A, 1 + ((n - 1) % A)>>
    BY <1>2
  <2> DEFINE b == (n - 1) \div A
             j == 1 + ((n - 1) % A)
  <2>3. b \in Nat /\ b < Capacity(t, 2) /\ j \in Slots /\ s[n] = <<2, b, j>>
    BY <1>1, <2>1, <2>2 DEF Slots
  <2> HIDE DEF b, j
  <2>4. 2 \in 0 .. 2
    OBVIOUS
  <2> QED BY <2>3, <2>4 DEF Places
<1>7. \A p \in Used(t) : p[1] = 2 => \E n \in 1 .. N : s[n] = p
  <2> SUFFICES ASSUME NEW p \in Used(t), p[1] = 2
               PROVE  \E n \in 1 .. N : s[n] = p
    OBVIOUS
  <2>1. p \in Places(t)
    BY UsedIs
  <2>2. p = <<2, p[2], p[3]>> /\ p[2] \in 0 .. Capacity(t, 2) - 1 /\ p[3] \in 1 .. A
    BY <2>1, PlaceIs DEF Slots
  <2> DEFINE n == p[2] * A + p[3]
  <2>3. n \in 1 .. N /\ (n - 1) \div A = p[2] /\ (n - 1) % A = p[3] - 1
    <3> HIDE DEF A
    <3>1. A \in Nat \ {0}
      BY <1>1 DEF A
    <3> DEFINE c == Capacity(t, 2)
               b == p[2]
               j == p[3]
    <3>2. c \in Nat /\ b \in 0 .. c - 1 /\ j \in 1 .. A
      BY <1>1, <2>2
    <3>4. n = b * A + j /\ N = c * A
      BY DEF A
    <3> HIDE DEF c, b, j, n, N
    <3>3. b * A + j \in 1 .. c * A /\ ((b * A + j) - 1) \div A = b /\ ((b * A + j) - 1) % A = j - 1
      BY <3>1, <3>2, RowsAre
    <3> QED BY <3>3, <3>4 DEF b, j
  <2> HIDE DEF n
  <2>4. 1 + ((n - 1) % A) = p[3]
    BY <2>2, <2>3
  <2>5. s[n] = <<2, p[2], p[3]>>
    BY <1>2, <2>3, <2>4
  <2> QED BY <2>2, <2>3, <2>5
<1> HIDE DEF good, N
<1>8. ASSUME NEW p \in NextItem(t)
      PROVE  p \in Used(t) /\ p \in Places(t) /\ p[1] = 2
  <2>1. PICK n \in DOMAIN s : p = s[n] /\ p \in good
    BY <1>3, FirstInIs
  <2> QED BY <1>4, <1>5, <1>6, <2>1, UsedIs
<1>9. ASSUME NextItem(t) = {}, NEW p \in Used(t), p[1] = 2
      PROVE  FALSE
  <2>1. \A n \in DOMAIN s : s[n] \notin good
    BY <1>1, <1>3, <1>4, <1>9, FirstInEmpty
  <2>2. At(t, p).token = 1
    BY UsedIs
  <2> QED BY <1>4, <1>5, <1>7, <1>9, <2>1, <2>2
<1> QED BY <1>8, <1>9

\* An item comes from the emptied level: it is stored elsewhere, and nothing changes.
LEMMA RehashSound ==
  ASSUME NEW t, Sound(t), NEW p \in NextItem(t), NEW u \in Rehashed(t, At(t, p)),
         NEW v, v = Put(u, p, Empty)
  PROVE  Sound(v) /\ StoredItems(v) = StoredItems(t)
<1> DEFINE item == At(t, p)
<1>1. IsTable(t) /\ p \in Used(t) /\ p \in Places(t) /\ p[1] = 2
  BY NextItemIs DEF Sound
<1>2. item \in SlotType /\ item.token = 1 /\ CleanSlot(item)
  BY <1>1, UsedIs, PlaceIs, CleanIs DEF Sound
<1>3. PICK from, to : Way(t, item.key, from, to) /\ Took(t, u, from, to, item, {})
  BY <1>1, <1>2, RehashedTakes
<1>4. Took(t, v, from, to, item, {p})
  BY <1>1, <1>3, EmptyingTakes
<1>5. Fits(t, item, {p})
  <2>1. \A q \in Used(t) : q \in {p} \/ item.key = JunkKey \/ At(t, q).key # item.key
    BY <1>1 DEF Sound, Unique
  <2> QED BY <1>1, <1>2, <2>1 DEF Fits, CleanSlot
<1>6. Pair(item) \in StoredItems(t) \/ Pair(item) = <<JunkKey, NoValue>>
  BY <1>1 DEF StoredItems, Pair
<1>7. <<JunkKey, NoValue>> \notin StoredItems(t)
  BY DEF StoredItems
<1> HIDE DEF item
<1>8. StoredItems(v) = (StoredItems(t) \cup {Pair(item)}) \ {<<JunkKey, NoValue>>}
  BY <1>3, <1>4, <1>5, TookStored
<1>9. StoredItems(v) = StoredItems(t)
  BY <1>6, <1>7, <1>8
<1>10. Sound(v)
  BY <1>3, <1>4, <1>5, TookSound
<1> QED BY <1>9, <1>10

\* A new item is stored.
LEMMA InsertSound ==
  ASSUME NEW t, Sound(t), NEW k \in Keys, NEW v \in Values,
         \A q \in Used(t) : At(t, q).key # k, NEW u \in Inserted(t, Item(k, v))
  PROVE  Sound(u) /\ StoredItems(u) = StoredItems(t) \cup {<<k, v>>}
<1> DEFINE item == Item(k, v)
<1>1. item \in SlotType /\ item.token = 1 /\ item.key = k /\ item.value = v
      /\ u \in Inserted(t, item)
  BY DEF Item, SlotType
<1>2. k # JunkKey /\ v # NoValue /\ k \in KeyType
  BY KeysAssumption DEF KeyType
<1> HIDE DEF item
<1>3. PICK from, to : Way(t, item.key, from, to)
                      /\ u = Go(t, [from |-> from, to |-> to], item)
  <2>1. item.key \in KeyType /\ IsTable(t)
    BY <1>1, <1>2 DEF Sound
  <2>2. u \in Inserted(t, item)
    BY <1>1
  <2> QED BY ONLY <2>1, <2>2, InsertedIs
<1>4. Took(t, u, from, to, item, {})
  BY <1>1, <1>3, GoTakes DEF Sound
<1>5. Fits(t, item, {})
  BY <1>1, <1>2 DEF Fits
<1>6. StoredItems(u) = (StoredItems(t) \cup {Pair(item)}) \ {<<JunkKey, NoValue>>}
  BY <1>3, <1>4, <1>5, TookStored
<1>7. <<JunkKey, NoValue>> \notin StoredItems(t)
  BY DEF StoredItems
<1>8. Pair(item) = <<k, v>> /\ <<k, v>> # <<JunkKey, NoValue>>
  BY <1>1, <1>2 DEF Pair
<1>9. StoredItems(u) = StoredItems(t) \cup {<<k, v>>}
  BY <1>6, <1>7, <1>8
<1>10. Sound(u)
  BY <1>3, <1>4, <1>5, TookSound
<1> QED BY <1>9, <1>10

-----------------------------------------------------------------------------
(* Levels that change their place.                                         *)

Unused(buckets) ==
  \A b \in DOMAIN buckets, j \in Slots : CleanSlot(buckets[b][j]) /\ buckets[b][j].token # 1

\* Level i of u is level from[i] of t, or, where that is 3, has nothing in use.
Relevelled(t, u, from) ==
  /\ IsTable(u)
  /\ from \in [0 .. 2 -> 0 .. 3]
  /\ \A i, j \in 0 .. 2 : from[i] = from[j] /\ i # j => from[i] = 3
  /\ \A i \in 0 .. 2 :
       \/ from[i] \in 0 .. 2 /\ u.buckets[i] = t.buckets[from[i]]
       \/ from[i] = 3 /\ Unused(u.buckets[i])
  /\ \A p \in Used(t) : \E i \in 0 .. 2 : from[i] = p[1]
  /\ \A i \in 0 .. 1 :
       \/ /\ from[i] \in 0 .. 1 /\ Capacity(u, i) = Capacity(t, from[i])
          /\ u.level_item_num[i] = t.level_item_num[from[i]]
       \/ from[i] = 3 /\ u.level_item_num[i] = 0

LEMMA RelevelledFrom ==
  ASSUME NEW t, NEW u, NEW from, Sound(t), Relevelled(t, u, from), NEW q \in Used(u)
  PROVE  \E r \in Used(t) : /\ r = <<from[q[1]], q[2], q[3]>>
                            /\ At(u, q) = At(t, r) /\ q = <<q[1], q[2], q[3]>>
                            /\ q[1] \in 0 .. 2 /\ from[q[1]] \in 0 .. 2
<1>1. IsTable(t) /\ IsTable(u)
  BY DEF Sound, Relevelled
<1>2. q \in Places(u) /\ At(u, q).token = 1
  BY <1>1, UsedIs
<1> DEFINE i == q[1]
           r == <<from[i], q[2], q[3]>>
<1>3. q = <<i, q[2], q[3]>> /\ i \in 0 .. 2 /\ q[3] \in Slots /\ q[2] \in DOMAIN u.buckets[i]
  BY <1>1, <1>2, PlaceIs
<1>4. At(u, q) = u.buckets[i][q[2]][q[3]]
  BY DEF At
<1>5. from[i] \in 0 .. 2 /\ u.buckets[i] = t.buckets[from[i]]
  BY <1>2, <1>3, <1>4 DEF Relevelled, Unused
<1>6. At(t, r) = At(u, q)
  BY <1>4, <1>5 DEF At
<1>7. r \in Places(t)
  BY <1>1, <1>3, <1>5, PlaceIs
<1>8. r \in Used(t)
  BY <1>1, <1>2, <1>6, <1>7, UsedIs
<1> QED BY <1>3, <1>5, <1>6, <1>8

LEMMA RelevelledTo ==
  ASSUME NEW t, NEW u, NEW from, Sound(t), Relevelled(t, u, from), NEW r \in Used(t)
  PROVE  \E q \in Used(u) : At(u, q) = At(t, r)
<1>1. IsTable(t) /\ IsTable(u)
  BY DEF Sound, Relevelled
<1>2. r \in Places(t) /\ At(t, r).token = 1
  BY <1>1, UsedIs
<1>3. r = <<r[1], r[2], r[3]>> /\ r[1] \in 0 .. 2 /\ r[3] \in Slots /\ r[2] \in DOMAIN t.buckets[r[1]]
  BY <1>1, <1>2, PlaceIs
<1>4. PICK i \in 0 .. 2 : from[i] = r[1]
  BY DEF Relevelled
<1>5. u.buckets[i] = t.buckets[r[1]]
  <2>1. from[i] # 3
    BY <1>3, <1>4
  <2> QED BY <1>4, <2>1 DEF Relevelled
<1> DEFINE q == <<i, r[2], r[3]>>
<1>6. At(u, q) = At(t, r)
  BY <1>5 DEF At
<1>7. q \in Places(u)
  BY <1>1, <1>3, <1>5, PlaceIs
<1>8. q \in Used(u)
  BY <1>1, <1>2, <1>6, <1>7, UsedIs
<1> QED BY <1>6, <1>8

LEMMA RelevelledSound ==
  ASSUME NEW t, NEW u, NEW from, Sound(t), Relevelled(t, u, from)
  PROVE  Sound(u) /\ StoredItems(u) = StoredItems(t)
<1>1. IsTable(t) /\ IsTable(u)
  BY DEF Sound, Relevelled
<1>2. \A q \in Used(u) :
        \E r \in Used(t) : /\ r = <<from[q[1]], q[2], q[3]>>
                           /\ At(u, q) = At(t, r) /\ q = <<q[1], q[2], q[3]>>
                           /\ q[1] \in 0 .. 2 /\ from[q[1]] \in 0 .. 2
  BY RelevelledFrom
<1>3. \A r \in Used(t) : \E q \in Used(u) : At(u, q) = At(t, r)
  BY RelevelledTo
<1>4. StoredItems(u) = StoredItems(t)
  <2>1. {<<At(u, p).key, At(u, p).value>> : p \in Used(u)}
          = {<<At(t, p).key, At(t, p).value>> : p \in Used(t)}
    BY <1>2, <1>3
  <2> QED BY <2>1 DEF StoredItems
<1>5. Unique(u)
  <2> SUFFICES ASSUME NEW p \in Used(u), NEW q \in Used(u), At(u, p).key = At(u, q).key,
                      At(u, p).key # JunkKey
               PROVE  p = q
    BY DEF Unique
  <2>1. PICK r \in Used(t) : /\ r = <<from[p[1]], p[2], p[3]>>
                             /\ At(u, p) = At(t, r) /\ p = <<p[1], p[2], p[3]>>
                             /\ p[1] \in 0 .. 2 /\ from[p[1]] \in 0 .. 2
    BY <1>2
  <2>2. PICK s \in Used(t) : /\ s = <<from[q[1]], q[2], q[3]>>
                             /\ At(u, q) = At(t, s) /\ q = <<q[1], q[2], q[3]>>
                             /\ q[1] \in 0 .. 2 /\ from[q[1]] \in 0 .. 2
    BY <1>2
  <2>3. r = s
    BY <2>1, <2>2 DEF Sound, Unique
  <2>4. from[p[1]] = from[q[1]] /\ p[2] = q[2] /\ p[3] = q[3]
    BY <2>1, <2>2, <2>3
  <2>5. from[p[1]] # 3
    BY <2>1
  <2>6. p[1] = q[1]
    BY <2>1, <2>2, <2>4, <2>5 DEF Relevelled
  <2> QED BY <2>1, <2>2, <2>4, <2>6
<1>6. ASSUME NEW q \in Used(u), At(u, q).key # JunkKey, q[1] # 2
      PROVE  q[2] \in ToSet(IdxOf(u, At(u, q).key, q[1]))
  <2>1. PICK r \in Used(t) : /\ r = <<from[q[1]], q[2], q[3]>>
                             /\ At(u, q) = At(t, r)
                             /\ q[1] \in 0 .. 2 /\ from[q[1]] \in 0 .. 2
    BY <1>2
  <2>2. q[1] \in 0 .. 1 /\ from[q[1]] # 3
    BY <1>6, <2>1
  <2>3. from[q[1]] \in 0 .. 1 /\ Capacity(u, q[1]) = Capacity(t, from[q[1]])
    BY <2>2 DEF Relevelled
  <2>4. r[1] = from[q[1]] /\ r[2] = q[2] /\ r[1] # 2
    BY <2>1, <2>3
  <2>5. r[2] \in ToSet(IdxOf(t, At(t, r).key, r[1]))
    BY <1>6, <2>1, <2>4 DEF Sound, Placed
  <2>6. IdxOf(u, At(u, q).key, q[1]) = IdxOf(t, At(t, r).key, r[1])
    BY <2>1, <2>3, <2>4 DEF IdxOf
  <2> QED BY <2>4, <2>5, <2>6
<1>7. Placed(u)
  BY <1>6 DEF Placed
<1>8. Clean(u)
  <2> SUFFICES ASSUME NEW p \in Places(u)
               PROVE  CleanSlot(At(u, p))
    BY <1>1, CleanIs
  <2> DEFINE i == p[1]
  <2>1. i \in 0 .. 2 /\ p[3] \in Slots /\ p[2] \in DOMAIN u.buckets[i]
    BY <1>1, PlaceIs
  <2>2. CASE from[i] = 3
    <3>1. CleanSlot(u.buckets[i][p[2]][p[3]])
      BY <2>1, <2>2 DEF Relevelled, Unused
    <3> QED BY <3>1 DEF At
  <2>3. CASE from[i] # 3
    <3>1. from[i] \in 0 .. 2 /\ u.buckets[i] = t.buckets[from[i]]
      BY <2>1, <2>3 DEF Relevelled
    <3>2. <<from[i], p[2], p[3]>> \in Places(t)
      BY <1>1, <2>1, <3>1, PlaceIs
    <3>3. At(u, p) = At(t, <<from[i], p[2], p[3]>>)
      BY <3>1 DEF At
    <3> QED BY <1>1, <3>2, <3>3, CleanIs DEF Sound
  <2> QED BY <2>2, <2>3
<1>9. Counted(u)
  <2> SUFFICES ASSUME \A p \in Used(u) : At(u, p).key # JunkKey, NEW i \in 0 .. 1
               PROVE  u.level_item_num[i] = Cardinality(UsedIn(u.buckets[i]))
    BY DEF Counted
  <2>1. \A p \in Used(t) : At(t, p).key # JunkKey
    BY <1>3
  <2>2. CASE from[i] = 3
    <3>1. UsedIn(u.buckets[i]) = {}
      <4>1. i \in 0 .. 2
        OBVIOUS
      <4>2. \A b \in DOMAIN u.buckets[i], j \in Slots : u.buckets[i][b][j].token # 1
        BY <2>2, <4>1 DEF Relevelled, Unused
      <4> QED BY <4>2 DEF UsedIn
    <3>2. u.level_item_num[i] = 0
      BY <2>2 DEF Relevelled
    <3> QED BY <3>1, <3>2, FS_EmptySet
  <2>3. CASE from[i] # 3
    <3>1. i \in 0 .. 2
      OBVIOUS
    <3>2. from[i] \in 0 .. 1 /\ u.level_item_num[i] = t.level_item_num[from[i]]
      BY <2>3 DEF Relevelled
    <3>3. u.buckets[i] = t.buckets[from[i]]
      BY <2>3, <3>1 DEF Relevelled
    <3> QED BY <2>1, <3>2, <3>3 DEF Sound, Counted
  <2> QED BY <2>2, <2>3
<1> QED BY <1>1, <1>4, <1>5, <1>7, <1>8, <1>9 DEF Sound

LEMMA FreshIs ==
  ASSUME NEW n \in Nat, NEW new \in FreshBuckets(n)
  PROVE  /\ new \in [0 .. n - 1 -> [Slots -> SlotType]]
         /\ Unused(new)
<1>1. PICK tokens \in [Slots -> FreshTokens] :
        new = [b \in 0 .. n - 1 |->
                [j \in Slots |-> IF b = 0 THEN [Empty EXCEPT !.token = tokens[j]] ELSE Empty]]
  BY DEF FreshBuckets
<1>2. ASSUME NEW b \in 0 .. n - 1, NEW j \in Slots
      PROVE  new[b][j] \in SlotType /\ CleanSlot(new[b][j]) /\ new[b][j].token # 1
  <2>1. new[b][j] = IF b = 0 THEN [Empty EXCEPT !.token = tokens[j]] ELSE Empty
    BY <1>1
  <2>2. tokens[j] \in {0, 2}
    BY FreshAssumption
  <2> DEFINE x == [Empty EXCEPT !.token = tokens[j]]
  <2>3. x = [token |-> tokens[j], key |-> JunkKey, value |-> NoValue]
    BY DEF Empty
  <2>4. x \in SlotType /\ CleanSlot(x) /\ x.token # 1
    BY <2>2, <2>3 DEF SlotType, CleanSlot
  <2> HIDE DEF x
  <2> QED BY <2>1, <2>4, EmptyIs DEF x
<1>3. new = [b \in 0 .. n - 1 |-> [j \in Slots |-> new[b][j]]]
  BY <1>1
<1>4. new \in [0 .. n - 1 -> [Slots -> SlotType]]
  BY <1>2, <1>3
<1> QED BY <1>2, <1>4 DEF Unused

LEMMA CapacityOf ==
  ASSUME NEW t, t.level_size \in Nat
  PROVE  /\ Capacity(t, 0) = PowerOf2[t.level_size]
         /\ Capacity(t, 1) = PowerOf2[t.level_size - 1]
         /\ t.resize_state = 0 => Capacity(t, 2) = 0
         /\ t.resize_state = 1 => Capacity(t, 2) = PowerOf2[t.level_size - 2]
         /\ t.resize_state = 2 => Capacity(t, 2) = PowerOf2[t.level_size + 1]
<1>1. t.level_size - 0 = t.level_size
  OBVIOUS
<1> QED BY <1>1 DEF Capacity

\* While no level is emptied, only two levels have buckets.
LEMMA IdleUsed ==
  ASSUME NEW t, IsTable(t), t.resize_state = 0, NEW p \in Used(t)
  PROVE  p[1] \in 0 .. 1
<1>1. p \in Places(t)
  BY UsedIs
<1>2. p[1] \in 0 .. 2 /\ p[2] \in 0 .. Capacity(t, p[1]) - 1
  BY <1>1, PlaceIs
<1>3. p[1] # 2
  <2>1. Capacity(t, 2) = 0
    BY DEF Capacity
  <2> QED BY <1>2, <2>1
<1> QED BY <1>2, <1>3

LEMMA ExpandingSound ==
  ASSUME NEW t, Sound(t), t.resize_state = 0, t.level_size < MaxLevelSize,
         NEW new \in FreshBuckets(2 * Capacity(t, 0))
  PROVE  Sound(Expanding(t, new)) /\ StoredItems(Expanding(t, new)) = StoredItems(t)
<1> DEFINE u == Expanding(t, new)
           n == t.level_size
           from == [i \in 0 .. 2 |-> IF i = 0 THEN 3 ELSE i - 1]
<1>1. IsTable(t)
  BY DEF Sound
<1>2. /\ n \in MinLevelSize .. MaxLevelSize /\ n \in Nat /\ n > 1 /\ n + 1 \in MinLevelSize .. MaxLevelSize
      /\ n + 1 \in Nat /\ n + 1 > MinLevelSize /\ (n + 1) - 1 = n /\ (n + 1) - 2 = n - 1
  BY <1>1, SizesAssumption DEF IsTable
<1> HIDE DEF n
<1>3. /\ u.buckets = [i \in 0 .. 2 |-> IF i = 0 THEN new ELSE t.buckets[i - 1]]
      /\ u.level_item_num = [i \in 0 .. 1 |-> IF i = 0 THEN 0 ELSE t.level_item_num[0]]
      /\ u.level_size = n + 1
      /\ u.level_expand_time = (t.level_expand_time + 1) % 256
      /\ u.resize_state = 1
      /\ u = [buckets |-> u.buckets, level_item_num |-> u.level_item_num,
              level_size |-> u.level_size, level_expand_time |-> u.level_expand_time,
              resize_state |-> u.resize_state]
  BY DEF Expanding, n
<1> HIDE DEF u
<1>4. u.buckets[0] = new /\ u.buckets[1] = t.buckets[0] /\ u.buckets[2] = t.buckets[1]
  BY <1>3
<1>5. Capacity(u, 0) = PowerOf2[n + 1] /\ Capacity(u, 1) = PowerOf2[n] /\ Capacity(u, 2) = PowerOf2[n - 1]
  <2>1. u.level_size \in Nat
    BY <1>2, <1>3
  <2> QED BY <1>2, <1>3, <2>1, CapacityOf
<1>6. Capacity(t, 0) = PowerOf2[n] /\ Capacity(t, 1) = PowerOf2[n - 1]
  BY <1>2, CapacityOf DEF n
<1>7. Capacity(u, 0) = 2 * Capacity(t, 0) /\ Capacity(u, 1) = Capacity(t, 0) /\ Capacity(u, 2) = Capacity(t, 1)
  BY <1>2, <1>5, <1>6, PowerOf2Is
<1>8. Capacity(t, 0) \in Nat /\ 2 * Capacity(t, 0) \in Nat
  BY <1>1, CapacityIs
<1>9. /\ new \in [0 .. 2 * Capacity(t, 0) - 1 -> [Slots -> SlotType]]
      /\ Unused(new)
  BY <1>8, FreshIs
<1>10. \A i \in 0 .. 2 : i = 0 \/ i = 1 \/ i = 2
  OBVIOUS
<1>11. ASSUME NEW i \in 0 .. 2
       PROVE  u.buckets[i] \in [0 .. Capacity(u, i) - 1 -> [Slots -> SlotType]]
  <2>1. \A j \in 0 .. 2 : t.buckets[j] \in [0 .. Capacity(t, j) - 1 -> [Slots -> SlotType]]
    BY <1>1 DEF IsTable
  <2>2. /\ t.buckets[0] \in [0 .. Capacity(t, 0) - 1 -> [Slots -> SlotType]]
        /\ t.buckets[1] \in [0 .. Capacity(t, 1) - 1 -> [Slots -> SlotType]]
    BY <2>1
  <2>3. CASE i = 0
    BY <1>4, <1>7, <1>9, <2>3
  <2>4. CASE i = 1
    BY <1>4, <1>7, <2>2, <2>4
  <2>5. CASE i = 2
    BY <1>4, <1>7, <2>2, <2>5
  <2> QED BY <1>10, <2>3, <2>4, <2>5
<1>12. u.buckets = [i \in 0 .. 2 |-> u.buckets[i]]
  BY <1>3
<1>13. t.level_item_num \in [0 .. 1 -> 0 .. WORD - 1] /\ 0 \in 0 .. 1 /\ 0 \in 0 .. WORD - 1
  <2>1. t.level_item_num \in [0 .. 1 -> 0 .. WORD - 1] /\ 0 \in 0 .. 1
    BY <1>1 DEF IsTable
  <2> QED BY <2>1, SizesAssumption
<1>14. u.level_item_num \in [0 .. 1 -> 0 .. WORD - 1]
  BY <1>3, <1>13
<1>15. u.level_expand_time \in 0 .. 255
  <2>1. t.level_expand_time \in 0 .. 255
    BY <1>1 DEF IsTable
  <2>2. (t.level_expand_time + 1) % 256 \in 0 .. 255
    BY <2>1
  <2> QED BY <1>3, <2>2
<1>16. IsTable(u)
  BY <1>2, <1>3, <1>11, <1>12, <1>14, <1>15 DEF IsTable
<1>17. from \in [0 .. 2 -> 0 .. 3] /\ from[0] = 3 /\ from[1] = 0 /\ from[2] = 1
  <2>1. \A i \in 0 .. 2 : (IF i = 0 THEN 3 ELSE i - 1) \in 0 .. 3
    OBVIOUS
  <2> QED BY <2>1
<1> HIDE DEF from
<1>18. \A p \in Used(t) : p[1] \in 0 .. 1
  BY <1>1, IdleUsed
<1>19. Relevelled(t, u, from)
  <2>1. \A i, j \in 0 .. 2 : from[i] = from[j] /\ i # j => from[i] = 3
    BY <1>10, <1>17
  <2>2. \A i \in 0 .. 2 :
          \/ from[i] \in 0 .. 2 /\ u.buckets[i] = t.buckets[from[i]]
          \/ from[i] = 3 /\ Unused(u.buckets[i])
    BY <1>4, <1>9, <1>10, <1>17
  <2>3. \A p \in Used(t) : \E i \in 0 .. 2 : from[i] = p[1]
    <3>1. \A l \in 0 .. 1 : l = 0 \/ l = 1
      OBVIOUS
    <3>2. 1 \in 0 .. 2 /\ 2 \in 0 .. 2
      OBVIOUS
    <3> QED BY <1>17, <1>18, <3>1, <3>2
  <2>4. \A i \in 0 .. 1 :
          \/ /\ from[i] \in 0 .. 1 /\ Capacity(u, i) = Capacity(t, from[i])
             /\ u.level_item_num[i] = t.level_item_num[from[i]]
          \/ from[i] = 3 /\ u.level_item_num[i] = 0
    <3>1. u.level_item_num[0] = 0 /\ u.level_item_num[1] = t.level_item_num[0]
      BY <1>3
    <3>2. \A i \in 0 .. 1 : i = 0 \/ i = 1
      OBVIOUS
    <3> QED BY <1>7, <1>17, <3>1, <3>2
  <2> QED BY <1>16, <1>17, <2>1, <2>2, <2>3, <2>4 DEF Relevelled
<1> QED BY <1>19, RelevelledSound DEF u

LEMMA ShrinkingSound ==
  ASSUME NEW t, Sound(t), t.resize_state = 0, t.level_size > MinLevelSize,
         NEW new \in FreshBuckets(Capacity(t, 1) \div 2)
  PROVE  Sound(Shrinking(t, new)) /\ StoredItems(Shrinking(t, new)) = StoredItems(t)
<1> DEFINE u == Shrinking(t, new)
           n == t.level_size
           from == [i \in 0 .. 2 |-> CASE i = 0 -> 1 [] i = 1 -> 3 [] i = 2 -> 0]
<1>1. IsTable(t)
  BY DEF Sound
<1>2. /\ n \in Nat /\ n > 2 /\ n - 1 \in MinLevelSize .. MaxLevelSize
      /\ n - 1 \in Nat /\ (n - 1) - 1 = n - 2 /\ (n - 1) + 1 = n /\ n - 2 \in Nat
      /\ (n - 2) + 1 = n - 1
  BY <1>1, SizesAssumption DEF IsTable
<1> HIDE DEF n
<1>3. /\ u.buckets = [i \in 0 .. 2 |->
                       CASE i = 0 -> t.buckets[1] [] i = 1 -> new [] i = 2 -> t.buckets[0]]
      /\ u.level_item_num = [i \in 0 .. 1 |-> IF i = 0 THEN t.level_item_num[1] ELSE 0]
      /\ u.level_size = n - 1
      /\ u.level_expand_time = t.level_expand_time
      /\ u.resize_state = 2
      /\ u = [buckets |-> u.buckets, level_item_num |-> u.level_item_num,
              level_size |-> u.level_size, level_expand_time |-> u.level_expand_time,
              resize_state |-> u.resize_state]
  BY DEF Shrinking, n
<1> HIDE DEF u
<1>4. u.buckets[0] = t.buckets[1] /\ u.buckets[1] = new /\ u.buckets[2] = t.buckets[0]
  BY <1>3
<1>5. Capacity(u, 0) = PowerOf2[n - 1] /\ Capacity(u, 1) = PowerOf2[n - 2] /\ Capacity(u, 2) = PowerOf2[n]
  <2>1. u.level_size \in Nat
    BY <1>2, <1>3
  <2> QED BY <1>2, <1>3, <2>1, CapacityOf
<1>6. Capacity(t, 0) = PowerOf2[n] /\ Capacity(t, 1) = PowerOf2[n - 1]
  BY <1>2, CapacityOf DEF n
<1>7. Capacity(u, 0) = Capacity(t, 1) /\ Capacity(u, 2) = Capacity(t, 0)
  BY <1>5, <1>6
<1>8. Capacity(u, 1) = Capacity(t, 1) \div 2 /\ Capacity(t, 1) \div 2 \in Nat
  <2>1. PowerOf2[n - 2] \in Nat /\ PowerOf2[(n - 2) + 1] = 2 * PowerOf2[n - 2]
    BY <1>2, PowerOf2Is
  <2>2. PowerOf2[n - 1] = 2 * PowerOf2[n - 2]
    BY <1>2, <2>1
  <2>3. \A m \in Nat : (2 * m) \div 2 = m
    OBVIOUS
  <2> QED BY <1>5, <1>6, <2>1, <2>2, <2>3
<1>9. /\ new \in [0 .. (Capacity(t, 1) \div 2) - 1 -> [Slots -> SlotType]]
      /\ Unused(new)
  BY <1>8, FreshIs
<1>10. \A i \in 0 .. 2 : i = 0 \/ i = 1 \/ i = 2
  OBVIOUS
<1>11. ASSUME NEW i \in 0 .. 2
       PROVE  u.buckets[i] \in [0 .. Capacity(u, i) - 1 -> [Slots -> SlotType]]
  <2>1. \A j \in 0 .. 2 : t.buckets[j] \in [0 .. Capacity(t, j) - 1 -> [Slots -> SlotType]]
    BY <1>1 DEF IsTable
  <2>2. /\ t.buckets[0] \in [0 .. Capacity(t, 0) - 1 -> [Slots -> SlotType]]
        /\ t.buckets[1] \in [0 .. Capacity(t, 1) - 1 -> [Slots -> SlotType]]
    BY <2>1
  <2>3. CASE i = 0
    BY <1>4, <1>7, <2>2, <2>3
  <2>4. CASE i = 1
    BY <1>4, <1>8, <1>9, <2>4
  <2>5. CASE i = 2
    BY <1>4, <1>7, <2>2, <2>5
  <2> QED BY <1>10, <2>3, <2>4, <2>5
<1>12. u.buckets = [i \in 0 .. 2 |-> u.buckets[i]]
  BY <1>3
<1>13. t.level_item_num \in [0 .. 1 -> 0 .. WORD - 1] /\ 1 \in 0 .. 1 /\ 0 \in 0 .. WORD - 1
  <2>1. t.level_item_num \in [0 .. 1 -> 0 .. WORD - 1] /\ 1 \in 0 .. 1
    BY <1>1 DEF IsTable
  <2> QED BY <2>1, SizesAssumption
<1>14. u.level_item_num \in [0 .. 1 -> 0 .. WORD - 1]
  BY <1>3, <1>13
<1>15. IsTable(u)
  <2>1. t.level_expand_time \in 0 .. 255
    BY <1>1 DEF IsTable
  <2> QED BY <1>2, <1>3, <1>11, <1>12, <1>14, <2>1 DEF IsTable
<1>16. from \in [0 .. 2 -> 0 .. 3] /\ from[0] = 1 /\ from[1] = 3 /\ from[2] = 0
  <2>1. \A i \in 0 .. 2 : (CASE i = 0 -> 1 [] i = 1 -> 3 [] i = 2 -> 0) \in 0 .. 3
    BY <1>10
  <2> QED BY <2>1
<1> HIDE DEF from
<1>17. \A p \in Used(t) : p[1] \in 0 .. 1
  BY <1>1, IdleUsed
<1>18. Relevelled(t, u, from)
  <2>1. \A i, j \in 0 .. 2 : from[i] = from[j] /\ i # j => from[i] = 3
    BY <1>10, <1>16
  <2>2. \A i \in 0 .. 2 :
          \/ from[i] \in 0 .. 2 /\ u.buckets[i] = t.buckets[from[i]]
          \/ from[i] = 3 /\ Unused(u.buckets[i])
    BY <1>4, <1>9, <1>10, <1>16
  <2>3. \A p \in Used(t) : \E i \in 0 .. 2 : from[i] = p[1]
    <3>1. \A l \in 0 .. 1 : l = 0 \/ l = 1
      OBVIOUS
    <3>2. 0 \in 0 .. 2 /\ 2 \in 0 .. 2
      OBVIOUS
    <3> QED BY <1>16, <1>17, <3>1, <3>2
  <2>4. \A i \in 0 .. 1 :
          \/ /\ from[i] \in 0 .. 1 /\ Capacity(u, i) = Capacity(t, from[i])
             /\ u.level_item_num[i] = t.level_item_num[from[i]]
          \/ from[i] = 3 /\ u.level_item_num[i] = 0
    <3>1. u.level_item_num[0] = t.level_item_num[1] /\ u.level_item_num[1] = 0
      BY <1>3
    <3>2. \A i \in 0 .. 1 : i = 0 \/ i = 1
      OBVIOUS
    <3> QED BY <1>7, <1>16, <3>1, <3>2
  <2> QED BY <1>15, <1>16, <2>1, <2>2, <2>3, <2>4 DEF Relevelled
<1> QED BY <1>18, RelevelledSound DEF u

LEMMA ResizedSound ==
  ASSUME NEW t, Sound(t), NextItem(t) = {}, NEW u,
         u = [t EXCEPT !.buckets[2] = <<>>,
                       !.level_expand_time = IF t.resize_state = 2 THEN 0 ELSE t.level_expand_time,
                       !.resize_state = 0]
  PROVE  Sound(u) /\ StoredItems(u) = StoredItems(t)
<1> DEFINE n == t.level_size
           from == [i \in 0 .. 2 |-> IF i = 2 THEN 3 ELSE i]
<1>1. IsTable(t)
  BY DEF Sound
<1>2. /\ u.level_item_num = t.level_item_num /\ u.level_size = n
      /\ u.level_expand_time \in 0 .. 255 /\ u.resize_state = 0
      /\ u.buckets = [i \in 0 .. 2 |-> IF i = 2 THEN <<>> ELSE t.buckets[i]]
      /\ u = [buckets |-> u.buckets, level_item_num |-> u.level_item_num,
              level_size |-> u.level_size, level_expand_time |-> u.level_expand_time,
              resize_state |-> u.resize_state]
  <2> DEFINE B == [t.buckets EXCEPT ![2] = <<>>]
             e == IF t.resize_state = 2 THEN 0 ELSE t.level_expand_time
  <2>1. t = [buckets |-> [i \in 0 .. 2 |-> t.buckets[i]], level_item_num |-> t.level_item_num,
             level_size |-> t.level_size, level_expand_time |-> t.level_expand_time,
             resize_state |-> t.resize_state]
    BY <1>1 DEF IsTable
  <2>2. t.buckets = [i \in 0 .. 2 |-> t.buckets[i]]
    BY <2>1
  <2>3. B = [i \in 0 .. 2 |-> IF i = 2 THEN <<>> ELSE t.buckets[i]]
    BY <2>2
  <2>4. e \in 0 .. 255
    BY <1>1 DEF IsTable
  <2>5. u = [t EXCEPT !.buckets = B, !.level_expand_time = e, !.resize_state = 0]
    OBVIOUS
  <2> HIDE DEF B, e
  <2>6. u = [buckets |-> B, level_item_num |-> t.level_item_num, level_size |-> t.level_size,
             level_expand_time |-> e, resize_state |-> 0]
    BY <2>1, <2>5
  <2>7. /\ u.buckets = B /\ u.level_item_num = t.level_item_num /\ u.level_size = n
        /\ u.level_expand_time = e /\ u.resize_state = 0
    BY ONLY <2>6
  <2>8. u = [buckets |-> u.buckets, level_item_num |-> u.level_item_num,
             level_size |-> u.level_size, level_expand_time |-> u.level_expand_time,
             resize_state |-> u.resize_state]
    BY ONLY <2>6
  <2> QED BY ONLY <2>3, <2>4, <2>7, <2>8
<1>3. n \in Nat /\ n \in MinLevelSize .. MaxLevelSize
  BY <1>1, SizesAssumption DEF IsTable
<1> HIDE DEF n
<1>4. Capacity(u, 0) = Capacity(t, 0) /\ Capacity(u, 1) = Capacity(t, 1) /\ Capacity(u, 2) = 0
  BY <1>2, <1>3, CapacityOf DEF n
<1>5. u.buckets[0] = t.buckets[0] /\ u.buckets[1] = t.buckets[1] /\ u.buckets[2] = <<>>
  BY <1>2
<1>6. \A i \in 0 .. 2 : i = 0 \/ i = 1 \/ i = 2
  OBVIOUS
<1>7. DOMAIN <<>> = {} /\ <<>> \in [0 .. 0 - 1 -> [Slots -> SlotType]]
  <2>1. 0 .. 0 - 1 = {}
    OBVIOUS
  <2>2. <<>> \in [{} -> [Slots -> SlotType]]
    OBVIOUS
  <2> QED BY <2>1, <2>2
<1>8. ASSUME NEW i \in 0 .. 2
      PROVE  u.buckets[i] \in [0 .. Capacity(u, i) - 1 -> [Slots -> SlotType]]
  <2>1. \A j \in 0 .. 2 : t.buckets[j] \in [0 .. Capacity(t, j) - 1 -> [Slots -> SlotType]]
    BY <1>1 DEF IsTable
  <2>2. /\ t.buckets[0] \in [0 .. Capacity(t, 0) - 1 -> [Slots -> SlotType]]
        /\ t.buckets[1] \in [0 .. Capacity(t, 1) - 1 -> [Slots -> SlotType]]
    BY <2>1
  <2>3. CASE i = 0
    BY <1>4, <1>5, <2>2, <2>3
  <2>4. CASE i = 1
    BY <1>4, <1>5, <2>2, <2>4
  <2>5. CASE i = 2
    BY <1>4, <1>5, <1>7, <2>5
  <2> QED BY <1>6, <2>3, <2>4, <2>5
<1>9. u.buckets = [i \in 0 .. 2 |-> u.buckets[i]]
  BY <1>2
<1>10. IsTable(u)
  <2>1. u.level_item_num \in [0 .. 1 -> 0 .. WORD - 1]
    BY <1>1, <1>2 DEF IsTable
  <2> QED BY <1>2, <1>3, <1>8, <1>9, <2>1 DEF IsTable
<1>11. from \in [0 .. 2 -> 0 .. 3] /\ from[0] = 0 /\ from[1] = 1 /\ from[2] = 3
  <2>1. \A i \in 0 .. 2 : (IF i = 2 THEN 3 ELSE i) \in 0 .. 3
    OBVIOUS
  <2> QED BY <2>1
<1> HIDE DEF from
<1>12. \A p \in Used(t) : p[1] \in 0 .. 2 /\ p[1] # 2
  BY <1>1, NextItemIs, UsedIs, PlaceIs
<1>13. Relevelled(t, u, from)
  <2>1. \A i, j \in 0 .. 2 : from[i] = from[j] /\ i # j => from[i] = 3
    BY <1>6, <1>11
  <2>2. \A i \in 0 .. 2 :
          \/ from[i] \in 0 .. 2 /\ u.buckets[i] = t.buckets[from[i]]
          \/ from[i] = 3 /\ Unused(u.buckets[i])
    <3>1. Unused(<<>>)
      BY <1>7 DEF Unused
    <3> QED BY <1>5, <1>6, <1>11, <3>1
  <2>3. \A p \in Used(t) : \E i \in 0 .. 2 : from[i] = p[1]
    BY <1>6, <1>11, <1>12
  <2>4. \A i \in 0 .. 1 :
          \/ /\ from[i] \in 0 .. 1 /\ Capacity(u, i) = Capacity(t, from[i])
             /\ u.level_item_num[i] = t.level_item_num[from[i]]
          \/ from[i] = 3 /\ u.level_item_num[i] = 0
    <3>1. \A i \in 0 .. 1 : i = 0 \/ i = 1
      OBVIOUS
    <3> QED BY <1>2, <1>4, <1>11, <3>1
  <2> QED BY <1>10, <1>11, <2>1, <2>2, <2>3, <2>4 DEF Relevelled
<1> QED BY <1>13, RelevelledSound

-----------------------------------------------------------------------------
(* Changing one item.                                                      *)

\* The place p of t, which holds an item with the key k, was given the slot x.
Replaced(t, u, p, k, x) ==
  /\ IsTable(u) /\ Like(u, t)
  /\ p \in Used(t) /\ p[1] \in 0 .. 1 /\ At(t, p).key = k /\ k \in Keys
  /\ CleanSlot(x)
  /\ \A q \in Places(t) : At(u, q) = IF q = p THEN x ELSE At(t, q)

OfKey(items, k) == {item \in items : item[1] = k}

LEMMA StoredOfKey ==
  ASSUME NEW t, NEW k
  PROVE  \A x : x \in OfKey(StoredItems(t), k) <=>
           x # <<JunkKey, NoValue>> /\ \E q \in Used(t) : x = Pair(At(t, q)) /\ At(t, q).key = k
<1>1. \A x : x \in StoredItems(t) <=>
        x # <<JunkKey, NoValue>> /\ \E q \in Used(t) : x = Pair(At(t, q))
  BY DEF StoredItems, Pair
<1>2. \A slot : Pair(slot)[1] = slot.key
  BY DEF Pair
<1> QED BY <1>1, <1>2 DEF OfKey

LEMMA DeletedSound ==
  ASSUME NEW t, NEW u, NEW p, NEW k, Sound(t), Replaced(t, u, p, k, Empty),
         \A i \in 0 .. 1 : u.level_item_num[i] =
           IF i = p[1] THEN (t.level_item_num[i] - 1) % WORD ELSE t.level_item_num[i]
  PROVE  Sound(u) /\ StoredItems(u) = StoredItems(t) \ OfKey(StoredItems(t), k)
<1>1. IsTable(t) /\ IsTable(u) /\ Places(u) = Places(t) /\ \A l, i : IdxOf(u, l, i) = IdxOf(t, l, i)
  BY LikeIs DEF Sound, Replaced
<1>2. p \in Used(t) /\ p \in Places(t) /\ p[1] \in 0 .. 1 /\ At(t, p).key = k /\ k # JunkKey
  BY <1>1, UsedIs, KeysAssumption DEF Replaced
<1>3. ASSUME NEW q
      PROVE  q \in Used(u) <=> q \in Used(t) /\ q # p
  BY <1>1, <1>2, UsedIs, EmptyIs DEF Replaced
<1>4. \A q \in Used(u) : At(u, q) = At(t, q)
  BY <1>1, <1>3, UsedIs DEF Replaced
<1>5. Unique(u)
  BY <1>3, <1>4 DEF Sound, Unique
<1>6. Placed(u)
  BY <1>1, <1>3, <1>4 DEF Sound, Placed
<1>7. Clean(u)
  <2>1. \A q \in Places(t) : CleanSlot(At(t, q))
    BY <1>1, CleanIs DEF Sound
  <2>2. \A q \in Places(u) : CleanSlot(At(u, q))
    BY <1>1, <2>1 DEF Replaced
  <2> QED BY <1>1, <2>2, CleanIs
<1>8. Counted(u)
  <2> SUFFICES ASSUME \A q \in Used(u) : At(u, q).key # JunkKey, NEW i \in 0 .. 1
               PROVE  u.level_item_num[i] = Cardinality(UsedIn(u.buckets[i]))
    BY DEF Counted
  <2> DEFINE V == UsedIn(t.buckets[i])
             U == UsedIn(u.buckets[i])
             x == <<p[2], p[3]>>
  <2>1. \A q \in Used(t) : At(t, q).key # JunkKey
    BY <1>2, <1>3, <1>4
  <2>2. t.level_item_num[i] = Cardinality(V)
    BY <2>1 DEF Sound, Counted
  <2>3. \A b, j : <<b, j>> \in U <=> <<i, b, j>> \in Used(u)
    BY <1>1, UsedInLevel
  <2>4. \A b, j : <<b, j>> \in V <=> <<i, b, j>> \in Used(t)
    BY <1>1, UsedInLevel
  <2>5. p = <<p[1], p[2], p[3]>>
    BY <1>1, <1>2, PlaceIs
  <2>6. \A b, j : <<b, j>> \in U <=> <<b, j>> \in V /\ ~ (<<b, j>> = x /\ i = p[1])
    <3> SUFFICES ASSUME NEW b, NEW j
                 PROVE  <<b, j>> \in U <=> <<b, j>> \in V /\ ~ (<<b, j>> = x /\ i = p[1])
      OBVIOUS
    <3>1. <<i, b, j>> = p <=> <<b, j>> = x /\ i = p[1]
      BY <2>5
    <3> QED BY <1>3, <2>3, <2>4, <3>1
  <2>7. (\A y \in U : y = <<y[1], y[2]>>) /\ (\A y \in V : y = <<y[1], y[2]>>)
    BY DEF UsedIn
  <2>8. /\ IsFiniteSet(V) /\ Cardinality(V) \in 0 .. WORD - 1
        /\ IsFiniteSet(U) /\ Cardinality(U) \in 0 .. WORD - 1
    BY <1>1, UsedInIs
  <2> HIDE DEF U, V
  <2>9. CASE i # p[1]
    <3>3. \A b, j : <<b, j>> \in U <=> <<b, j>> \in V
      BY <2>6, <2>9
    <3>1. U = V
      BY <2>7, <3>3, SamePairs
    <3>2. u.level_item_num[i] = t.level_item_num[i]
      BY <2>9
    <3> QED BY <2>2, <3>1, <3>2 DEF U
  <2>10. CASE i = p[1]
    <3>1. U = V \ {x}
      BY <2>6, <2>7, <2>10
    <3>2. x \in V
      BY <1>2, <2>4, <2>5, <2>10
    <3>3. Cardinality(U) = Cardinality(V) - 1
      BY <2>8, <3>1, <3>2, FS_RemoveElement
    <3>4. u.level_item_num[i] = (t.level_item_num[i] - 1) % WORD
      BY <2>10
    <3>5. \A n \in 0 .. WORD - 1 : n % WORD = n
      BY SizesAssumption
    <3> QED BY <2>2, <2>8, <3>3, <3>4, <3>5 DEF U
  <2> QED BY <2>9, <2>10
<1>9. ASSUME NEW x
      PROVE  x \in StoredItems(u) <=> x \in StoredItems(t) /\ x \notin OfKey(StoredItems(t), k)
  <2>1. x \in StoredItems(u) <=>
          x # <<JunkKey, NoValue>> /\ \E q \in Used(u) : x = Pair(At(u, q))
    BY DEF StoredItems, Pair
  <2>2. x \in StoredItems(t) <=>
          x # <<JunkKey, NoValue>> /\ \E q \in Used(t) : x = Pair(At(t, q))
    BY DEF StoredItems, Pair
  <2>3. \A q \in Used(t) : At(t, q).key = k => q = p
    BY <1>2 DEF Sound, Unique
  <2>4. x \in OfKey(StoredItems(t), k) <=>
          x # <<JunkKey, NoValue>> /\ \E q \in Used(t) : x = Pair(At(t, q)) /\ At(t, q).key = k
    BY StoredOfKey
  <2>5. \A q, r : Pair(At(t, q)) = Pair(At(t, r)) => At(t, q).key = At(t, r).key
    BY DEF Pair
  <2> QED BY <1>2, <1>3, <1>4, <2>1, <2>2, <2>3, <2>4, <2>5
<1>10. Sound(u)
  BY <1>1, <1>5, <1>6, <1>7, <1>8 DEF Sound
<1> QED BY <1>9, <1>10

LEMMA UpdatedSound ==
  ASSUME NEW t, NEW u, NEW p, NEW k, NEW v, Sound(t), Replaced(t, u, p, k, Item(k, v)),
         u.level_item_num = t.level_item_num
  PROVE  /\ Sound(u)
         /\ StoredItems(u) = (StoredItems(t) \ OfKey(StoredItems(t), k)) \cup {<<k, v>>}
<1>1. IsTable(t) /\ IsTable(u) /\ Places(u) = Places(t) /\ \A l, i : IdxOf(u, l, i) = IdxOf(t, l, i)
  BY LikeIs DEF Sound, Replaced
<1>2. p \in Used(t) /\ p \in Places(t) /\ p[1] \in 0 .. 1 /\ At(t, p).key = k /\ k # JunkKey
  BY <1>1, UsedIs, KeysAssumption DEF Replaced
<1>3. Item(k, v).token = 1 /\ Item(k, v).key = k /\ Pair(Item(k, v)) = <<k, v>>
  BY DEF Item, Pair
<1>4. At(u, p) = Item(k, v) /\ At(t, p).token = 1
  BY <1>1, <1>2, UsedIs DEF Replaced
<1>5. \A q : q \in Used(u) <=> q \in Used(t)
  BY <1>1, <1>2, <1>3, <1>4, UsedIs DEF Replaced
<1>6. \A q \in Used(u) : q # p => At(u, q) = At(t, q)
  BY <1>1, UsedIs DEF Replaced
<1>7. \A q \in Used(u) : At(u, q).key = At(t, q).key
  BY <1>2, <1>3, <1>4, <1>6
<1>8. Unique(u)
  BY <1>5, <1>7 DEF Sound, Unique
<1>9. Placed(u)
  BY <1>1, <1>5, <1>7 DEF Sound, Placed
<1>10. Clean(u)
  <2>1. \A q \in Places(t) : CleanSlot(At(t, q))
    BY <1>1, CleanIs DEF Sound
  <2>2. \A q \in Places(u) : CleanSlot(At(u, q))
    BY <1>1, <2>1 DEF Replaced
  <2> QED BY <1>1, <2>2, CleanIs
<1>11. Counted(u)
  <2> SUFFICES ASSUME \A q \in Used(u) : At(u, q).key # JunkKey, NEW i \in 0 .. 1
               PROVE  u.level_item_num[i] = Cardinality(UsedIn(u.buckets[i]))
    BY DEF Counted
  <2>1. \A q \in Used(t) : At(t, q).key # JunkKey
    BY <1>5, <1>7
  <2>2. t.level_item_num[i] = Cardinality(UsedIn(t.buckets[i]))
    BY <2>1 DEF Sound, Counted
  <2>3. \A b, j : <<b, j>> \in UsedIn(u.buckets[i]) <=> <<i, b, j>> \in Used(u)
    BY <1>1, UsedInLevel
  <2>4. \A b, j : <<b, j>> \in UsedIn(t.buckets[i]) <=> <<i, b, j>> \in Used(t)
    BY <1>1, UsedInLevel
  <2>5. /\ \A y \in UsedIn(u.buckets[i]) : y = <<y[1], y[2]>>
        /\ \A y \in UsedIn(t.buckets[i]) : y = <<y[1], y[2]>>
    BY DEF UsedIn
  <2>6. \A b, j : <<b, j>> \in UsedIn(u.buckets[i]) <=> <<b, j>> \in UsedIn(t.buckets[i])
    BY <1>5, <2>3, <2>4
  <2>7. UsedIn(u.buckets[i]) = UsedIn(t.buckets[i])
    BY <2>5, <2>6, SamePairs
  <2> QED BY <2>2, <2>7
<1>12. ASSUME NEW x
       PROVE  x \in StoredItems(u) <=>
                (x \in StoredItems(t) /\ x \notin OfKey(StoredItems(t), k)) \/ x = <<k, v>>
  <2>1. x \in StoredItems(u) <=>
          x # <<JunkKey, NoValue>> /\ \E q \in Used(u) : x = Pair(At(u, q))
    BY DEF StoredItems, Pair
  <2>2. x \in StoredItems(t) <=>
          x # <<JunkKey, NoValue>> /\ \E q \in Used(t) : x = Pair(At(t, q))
    BY DEF StoredItems, Pair
  <2>3. \A q \in Used(t) : At(t, q).key = k => q = p
    BY <1>2 DEF Sound, Unique
  <2>4. x \in OfKey(StoredItems(t), k) <=>
          x # <<JunkKey, NoValue>> /\ \E q \in Used(t) : x = Pair(At(t, q)) /\ At(t, q).key = k
    BY StoredOfKey
  <2>5. \A q, r : Pair(At(t, q)) = Pair(At(t, r)) => At(t, q).key = At(t, r).key
    BY DEF Pair
  <2>6. <<k, v>> # <<JunkKey, NoValue>>
    BY <1>2
  <2> QED BY <1>2, <1>3, <1>4, <1>5, <1>6, <2>1, <2>2, <2>3, <2>4, <2>5, <2>6
<1>13. Sound(u)
  BY <1>1, <1>8, <1>9, <1>10, <1>11 DEF Sound
<1> QED BY <1>12, <1>13

\* Where a search finds a key, and what it means when it does not.
LEMMA FoundIs ==
  ASSUME NEW t, Sound(t), t.resize_state = 0, NEW k \in Keys,
         NEW places, HomeSearched(places, t, k)
  PROVE  /\ \A p \in Find(t, places, k) :
              /\ p \in Used(t) /\ p \in Places(t) /\ p[1] \in 0 .. 1 /\ At(t, p).key = k
              /\ At(t, p).value # NoValue /\ <<k, At(t, p).value>> \in StoredItems(t)
         /\ Find(t, places, k) = {} => \A q \in Used(t) : At(t, q).key # k
<1>1. IsTable(t) /\ k # JunkKey
  BY KeysAssumption DEF Sound
<1>2. /\ \A p \in Find(t, places, k) : p \in Home(t, k) /\ Holds(t, p, k)
      /\ Find(t, places, k) = {} => \A p \in Home(t, k) : ~Holds(t, p, k)
  BY FindIs
<1>3. ASSUME NEW p \in Find(t, places, k)
      PROVE  /\ p \in Used(t) /\ p \in Places(t) /\ p[1] \in 0 .. 1 /\ At(t, p).key = k
             /\ At(t, p).value # NoValue /\ <<k, At(t, p).value>> \in StoredItems(t)
  <2>1. p \in Places(t) /\ p[1] \in 0 .. 1 /\ At(t, p).token = 1 /\ At(t, p).key = k
    BY <1>2, <1>3, HomeIs DEF Holds
  <2>2. p \in Used(t)
    BY <1>1, <2>1, UsedIs
  <2>3. At(t, p).value # NoValue
    BY <1>1, <2>1, CleanIs DEF Sound, CleanSlot
  <2>4. <<k, At(t, p).value>> \in StoredItems(t)
    BY <1>1, <2>1, <2>2 DEF StoredItems
  <2> QED BY <2>1, <2>2, <2>3, <2>4
<1>4. ASSUME Find(t, places, k) = {}, NEW q \in Used(t), At(t, q).key = k
      PROVE  FALSE
  <2>1. q \in Places(t) /\ At(t, q).token = 1 /\ q[1] \in 0 .. 1
    BY <1>1, UsedIs, IdleUsed
  <2>2. q[2] \in ToSet(IdxOf(t, k, q[1]))
    BY <1>1, <1>4, <2>1 DEF Sound, Placed
  <2>3. q[1] = 0 \/ q[1] = 1
    BY <2>1
  <2>4. q \in Home(t, k)
    BY <2>1, <2>2, <2>3 DEF Home, KeyPlaces
  <2> QED BY <1>2, <1>4, <2>1, <2>4 DEF Holds
<1> QED BY <1>3, <1>4

LEMMA StaticFoundIs ==
  ASSUME NEW t, Sound(t), t.resize_state = 0, NEW k \in Keys
  PROVE  /\ \A p \in Find(t, StaticPlaces(t, k), k) :
              p \in Used(t) /\ p \in Places(t) /\ p[1] \in 0 .. 1 /\ At(t, p).key = k
         /\ Find(t, StaticPlaces(t, k), k) = {} => \A q \in Used(t) : At(t, q).key # k
         /\ Find(t, StaticPlaces(t, k), k) # {} => OfKey(StoredItems(t), k) # {}
         /\ Find(t, StaticPlaces(t, k), k) = {} => OfKey(StoredItems(t), k) = {}
<1>1. HomeSearched(StaticPlaces(t, k), t, k)
  BY QueriesSearchHome DEF Sound, KeyType
<1>2. /\ \A p \in Find(t, StaticPlaces(t, k), k) :
              /\ p \in Used(t) /\ p \in Places(t) /\ p[1] \in 0 .. 1 /\ At(t, p).key = k
              /\ <<k, At(t, p).value>> \in StoredItems(t)
      /\ Find(t, StaticPlaces(t, k), k) = {} => \A q \in Used(t) : At(t, q).key # k
  BY <1>1, FoundIs
<1>3. ASSUME Find(t, StaticPlaces(t, k), k) # {}
      PROVE  OfKey(StoredItems(t), k) # {}
  <2>1. PICK p \in Find(t, StaticPlaces(t, k), k) : <<k, At(t, p).value>> \in StoredItems(t)
    BY <1>2, <1>3
  <2>2. <<k, At(t, p).value>>[1] = k
    OBVIOUS
  <2> QED BY <2>1, <2>2 DEF OfKey
<1>4. Find(t, StaticPlaces(t, k), k) = {} => OfKey(StoredItems(t), k) = {}
  BY <1>2, StoredOfKey
<1> QED BY <1>2, <1>3, <1>4

\* An answer to a query, by either scheme.
LEMMA AnswerIs ==
  ASSUME NEW t, Sound(t), t.resize_state = 0, NEW k \in Keys,
         NEW places, HomeSearched(places, t, k), NEW answer, answer = Answer(t, Find(t, places, k))
  PROVE  IF answer = NoValue THEN OfKey(StoredItems(t), k) = {}
         ELSE <<k, answer>> \in StoredItems(t)
<1> DEFINE found == Find(t, places, k)
<1>1. /\ \A p \in found : At(t, p).value # NoValue /\ <<k, At(t, p).value>> \in StoredItems(t)
      /\ found = {} => \A q \in Used(t) : At(t, q).key # k
  BY FoundIs
<1>2. answer = IF found = {} THEN NoValue ELSE At(t, CHOOSE p \in found : TRUE).value
  BY DEF Answer
<1> HIDE DEF found
<1>3. CASE found = {}
  <2>1. OfKey(StoredItems(t), k) = {}
    BY <1>1, <1>3, StoredOfKey
  <2> QED BY <1>2, <1>3, <2>1
<1>4. CASE found # {}
  <2> DEFINE p == CHOOSE p \in found : TRUE
  <2>1. p \in found
    BY <1>4
  <2>2. answer = At(t, p).value
    BY <1>2, <1>4
  <2> HIDE DEF p
  <2> QED BY <1>1, <2>1, <2>2
<1> QED BY <1>3, <1>4

-----------------------------------------------------------------------------
(* The operations.                                                         *)

LEMMA InvariantIs == IInv <=> Sound(level)
BY DEF IInv, Sound

LEMMA InitSound ==
  ASSUME Init
  PROVE  Sound(level) /\ StoredItems(level) = {}
<1> DEFINE n == InitLevelSize
           B == level.buckets
<1>1. /\ n \in Nat /\ n > 1 /\ n \in MinLevelSize .. MaxLevelSize /\ n - 1 \in Nat /\ n - 0 = n
      /\ 1 \in 0 .. 1 /\ 0 \in 0 .. 1
  BY SizesAssumption
<1> HIDE DEF n
<1>2. /\ level.buckets = [i \in 0 .. 2 |->
                            IF i = 2 THEN <<>>
                            ELSE [b \in 0 .. PowerOf2[n - i] - 1 |-> [j \in Slots |-> Empty]]]
      /\ level.level_item_num = [i \in 0 .. 1 |-> 0]
      /\ level.level_size = n /\ level.level_expand_time = 0 /\ level.resize_state = 0
      /\ level = [buckets |-> level.buckets, level_item_num |-> level.level_item_num,
                  level_size |-> level.level_size, level_expand_time |-> level.level_expand_time,
                  resize_state |-> level.resize_state]
  BY DEF Init, n
<1>3. Capacity(level, 0) = PowerOf2[n] /\ Capacity(level, 1) = PowerOf2[n - 1] /\ Capacity(level, 2) = 0
  BY <1>1, <1>2, CapacityOf
<1>4. /\ B[0] = [b \in 0 .. PowerOf2[n] - 1 |-> [j \in Slots |-> Empty]]
      /\ B[1] = [b \in 0 .. PowerOf2[n - 1] - 1 |-> [j \in Slots |-> Empty]]
      /\ B[2] = <<>> /\ B = [i \in 0 .. 2 |-> B[i]]
  BY <1>1, <1>2
<1> HIDE DEF B
<1>5. DOMAIN <<>> = {} /\ <<>> \in [0 .. 0 - 1 -> [Slots -> SlotType]]
  <2>1. 0 .. 0 - 1 = {}
    OBVIOUS
  <2>2. <<>> \in [{} -> [Slots -> SlotType]]
    OBVIOUS
  <2> QED BY <2>1, <2>2
<1>6. \A i \in 0 .. 2 : i = 0 \/ i = 1 \/ i = 2
  OBVIOUS
<1> DEFINE Zero(m) == [b \in 0 .. m - 1 |-> [j \in Slots |-> Empty]]
<1>7. ASSUME NEW m
      PROVE  /\ Zero(m) \in [0 .. m - 1 -> [Slots -> SlotType]]
             /\ \A b \in DOMAIN Zero(m), j \in Slots : Zero(m)[b][j] = Empty
  BY EmptyIs
<1>8. ASSUME NEW i \in 0 .. 2
      PROVE  /\ B[i] \in [0 .. Capacity(level, i) - 1 -> [Slots -> SlotType]]
             /\ \A b \in DOMAIN B[i], j \in Slots : B[i][b][j] = Empty
  <2>1. CASE i = 0
    <3>1. B[i] = Zero(PowerOf2[n])
      BY <1>4, <2>1
    <3> HIDE DEF Zero
    <3> QED BY <1>3, <1>7, <2>1, <3>1
  <2>2. CASE i = 1
    <3>1. B[i] = Zero(PowerOf2[n - 1])
      BY <1>4, <2>2
    <3> HIDE DEF Zero
    <3> QED BY <1>3, <1>7, <2>2, <3>1
  <2>3. CASE i = 2
    BY <1>3, <1>4, <1>5, <2>3
  <2> QED BY <1>6, <2>1, <2>2, <2>3
<1>9. WORD > 0 /\ WORD \in Nat
  <2>1. 0 \in 0 .. MaxLevelSize /\ PowerOf2[0] = 1 /\ ASSOC_NUM \in Nat /\ WORD \in Nat
    BY PowerOf2Is, SizesAssumption
  <2>2. ASSOC_NUM * PowerOf2[0] < WORD
    BY <2>1, WordAssumption
  <2> QED BY <2>1, <2>2
<1>10. IsTable(level)
  <2>1. level.level_item_num \in [0 .. 1 -> 0 .. WORD - 1]
    BY <1>2, <1>9
  <2> QED BY <1>1, <1>2, <1>4, <1>8, <2>1 DEF IsTable, B
<1>11. Used(level) = {}
  <2>1. \A p \in Places(level) : At(level, p) = Empty
    BY <1>8, <1>10, PlaceIs DEF At, B
  <2> QED BY <1>10, <2>1, UsedIs, EmptyIs
<1>12. Clean(level)
  <2>1. \A p \in Places(level) : At(level, p) = Empty
    BY <1>8, <1>10, PlaceIs DEF At, B
  <2> QED BY <1>10, <2>1, CleanIs, EmptyIs
<1>13. Unique(level) /\ Placed(level) /\ StoredItems(level) = {}
  BY <1>11 DEF Unique, Placed, StoredItems
<1>14. Counted(level)
  <2>1. ASSUME NEW i \in 0 .. 1
        PROVE  level.level_item_num[i] = Cardinality(UsedIn(level.buckets[i]))
    <3>1. \A b, j : <<b, j>> \notin UsedIn(level.buckets[i])
      BY <1>10, <1>11, UsedInLevel
    <3>2. \A y \in UsedIn(level.buckets[i]) : y = <<y[1], y[2]>>
      BY DEF UsedIn
    <3>3. UsedIn(level.buckets[i]) = {}
      BY <3>1, <3>2
    <3> QED BY <1>2, <3>3, FS_EmptySet
  <2> QED BY <2>1 DEF Counted
<1> QED BY <1>10, <1>12, <1>13, <1>14 DEF Sound

\* Each operation keeps the invariant and does what the dictionary allows.
LEMMA InsertStep ==
  ASSUME Sound(level), level.resize_state = 0, NEW k \in Keys, NEW v \in Values, Insert(k, v)
  PROVE  Sound(level') /\ Contents!Insert(k, v)
<1>1. HomeSearched(StaticPlaces(level, k), level, k)
  BY QueriesSearchHome DEF Sound, KeyType
<1>2. Find(level, StaticPlaces(level, k), k) = {}
  <2> DEFINE found == Find(level, StaticPlaces(level, k), k)
  <2>1. \A p \in found : At(level, p).value # NoValue
    BY <1>1, FoundIs
  <2>2. Answer(level, found) = NoValue
    BY DEF Insert, StaticQuery
  <2>3. found # {} => (CHOOSE p \in found : TRUE) \in found
    OBVIOUS
  <2> HIDE DEF found
  <2>4. found = {}
    BY <2>1, <2>2, <2>3 DEF Answer
  <2> QED BY <2>4 DEF found
<1>3. (\A q \in Used(level) : At(level, q).key # k) /\ OfKey(StoredItems(level), k) = {}
  BY <1>2, StaticFoundIs
<1>4. Contents!Of(k) = {}
  BY <1>3 DEF Contents!Of, OfKey
<1>5. CASE level' \in Inserted(level, Item(k, v)) /\ Returns("insert", k, 0)
  <2>1. Sound(level') /\ StoredItems(level') = StoredItems(level) \cup {<<k, v>>}
    BY <1>3, <1>5, InsertSound
  <2>2. call' = <<"insert", k, 0>>
    BY <1>5 DEF Returns
  <2> QED BY <1>4, <2>1, <2>2 DEF Contents!Insert
<1>6. CASE Returns("insert", k, 1) /\ UNCHANGED level
  <2>1. call' = <<"insert", k, 1>> /\ level' = level
    BY <1>6 DEF Returns
  <2> QED BY <1>4, <2>1 DEF Contents!Insert
<1> QED BY <1>5, <1>6 DEF Insert

LEMMA UpdateStep ==
  ASSUME Sound(level), level.resize_state = 0, NEW k \in Keys, NEW v \in Values, Update(k, v)
  PROVE  Sound(level') /\ Contents!Update(k, v)
<1> DEFINE found == Find(level, StaticPlaces(level, k), k)
<1>1. /\ \A p \in found : p \in Used(level) /\ p \in Places(level) /\ p[1] \in 0 .. 1
                          /\ At(level, p).key = k
      /\ found # {} => OfKey(StoredItems(level), k) # {}
      /\ found = {} => OfKey(StoredItems(level), k) = {}
  BY StaticFoundIs
<1>2. \/ \E p \in found : level' = Put(level, p, Item(k, v)) /\ Returns("update", k, 0)
      \/ found = {} /\ Returns("update", k, 1) /\ UNCHANGED level
  BY DEF Update
<1> HIDE DEF found
<1>3. Contents!Of(k) = OfKey(StoredItems(level), k)
  BY DEF Contents!Of, OfKey
<1>4. CASE \E p \in found : level' = Put(level, p, Item(k, v)) /\ Returns("update", k, 0)
  <2>1. PICK p \in found : level' = Put(level, p, Item(k, v)) /\ Returns("update", k, 0)
    BY <1>4
  <2>2. Item(k, v) \in SlotType /\ CleanSlot(Item(k, v))
    <3>1. k # JunkKey /\ v # NoValue
      BY KeysAssumption
    <3>2. Item(k, v) = [token |-> 1, key |-> k, value |-> v]
      BY DEF Item
    <3> HIDE DEF Item
    <3> QED BY <3>1, <3>2 DEF SlotType, CleanSlot
  <2>3. /\ IsTable(level') /\ Like(level', level)
        /\ level'.level_item_num = level.level_item_num
        /\ \A q \in Places(level) : At(level', q) = IF q = p THEN Item(k, v) ELSE At(level, q)
    BY <1>1, <2>1, <2>2, PutIs DEF Sound
  <2>4. Replaced(level, level', p, k, Item(k, v))
    BY <1>1, <2>2, <2>3 DEF Replaced
  <2>5. Sound(level') /\ StoredItems(level') =
          (StoredItems(level) \ OfKey(StoredItems(level), k)) \cup {<<k, v>>}
    BY <2>3, <2>4, UpdatedSound
  <2>6. call' = <<"update", k, 0>> /\ OfKey(StoredItems(level), k) # {}
    BY <1>1, <2>1 DEF Returns
  <2> QED BY <1>3, <2>5, <2>6 DEF Contents!Update
<1>5. CASE found = {} /\ Returns("update", k, 1) /\ UNCHANGED level
  <2>1. call' = <<"update", k, 1>> /\ level' = level /\ OfKey(StoredItems(level), k) = {}
    BY <1>1, <1>5 DEF Returns
  <2> QED BY <1>3, <2>1 DEF Contents!Update
<1> QED BY <1>2, <1>4, <1>5

LEMMA DeleteStep ==
  ASSUME Sound(level), level.resize_state = 0, NEW k \in Keys, Delete(k)
  PROVE  Sound(level') /\ Contents!Delete(k)
<1> DEFINE found == Find(level, StaticPlaces(level, k), k)
<1>1. /\ \A p \in found : p \in Used(level) /\ p \in Places(level) /\ p[1] \in 0 .. 1
                          /\ At(level, p).key = k
      /\ found # {} => OfKey(StoredItems(level), k) # {}
      /\ found = {} => OfKey(StoredItems(level), k) = {}
  BY StaticFoundIs
<1>2. \/ \E p \in found : /\ level' = Count(Put(level, p, Empty), p[1], -1)
                          /\ Returns("delete", k, 0)
      \/ found = {} /\ Returns("delete", k, 1) /\ UNCHANGED level
  BY DEF Delete
<1> HIDE DEF found
<1>3. Contents!Of(k) = OfKey(StoredItems(level), k)
  BY DEF Contents!Of, OfKey
<1>4. ASSUME NEW p \in found, level' = Count(Put(level, p, Empty), p[1], -1), Returns("delete", k, 0)
      PROVE  Sound(level') /\ Contents!Delete(k)
  <2> DEFINE m == Put(level, p, Empty)
             n == (m.level_item_num[p[1]] + (-1)) % WORD
  <2>1. /\ IsTable(m) /\ Like(m, level) /\ m.level_item_num = level.level_item_num
        /\ \A q \in Places(level) : At(m, q) = IF q = p THEN Empty ELSE At(level, q)
    BY <1>1, EmptyIs, PutIs DEF Sound
  <2>2. level' = Count(m, p[1], -1)
    BY <1>4
  <2> HIDE DEF m
  <2>3. Recounted(level', m, p[1], n)
    <3>1. -1 \in Int
      OBVIOUS
    <3> QED BY <1>1, <2>1, <2>2, <3>1, CountIs
  <2>4. n = (level.level_item_num[p[1]] - 1) % WORD
    <3>1. level.level_item_num[p[1]] \in Int
      BY <1>1 DEF Sound, IsTable
    <3>2. level.level_item_num[p[1]] + (-1) = level.level_item_num[p[1]] - 1
      BY <3>1
    <3> QED BY <2>1, <3>2
  <2> HIDE DEF n
  <2>5. Replaced(level, level', p, k, Empty)
    <3>1. Like(level', level)
      BY <2>1, <2>3 DEF Recounted, Like
    <3>2. IsTable(level') /\ \A q \in Places(level) : At(level', q) = IF q = p THEN Empty ELSE At(level, q)
      BY <2>1, <2>3 DEF Recounted
    <3> QED BY <1>1, <3>1, <3>2, EmptyIs DEF Replaced
  <2>6. \A i \in 0 .. 1 : level'.level_item_num[i] =
          IF i = p[1] THEN (level.level_item_num[i] - 1) % WORD ELSE level.level_item_num[i]
    BY <2>1, <2>3, <2>4 DEF Recounted
  <2>7. Sound(level') /\ StoredItems(level') = StoredItems(level) \ OfKey(StoredItems(level), k)
    BY <2>5, <2>6, DeletedSound
  <2>8. call' = <<"delete", k, 0>> /\ OfKey(StoredItems(level), k) # {}
    BY <1>1, <1>4 DEF Returns
  <2> QED BY <1>3, <2>7, <2>8 DEF Contents!Delete
<1>5. CASE found = {} /\ Returns("delete", k, 1) /\ UNCHANGED level
  <2>1. call' = <<"delete", k, 1>> /\ level' = level /\ OfKey(StoredItems(level), k) = {}
    BY <1>1, <1>5 DEF Returns
  <2> QED BY <1>3, <2>1 DEF Contents!Delete
<1> QED BY <1>2, <1>4, <1>5

\* The steps of the resizing operations leave the contents alone.
Kept == Sound(level') /\ StoredItems(level') = StoredItems(level)

LEMMA ResizingStep ==
  ASSUME Sound(level), level.resize_state = 0, Expand \/ Shrink
  PROVE  Kept /\ Contents!Resize
<1>1. CASE Expand
  <2>1. Kept
    BY <1>1, ExpandingSound DEF Expand, Kept
  <2>2. call' = <<"expand">>
    BY <1>1 DEF Expand
  <2> QED BY <2>1, <2>2 DEF Contents!Resize, Kept
<1>2. CASE Shrink /\ Exit
  <2>1. level' = level /\ call' = <<"exit">>
    BY <1>2 DEF Exit
  <2> QED BY <2>1 DEF Contents!Resize, Kept
<1>3. CASE Shrink /\ ~Exit
  <2>1. /\ level.level_size > MinLevelSize /\ call' = <<"shrink">>
        /\ \E new \in FreshBuckets(Capacity(level, 1) \div 2) : level' = Shrinking(level, new)
    BY <1>3 DEF Shrink
  <2>2. Kept
    BY <2>1, ShrinkingSound DEF Kept
  <2> QED BY <2>1, <2>2 DEF Contents!Resize, Kept
<1> QED BY <1>1, <1>2, <1>3

LEMMA RehashStep ==
  ASSUME Sound(level), Rehash
  PROVE  Kept /\ (UNCHANGED call \/ Contents!Resize)
<1>1. PICK p \in NextItem(level) :
        \/ /\ \E t \in Rehashed(level, At(level, p)) : level' = Put(t, p, Empty)
           /\ UNCHANGED <<call, exited>>
        \/ Exit
  BY DEF Rehash
<1>2. CASE /\ \E t \in Rehashed(level, At(level, p)) : level' = Put(t, p, Empty)
           /\ UNCHANGED <<call, exited>>
  <2>1. PICK t \in Rehashed(level, At(level, p)) : level' = Put(t, p, Empty)
    BY <1>2
  <2>2. Kept
    BY <2>1, RehashSound DEF Kept
  <2> QED BY <1>2, <2>2
<1>3. CASE Exit
  <2>1. level' = level /\ call' = <<"exit">>
    BY <1>3 DEF Exit
  <2> QED BY <2>1 DEF Contents!Resize, Kept
<1> QED BY <1>1, <1>2, <1>3

LEMMA ResizedStep ==
  ASSUME Sound(level), Resized
  PROVE  Kept /\ UNCHANGED call
<1>1. /\ NextItem(level) = {} /\ UNCHANGED call
      /\ level' = [level EXCEPT !.buckets[2] = <<>>,
                     !.level_expand_time = IF level.resize_state = 2 THEN 0 ELSE level.level_expand_time,
                     !.resize_state = 0]
  BY DEF Resized
<1> QED BY <1>1, ResizedSound DEF Kept

LEMMA NextStep ==
  ASSUME Sound(level), [Next]_vars
  PROVE  Sound(level') /\ [Contents!Next]_<<StoredItems(level), call>>
<1>1. ASSUME NEW item \in Items, level.resize_state = 0,
             Insert(item[1], item[2]) \/ Update(item[1], item[2])
      PROVE  Sound(level') /\ Contents!Next
  <2>1. item[1] \in Keys /\ item[2] \in Values
    BY KeysAssumption
  <2>2. CASE Insert(item[1], item[2])
    <3>1. Sound(level') /\ Contents!Insert(item[1], item[2])
      BY <1>1, <2>1, <2>2, InsertStep
    <3> QED BY <2>1, <3>1 DEF Contents!Next
  <2>3. CASE Update(item[1], item[2])
    <3>1. Sound(level') /\ Contents!Update(item[1], item[2])
      BY <1>1, <2>1, <2>3, UpdateStep
    <3> QED BY <2>1, <3>1 DEF Contents!Next
  <2> QED BY <1>1, <2>2, <2>3
<1>2. ASSUME NEW k \in Keys, level.resize_state = 0, Delete(k)
      PROVE  Sound(level') /\ Contents!Next
  BY <1>2, DeleteStep DEF Contents!Next
<1>3. ASSUME level.resize_state = 0, Expand \/ Shrink
      PROVE  Sound(level') /\ Contents!Next
  BY <1>3, ResizingStep DEF Contents!Next, Kept
<1>4. ASSUME Rehash
      PROVE  Sound(level') /\ [Contents!Next]_<<StoredItems(level), call>>
  BY <1>4, RehashStep DEF Contents!Next, Kept
<1>5. ASSUME Resized
      PROVE  Sound(level') /\ [Contents!Next]_<<StoredItems(level), call>>
  BY <1>5, ResizedStep DEF Kept
<1>6. ASSUME UNCHANGED vars
      PROVE  Sound(level') /\ [Contents!Next]_<<StoredItems(level), call>>
  <2>1. level' = level /\ call' = call
    BY <1>6 DEF vars
  <2> QED BY <2>1
<1>7. CASE Next
  <2>1. \/ level.resize_state = 0 /\ Operation
        \/ Rehash
        \/ Resized
    BY <1>7 DEF Next
  <2>2. CASE level.resize_state = 0 /\ Operation
    BY <1>1, <1>2, <1>3, <2>2 DEF Operation
  <2> QED BY <1>4, <1>5, <2>1, <2>2
<1> QED BY <1>6, <1>7

-----------------------------------------------------------------------------
(* Theorems.                                                               *)

\* The table is well-formed, every item is at one place, in one of its buckets, and is
\* counted, before and after every operation and between any two steps of a resizing.
THEOREM Invariance == Spec => []IInv
<1>1. Init => IInv
  BY InitSound, InvariantIs
<1>2. IInv /\ [Next]_vars => IInv'
  <2>1. IInv' <=> Sound(level')
    BY DEF IInv, Sound
  <2> QED BY <2>1, NextStep, InvariantIs
<1> QED BY <1>1, <1>2, PTL DEF Spec

\* No movement and no step of a resizing duplicates an item or leaves it where searches
\* do not look, and level_item_num is right as long as no slot of fresh memory counts.
THEOREM ItemsStoredOnce == Spec => []StoredOnce
<1>1. IInv => StoredOnce
  BY DEF IInv, StoredOnce
<1> QED BY <1>1, Invariance, PTL

\* level_static_query() and level_dynamic_query() find exactly what is stored.
THEOREM QueriesAreRight == Spec => []QueriesFind
<1>1. ASSUME IInv
      PROVE  QueriesFind
  <2> SUFFICES ASSUME level.resize_state = 0, NEW k \in Keys,
                      NEW answer \in {StaticQuery(level, k), DynamicQuery(level, k)}
               PROVE  IF answer = NoValue THEN StoredItems(level) \cap ({k} \X Values) = {}
                      ELSE <<k, answer>> \in StoredItems(level)
    BY DEF QueriesFind
  <2>1. Sound(level)
    BY <1>1, InvariantIs
  <2>2. HomeSearched(StaticPlaces(level, k), level, k) /\ HomeSearched(DynamicPlaces(level, k), level, k)
    BY <2>1, QueriesSearchHome DEF Sound, KeyType
  <2>3. \/ answer = Answer(level, Find(level, StaticPlaces(level, k), k))
        \/ answer = Answer(level, Find(level, DynamicPlaces(level, k), k))
    BY DEF StaticQuery, DynamicQuery
  <2>4. IF answer = NoValue THEN OfKey(StoredItems(level), k) = {}
        ELSE <<k, answer>> \in StoredItems(level)
    BY <2>1, <2>2, <2>3, AnswerIs
  <2>5. StoredItems(level) \cap ({k} \X Values) \subseteq OfKey(StoredItems(level), k)
    BY DEF OfKey
  <2> QED BY <2>4, <2>5
<1> QED BY <1>1, Invariance, PTL

\* The hash table implements the dictionary: what was inserted stays until it is deleted,
\* through every movement and resizing, and the return codes are right.
THEOREM ImplementsDictionary == Spec => IsDictionary
<1>1. Init => Contents!Init
  BY InitSound DEF Init, Contents!Init
<1>2. IInv /\ [Next]_vars => [Contents!Next]_<<StoredItems(level), call>>
  BY NextStep, InvariantIs
<1> QED BY <1>1, <1>2, Invariance, PTL DEF Spec, IsDictionary, Contents!Spec
==============================================================================
