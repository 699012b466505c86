--------------------------- MODULE PagePoolProofs ---------------------------
(***************************************************************************)
(* Proofs about PagePool for pools of every size, any holders and requests *)
(* of every length.                                                        *)
(*                                                                         *)
(* NoPageTwice depends on the bitmap being right (BitsMatchHolders), which *)
(* depends on nobody owning the bitmap's own page: else returning that     *)
(* page would offer it for sale.  IInv adds this (UsableOnly) and that the *)
(* headers of the bitmaps are intact.                                      *)
(***************************************************************************)
EXTENDS PagePool, TLAPS

\* Callers do not ask for more than there is.
Affordable == MayRunOut = FALSE

\* Only pages that belong to a pool and hold no bitmap are owned.
UsableOnly == Owned \subseteq UNION {Usable(p) : p \in Pools}

HeadersIntact == bit_count = [p \in Pools |-> Size(p)]

\* The bitmaps hold indexes of their pool, and pages are numbers.
TypeOK ==
  /\ bits \in [Pools -> SUBSET Int]
  /\ \A p \in Pools : bits[p] \subseteq Indexes(p)
  /\ bit_count \in [Pools -> Nat]
  /\ held \in [Holders -> SUBSET Int]

IInv == TypeOK /\ HeadersIntact /\ UsableOnly /\ BitsMatchHolders /\ NoPageTwice

-----------------------------------------------------------------------------
(* Arithmetic of pages.                                                    *)

LEMMA PoolSizes ==
  ASSUME NEW p \in Pools
  PROVE  Addr(p) \in Nat /\ Size(p) \in Nat \ {0} /\ Indexes(p) \subseteq Nat
BY SizesAssumption DEF Pools, Addr, Size, Indexes

\* A page belongs to one pool only, under one index.
LEMMA PageName ==
  ASSUME NEW p \in Pools, NEW q \in Pools,
         NEW i \in Indexes(p), NEW j \in Indexes(q),
         Addr(p) + i = Addr(q) + j
  PROVE  p = q /\ i = j
BY SizesAssumption DEF Pools, Addr, Size, Indexes

\* The pages at a run of indexes.
LEMMA RunPages ==
  ASSUME NEW p \in Pools, NEW i \in Int, NEW count \in Int, NEW x
  PROVE  x \in Run(Addr(p) + i, count) <=> \E k \in Run(i, count) : x = Addr(p) + k
<1>1. Addr(p) \in Int
  BY PoolSizes
<1>2. ASSUME x \in Run(Addr(p) + i, count)
      PROVE  \E k \in Run(i, count) : x = Addr(p) + k
  <2>1. x - Addr(p) \in Run(i, count) /\ x = Addr(p) + (x - Addr(p))
    BY <1>1, <1>2 DEF Run
  <2>. QED
    BY <2>1
<1>3. ASSUME NEW k \in Run(i, count)
      PROVE  Addr(p) + k \in Run(Addr(p) + i, count)
  BY <1>1 DEF Run
<1>. QED
  BY <1>2, <1>3

-----------------------------------------------------------------------------
(* Steps.                                                                  *)

LEMMA Initially == Init => IInv
<1>. SUFFICES ASSUME Init PROVE IInv
  OBVIOUS
<1>1. Owned = {}
  BY DEF Init, Owned
<1>2. \A p \in Pools : 0 \in Indexes(p) /\ Addr(p) \in Nat
  BY PoolSizes DEF Indexes
<1>3. TypeOK
  BY <1>2, PoolSizes DEF TypeOK, Init
<1>4. HeadersIntact /\ UsableOnly /\ NoPageTwice
  BY <1>1 DEF Init, HeadersIntact, UsableOnly, NoPageTwice
<1>5. BitsMatchHolders
  BY <1>1 DEF Init, BitsMatchHolders
<1>. QED
  BY <1>3, <1>4, <1>5 DEF IInv

\* A successful request takes indexes that are in the pool, whose bits are
\* clear, whose pages nobody owns and none of which is the bitmap's.
LEMMA Taken ==
  ASSUME IInv, NEW p \in Pools, NEW count \in Requests, NEW i \in Indexes(p),
         IsFound(p, i, count)
  PROVE  /\ Run(i, count) \subseteq Indexes(p) \ {0}
         /\ Run(Addr(p) + i, count) \subseteq Usable(p)
         /\ Run(Addr(p) + i, count) \cap Owned = {}
<1>1. count \in Nat \ {0}
  BY CountAssumption DEF Requests
<1>2. i \in 0 .. Size(p) - count /\ Run(i, count) \cap bits[p] = {}
  BY DEF IInv, HeadersIntact, IsFound, Candidates, IsFree
<1>3. Run(i, count) \subseteq Indexes(p)
  BY <1>1, <1>2, PoolSizes DEF Run, Indexes
<1>4. 0 \in bits[p]
  BY PoolSizes DEF IInv, BitsMatchHolders, Indexes
<1>5. Run(i, count) \subseteq Indexes(p) \ {0}
  BY <1>2, <1>3, <1>4
<1>6. i \in Int
  BY PoolSizes
<1>7. ASSUME NEW x \in Run(Addr(p) + i, count)
      PROVE  x \in Usable(p) /\ x \notin Owned
  <2>1. PICK k \in Run(i, count) : x = Addr(p) + k
    BY <1>1, <1>6, <1>7, RunPages
  <2>2. k \in Indexes(p) \ {0} /\ k \notin bits[p]
    BY <1>2, <1>5
  <2>. QED
    BY <2>1, <2>2 DEF Usable, IInv, BitsMatchHolders
<1>. QED
  BY <1>5, <1>7

LEMMA GetPreserves ==
  ASSUME IInv, NEW p \in Pools, NEW count \in Requests, NEW h \in Holders,
         Get(h, p, count)
  PROVE  IInv'
<1>1. PICK i \in Indexes(p) :
        /\ IsFound(p, i, count)
        /\ bits' = SetBits(p, i, count)
        /\ Receives(h, Run(Addr(p) + i, count))
  BY DEF Get
<1>. DEFINE taken == Run(Addr(p) + i, count)
<1>2. /\ Run(i, count) \subseteq Indexes(p) \ {0}
      /\ taken \subseteq Usable(p)
      /\ taken \cap Owned = {}
  BY <1>1, Taken
<1>3. count \in Nat \ {0} /\ i \in Int /\ Addr(p) \in Int
  BY CountAssumption, PoolSizes DEF Requests
<1>4. taken \subseteq Int
  BY <1>3 DEF Run
<1>5. held[h] = {} /\ held' = [held EXCEPT ![h] = taken] /\ bit_count' = bit_count
  BY <1>1 DEF Get, Receives
<1>6. bits' = [bits EXCEPT ![p] = bits[p] \cup Run(i, count)]
  BY <1>1 DEF SetBits
<1>. HIDE DEF taken
<1>7. Owned' = Owned \cup taken
  BY <1>5 DEF Owned, IInv, TypeOK
<1>8. TypeOK'
  BY <1>2, <1>4, <1>5, <1>6, PoolSizes DEF IInv, TypeOK, Indexes
<1>9. HeadersIntact' /\ UsableOnly'
  BY <1>2, <1>5, <1>7 DEF IInv, HeadersIntact, UsableOnly
<1>10. BitsMatchHolders'
  <2>. SUFFICES ASSUME NEW q \in Pools, NEW j \in Indexes(q)
                PROVE  j \in bits'[q] <=> j = 0 \/ Addr(q) + j \in Owned'
    BY DEF BitsMatchHolders
  <2>1. j \in bits[q] <=> j = 0 \/ Addr(q) + j \in Owned
    BY DEF IInv, BitsMatchHolders
  <2>2. Addr(q) + j \in taken <=> q = p /\ j \in Run(i, count)
    <3>1. Addr(q) + j \in taken <=> \E k \in Run(i, count) : Addr(q) + j = Addr(p) + k
      BY <1>3, RunPages DEF taken
    <3>2. \A k \in Run(i, count) : Addr(q) + j = Addr(p) + k => q = p /\ j = k
      BY <1>2, PageName
    <3>. QED
      BY <3>1, <3>2
  <2>3. j \in bits'[q] <=> j \in bits[q] \/ (q = p /\ j \in Run(i, count))
    BY <1>6 DEF IInv, TypeOK
  <2>. QED
    BY <1>7, <2>1, <2>2, <2>3
<1>11. NoPageTwice'
  <2>. SUFFICES ASSUME NEW f \in Holders, NEW g \in Holders, f # g
                PROVE  held'[f] \cap held'[g] = {}
    BY DEF NoPageTwice
  <2>1. held[f] \cap held[g] = {} /\ held[f] \subseteq Owned /\ held[g] \subseteq Owned
    BY DEF IInv, NoPageTwice, Owned
  <2>. QED
    BY <1>2, <1>5, <2>1 DEF IInv, TypeOK
<1>. QED
  BY <1>8, <1>9, <1>10, <1>11 DEF IInv

LEMMA FreePreserves ==
  ASSUME IInv, NEW p \in Pools, NEW count \in Requests, NEW i \in Indexes(p),
         Free(p, i, count)
  PROVE  IInv'
<1>. DEFINE pages == Run(Addr(p) + i, count)
<1>1. /\ pages \subseteq Owned
      /\ i + count <= Size(p)
      /\ bits' = ClearBits(p, i, count)
      /\ held' = [h \in Holders |-> held[h] \ pages]
      /\ bit_count' = bit_count
  BY DEF Free
<1>2. count \in Nat \ {0} /\ i \in Nat /\ Addr(p) \in Nat /\ Size(p) \in Nat \ {0}
  BY CountAssumption, PoolSizes DEF Requests
<1>3. bits' = [bits EXCEPT ![p] = bits[p] \ Run(i, count)]
  BY <1>1, <1>2 DEF ClearBits, IInv, HeadersIntact
<1>4. Run(i, count) \subseteq Indexes(p)
  BY <1>1, <1>2 DEF Run, Indexes
<1>. HIDE DEF pages
<1>5. Owned' = Owned \ pages
  BY <1>1 DEF Owned
<1>6. TypeOK'
  BY <1>1, <1>3 DEF IInv, TypeOK
<1>7. HeadersIntact' /\ UsableOnly'
  BY <1>1, <1>5 DEF IInv, HeadersIntact, UsableOnly
<1>8. BitsMatchHolders'
  <2>. SUFFICES ASSUME NEW q \in Pools, NEW j \in Indexes(q)
                PROVE  j \in bits'[q] <=> j = 0 \/ Addr(q) + j \in Owned'
    BY DEF BitsMatchHolders
  <2>1. j \in bits[q] <=> j = 0 \/ Addr(q) + j \in Owned
    BY DEF IInv, BitsMatchHolders
  <2>2. Addr(q) + j \in pages <=> q = p /\ j \in Run(i, count)
    <3>1. Addr(q) + j \in pages <=> \E k \in Run(i, count) : Addr(q) + j = Addr(p) + k
      BY <1>2, RunPages DEF pages
    <3>2. \A k \in Run(i, count) : Addr(q) + j = Addr(p) + k => q = p /\ j = k
      BY <1>4, PageName
    <3>. QED
      BY <3>1, <3>2
  <2>3. j \in bits'[q] <=> j \in bits[q] /\ ~(q = p /\ j \in Run(i, count))
    BY <1>3 DEF IInv, TypeOK
  <2>4. j = 0 => Addr(q) + j \notin Owned
    <3>. SUFFICES ASSUME j = 0, Addr(q) + j \in Owned PROVE FALSE
      OBVIOUS
    <3>1. PICK r \in Pools : Addr(q) + j \in Usable(r)
      BY DEF IInv, UsableOnly
    <3>2. PICK k \in Indexes(r) \ {0} : Addr(q) + j = Addr(r) + k
      BY <3>1 DEF Usable
    <3>. QED
      BY <3>2, PageName
  <2>. QED
    BY <1>1, <1>5, <2>1, <2>2, <2>3, <2>4
<1>9. NoPageTwice'
  BY <1>1 DEF IInv, NoPageTwice
<1>. QED
  BY <1>6, <1>7, <1>8, <1>9 DEF IInv

LEMMA StepPreserves ==
  ASSUME Affordable, IInv, [Next]_vars
  PROVE  IInv'
<1>1. ASSUME NEW p \in Pools, NEW count \in Requests, NEW h \in Holders,
             Get(h, p, count)
      PROVE  IInv'
  BY <1>1, GetPreserves
<1>2. ASSUME NEW p \in Pools, NEW count \in Requests, NEW h \in Holders,
             GetError(h, p, count)
      PROVE  IInv'
  BY <1>2 DEF GetError, Affordable
<1>3. ASSUME NEW p \in Pools, NEW count \in Requests, NEW i \in Indexes(p),
             Free(p, i, count)
      PROVE  IInv'
  BY <1>3, FreePreserves
<1>4. CASE UNCHANGED vars
  BY <1>4 DEF vars, IInv, TypeOK, HeadersIntact, UsableOnly, Owned,
              BitsMatchHolders, NoPageTwice
<1>. QED
  BY <1>1, <1>2, <1>3, <1>4 DEF Next

-----------------------------------------------------------------------------
(* Theorems.                                                               *)

\* As long as requests can be met, the allocator keeps its inductive invariant
\* over all requests and returns.
THEOREM PoolInvariance == ASSUME Affordable PROVE Spec => []IInv
<1>1. Init => IInv
  BY Initially
<1>2. IInv /\ [Next]_vars => IInv'
  BY StepPreserves
<1>. QED
  BY <1>1, <1>2, PTL DEF Spec

\* palloc.c hands out no page that is still held.
THEOREM PagesNeverShared == ASSUME Affordable PROVE Spec => []NoPageTwice
<1>1. IInv => NoPageTwice
  BY DEF IInv
<1>. QED
  BY <1>1, PoolInvariance, PTL

\* The bitmaps always agree with what the callers own.
THEOREM BitmapsAlwaysRight == ASSUME Affordable PROVE Spec => []BitsMatchHolders
<1>1. IInv => BitsMatchHolders
  BY DEF IInv
<1>. QED
  BY <1>1, PoolInvariance, PTL

\* First fit over bitmaps implements the abstract allocator.
THEOREM PoolsImplementAllocator == ASSUME Affordable PROVE Spec => PoolsAllocate
<1>1. Init => Allocator!Init
  BY DEF Init, Allocator!Init
<1>2. IInv /\ [Next]_vars => [Allocator!Next]_held
  <2>. SUFFICES ASSUME IInv, [Next]_vars PROVE [Allocator!Next]_held
    OBVIOUS
  <2>1. ASSUME NEW p \in Pools, NEW count \in Requests, NEW h \in Holders,
               Get(h, p, count)
        PROVE  Allocator!Get(h, count)
    <3>1. PICK i \in Indexes(p) :
            IsFound(p, i, count) /\ Receives(h, Run(Addr(p) + i, count))
      BY <2>1 DEF Get
    <3>2. /\ Run(Addr(p) + i, count) \subseteq Usable(p)
          /\ Run(Addr(p) + i, count) \cap Owned = {}
      BY <3>1, Taken
    <3>3. Addr(p) + i \in Run(Addr(p) + i, count)
      BY CountAssumption, PoolSizes DEF Requests, Run
    <3>. QED
      BY <2>1, <3>1, <3>2, <3>3 DEF Get, Receives, Allocator!Get, Allocator!Owned, Owned, Run
  <2>2. ASSUME NEW p \in Pools, NEW count \in Requests, NEW i \in Indexes(p),
               Free(p, i, count)
        PROVE  Allocator!Free
    BY <2>2 DEF Free, Allocator!Free, Allocator!Owned, Owned
  <2>3. ASSUME NEW p \in Pools, NEW count \in Requests, NEW h \in Holders,
               GetError(h, p, count)
        PROVE  FALSE
    BY <2>3 DEF GetError, Affordable
  <2>. QED
    BY <2>1, <2>2, <2>3 DEF Next, vars, Allocator!Next, Requests
<1>. QED
  BY <1>1, <1>2, PoolInvariance, PTL DEF Spec, PoolsAllocate, Allocator!Spec

-----------------------------------------------------------------------------
(* Requests of one page, met or not.                                       *)

OnePage == MaxCount = 1 /\ KERNEL_PAGES > 1

\* Nobody owns the page of a bitmap.
OnePageInv == BitmapsSurvive /\ \A p \in Pools : Addr(p) \notin Owned

LEMMA OnePageRun ==
  ASSUME OnePage, NEW count \in Requests, NEW i \in Int
  PROVE  count = 1 /\ Run(i, count) = {i}
BY DEF OnePage, Requests, Run

\* A process that asks for one page at a time, as all do once the kernel has
\* booted, never damages a bitmap, even when there is no page left.
THEOREM BitmapsAlwaysSurvive == ASSUME OnePage PROVE Spec => []BitmapsSurvive
<1>. DEFINE Typed == bits \in [Pools -> SUBSET Int] /\ held \in [Holders -> SUBSET Int]
            Inv == Typed /\ OnePageInv
<1>1. Init => Inv
  BY PoolSizes DEF Init, OnePageInv, BitmapsSurvive, Owned
<1>2. Inv /\ [Next]_vars => Inv'
  <2>. SUFFICES ASSUME Inv, [Next]_vars PROVE Inv'
    OBVIOUS
  <2>1. ASSUME NEW p \in Pools, NEW count \in Requests, NEW h \in Holders,
               Get(h, p, count)
        PROVE  Inv'
    <3>1. PICK i \in Indexes(p) :
            /\ IsFound(p, i, count)
            /\ bits' = SetBits(p, i, count)
            /\ Receives(h, Run(Addr(p) + i, count))
      BY <2>1 DEF Get
    <3>2. i \in Int /\ Addr(p) + i \in Int
      BY PoolSizes
    <3>3. Run(i, count) = {i} /\ Run(Addr(p) + i, count) = {Addr(p) + i}
      BY <3>2, OnePageRun
    <3>4. i # 0
      BY <3>1, <3>3 DEF IsFound, Candidates, IsFree, OnePageInv, BitmapsSurvive
    <3>5. \A q \in Pools : Addr(p) + i # Addr(q)
      <4>. SUFFICES ASSUME NEW q \in Pools, Addr(p) + i = Addr(q) PROVE FALSE
        OBVIOUS
      <4>1. 0 \in Indexes(q) /\ Addr(q) = Addr(q) + 0
        BY PoolSizes DEF Indexes
      <4>. QED
        BY <3>4, <4>1, PageName
    <3>6. bits' = [bits EXCEPT ![p] = bits[p] \cup {i}] /\ bit_count' = bit_count
      BY <2>1, <3>1, <3>3 DEF Get, SetBits
    <3>7. held' = [held EXCEPT ![h] = {Addr(p) + i}]
      BY <3>1, <3>3 DEF Receives
    <3>8. Owned' \subseteq Owned \cup {Addr(p) + i}
      BY <3>7 DEF Owned
    <3>. QED
      BY <3>2, <3>5, <3>6, <3>7, <3>8 DEF OnePageInv, BitmapsSurvive
  <2>2. ASSUME NEW p \in Pools, NEW count \in Requests, NEW h \in Holders,
               GetError(h, p, count)
        PROVE  Inv'
    <3>1. Addr(p) - 1 \in Int /\ \A q \in Pools : Addr(q) # Addr(p) - 1
      BY SizesAssumption DEF OnePage, Pools, Addr
    <3>2. Run(ErrorPage(p), count) = {Addr(p) - 1}
      BY <3>1, OnePageRun DEF ErrorPage
    <3>3. /\ held' = [held EXCEPT ![h] = {Addr(p) - 1}]
          /\ bits' = [q \in Pools |-> bits[q]]
          /\ bit_count' = [q \in Pools |-> bit_count[q]]
      BY <2>2, <3>1, <3>2 DEF GetError, Receives
    <3>4. Owned' \subseteq Owned \cup {Addr(p) - 1}
      BY <3>3 DEF Owned
    <3>. QED
      BY <3>1, <3>3, <3>4 DEF OnePageInv, BitmapsSurvive
  <2>3. ASSUME NEW p \in Pools, NEW count \in Requests, NEW i \in Indexes(p),
               Free(p, i, count)
        PROVE  Inv'
    <3>1. i \in Int /\ Addr(p) + i \in Int /\ Size(p) \in Nat \ {0}
      BY PoolSizes
    <3>2. Run(i, count) = {i} /\ Run(Addr(p) + i, count) = {Addr(p) + i}
      BY <3>1, OnePageRun
    <3>3. /\ Addr(p) + i \in Owned
          /\ held' = [h \in Holders |-> held[h] \ {Addr(p) + i}]
          /\ bit_count' = bit_count
          /\ bits' = ClearBits(p, i, count)
      BY <2>3, <3>2 DEF Free
    <3>4. i # 0
      <4>1. Addr(p) + 0 = Addr(p)
        BY PoolSizes
      <4>. QED
        BY <3>3, <4>1 DEF OnePageInv
    <3>5. bits' = [bits EXCEPT ![p] = bits[p] \ {i}]
      BY <3>1, <3>2, <3>3 DEF ClearBits, OnePageInv, BitmapsSurvive
    <3>6. Owned' \subseteq Owned
      BY <3>3 DEF Owned
    <3>. QED
      BY <3>3, <3>4, <3>5, <3>6 DEF OnePageInv, BitmapsSurvive
  <2>4. CASE UNCHANGED vars
    BY <2>4 DEF vars, OnePageInv, BitmapsSurvive, Owned
  <2>. QED
    BY <2>1, <2>2, <2>3, <2>4 DEF Next
<1>3. Inv => BitmapsSurvive
  BY DEF OnePageInv
<1>. QED
  BY <1>1, <1>2, <1>3, PTL DEF Spec
=============================================================================
