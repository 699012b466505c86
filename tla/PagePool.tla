------------------------------ MODULE PagePool ------------------------------
(***************************************************************************)
(* Page allocator of the SSUOS_P6 kernel (mem/palloc.c over bitmap.c).     *)
(*                                                                         *)
(* Two adjacent pools of pages, the kernel pool and above it the user      *)
(* pool, each with a bitmap of its pages, which lies in the first page of  *)
(* the pool.  A page is named by its distance from the start of the kernel *)
(* pool.  All callers run with interrupts off (boot, proc_create, the page *)
(* fault gate) or before there is a second process (palloc_pf_test), so an *)
(* operation is one step although find_set_bitmap() tests and sets the     *)
(* bits one by one.                                                        *)
(*                                                                         *)
(* A holder is one variable of a caller that keeps the result of one       *)
(* request.  The kernel keeps no record of holders: held is what the       *)
(* callers believe to own.                                                 *)
(***************************************************************************)
EXTENDS Integers

CONSTANTS
  KERNEL_PAGES,  \* pages of the kernel pool
  USER_PAGES,    \* pages of the user pool
  Holders,       \* variables of the callers
  MaxCount,      \* bound: pages of one request
  MayRunOut      \* whether callers request pages that are not available

ASSUME SizesAssumption == {KERNEL_PAGES, USER_PAGES} \subseteq Nat \ {0}
ASSUME CountAssumption == MaxCount \in Nat
ASSUME RunOutAssumption == MayRunOut \in BOOLEAN

Pools == {"kernel", "user"}
Addr(p) == IF p = "kernel" THEN 0 ELSE KERNEL_PAGES
Size(p) == IF p = "kernel" THEN KERNEL_PAGES ELSE USER_PAGES
Indexes(p) == 0 .. Size(p) - 1

\* count consecutive numbers from first on.
Run(first, count) == first .. first + count - 1

Requests == 1 .. MaxCount

VARIABLES
  bits,       \* per pool, the indexes whose bit is set
  bit_count,  \* per pool, the size kept in the bitmap's header
  held        \* per holder, the pages it believes to own

vars == <<bits, bit_count, held>>

-----------------------------------------------------------------------------
(* init_palloc: the page of the bitmap itself is taken.                    *)

Init ==
  /\ bits = [p \in Pools |-> {0}]
  /\ bit_count = [p \in Pools |-> Size(p)]
  /\ held = [h \in Holders |-> {}]

-----------------------------------------------------------------------------
(* Requests.                                                               *)

\* bitmap_contains() for clear bits, negated.
IsFree(p, i, count) == Run(i, count) \cap bits[p] = {}

\* Variant: the search runs to the last bit.
CandidatesPastEnd(p, count) ==
  {i \in 0 .. bit_count[p] - 1 : IsFree(p, i, count)}

Candidates(p, count) ==
  {i \in 0 .. bit_count[p] - count : IsFree(p, i, count)}

\* find_bitmap() finds the first group of free bits ...
IsFound(p, i, count) ==
  /\ i \in Candidates(p, count)
  /\ \A j \in Candidates(p, count) : i <= j

\* ... or returns BITMAP_ERROR.
NotFound(p, count) == Candidates(p, count) = {}

\* Variant: the last bit of the group is forgotten.
SetBitsButLast(p, i, count) == [bits EXCEPT ![p] = @ \cup Run(i, count - 1)]

\* find_set_bitmap() sets the bits it has found.
SetBits(p, i, count) == [bits EXCEPT ![p] = @ \cup Run(i, count)]

Receives(h, pages) == held' = [held EXCEPT ![h] = pages]

\* palloc_get_multiple_page(), with enough pages in a row.
Get(h, p, count) ==
  /\ held[h] = {}
  /\ \E i \in Indexes(p) :
       /\ IsFound(p, i, count)
       /\ bits' = SetBits(p, i, count)
       /\ Receives(h, Run(Addr(p) + i, count))
  /\ UNCHANGED bit_count

\* Variant: the error is taken for index 0.
ErrorPageFirst(p) == Addr(p)

\* Without: BITMAP_ERROR is SIZE_MAX and unchecked, and the address wraps
\* round to the page before the pool.
ErrorPage(p) == Addr(p) - 1

\* The caller gets count pages from there on, cleared, be they the page of a
\* bitmap or not.
GetError(h, p, count) ==
  LET pages == Run(ErrorPage(p), count)
      wiped == {q \in Pools : Addr(q) \in pages}
  IN  /\ MayRunOut
      /\ held[h] = {}
      /\ NotFound(p, count)
      /\ Receives(h, pages)
      /\ bits' = [q \in Pools |-> IF q \in wiped THEN {} ELSE bits[q]]
      /\ bit_count' = [q \in Pools |-> IF q \in wiped THEN 0 ELSE bit_count[q]]

-----------------------------------------------------------------------------
(* Returns.                                                                *)

Owned == UNION {held[h] : h \in Holders}

\* Variant: one bit too many.
ClearBitsAndNext(p, i, count) == [bits EXCEPT ![p] = @ \ Run(i, count + 1)]

\* set_multi_bitmap(), if bitmap_contains() finds a set bit among them.  With
\* its header cleared the bitmap's bits are somewhere else in memory.
ClearBits(p, i, count) ==
  IF bit_count[p] = 0 THEN bits ELSE [bits EXCEPT ![p] = @ \ Run(i, count)]

\* palloc_free_multiple_page(): callers return any pages in a row that they
\* own, in part or over several requests, as palloc_pf_test() does.
Free(p, i, count) ==
  LET pages == Run(Addr(p) + i, count)
  IN  /\ pages \subseteq Owned
      /\ i + count <= Size(p)
      /\ bits' = ClearBits(p, i, count)
      /\ held' = [h \in Holders |-> held[h] \ pages]
      /\ UNCHANGED bit_count

Next ==
  \E p \in Pools, count \in Requests :
    \/ \E h \in Holders : Get(h, p, count) \/ GetError(h, p, count)
    \/ \E i \in Indexes(p) : Free(p, i, count)

Spec == Init /\ [][Next]_vars

-----------------------------------------------------------------------------
(* Properties.                                                             *)

\* "Obtains and returns a group of contiguous free pages": no page is handed
\* out while another request's result still holds it, in either pool and
\* over any sequence of requests and partial or joint returns.
NoPageTwice ==
  \A g, h \in Holders : g # h => held[g] \cap held[h] = {}

\* The bitmaps say what is owned: a page that was returned can be handed out
\* again (no leak), a held one cannot, and the page of the bitmap is nobody's.
BitsMatchHolders ==
  \A p \in Pools : \A i \in Indexes(p) :
    i \in bits[p] <=> i = 0 \/ Addr(p) + i \in Owned

\* Requests of one page, the only ones the kernel makes once it has booted
\* (proc_create, pd_create, pt_copy, pf_handler), never clear a bitmap, even
\* if they fail.
BitmapsSurvive == \A p \in Pools : 0 \in bits[p] /\ bit_count[p] = Size(p)

-----------------------------------------------------------------------------
(* The abstract allocator the callers rely on.                             *)

\* The pages a pool can hand out: all but the bitmap's.
Usable(p) == {Addr(p) + i : i \in Indexes(p) \ {0}}

Allocator == INSTANCE PageAllocator WITH Blocks <- {Usable(p) : p \in Pools}

\* find_set_bitmap() and set_multi_bitmap() implement it: a request gets only
\* pages in a row of one pool that nobody owns, a return gives up only them.
PoolsAllocate == Allocator!Spec
=============================================================================
