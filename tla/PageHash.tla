------------------------------ MODULE PageHash ------------------------------
(***************************************************************************)
(* The page allocator of the ssuos kernel (mem/palloc.c) and its hash      *)
(* table of allocated pages (mem/hashing.c).                               *)
(*                                                                         *)
(* Pages come from the first run of exactly the requested length in a list *)
(* of freed runs, else from the end of the heap.  Every request enters its *)
(* first page into the hash table, every return deletes the page returned. *)
(* A page is named by its index in the heap, the first two are those of    *)
(* the page directory and table of process 0.                              *)
(*                                                                         *)
(* Requests and returns are single steps: processes are created with       *)
(* interrupts off and palloc_pf_test() runs before there are others.       *)
(***************************************************************************)
EXTENDS Integers, FiniteSets, SequencesExt

CONSTANTS
  SLOT_NUM,    \* slots of a bucket
  CAPACITY,    \* buckets of the top level
  PAGE_SIZE,
  VKERNEL_HEAP_START,  \* address of the heap
  MaxPages,    \* bound: pages of the heap
  MaxCount,    \* bound: pages of one request
  Returns      \* the ways of callers to return pages: "exact", "joint", "split", "stack"

ASSUME SizesAssumption ==
  /\ {SLOT_NUM, CAPACITY, PAGE_SIZE, MaxPages, MaxCount} \subseteq Nat \ {0}
  /\ CAPACITY \div 2 > 1 /\ MaxPages > 1 /\ VKERNEL_HEAP_START \in Nat
ASSUME ReturnsAssumption == Returns \subseteq {"exact", "joint", "split", "stack"}

VARIABLES
  page_alloc_index,  \* pages handed out from the end of the heap so far
  freelist,          \* the returned runs: index of the first page and nalloc
  hash_table,        \* level, bucket, slot -> token and key
  held,              \* the runs the callers own, not known to the kernel
  parts              \* those of them that are the rest of a run returned in parts

vars == <<page_alloc_index, freelist, hash_table, held, parts>>

Levels == {"top", "bottom"}
Buckets == 0 .. CAPACITY - 1   \* the upper half only in the top level
Slots == 1 .. SLOT_NUM

Address(page) == VKERNEL_HEAP_START + page * PAGE_SIZE

Pages(run) == run[1] .. run[1] + run[2] - 1

-----------------------------------------------------------------------------
(* Where the entry of a page may be.  addr * 7 exceeds 32 bits by the same *)
(* amount for all addresses of the heap, which only renames buckets.       *)

F_IDX(addr) == addr % ((CAPACITY \div 2) - 1)
S_IDX(addr) == ((addr * 7) % ((CAPACITY \div 2) - 1)) + (CAPACITY \div 2)

\* The bottom level has one bucket for two of the top level.
Bucket(lev, idx) == IF lev = "top" THEN idx ELSE idx \div 2

\* The places of an address in one level in the order of both loops.
PlacesIn(lev, addr) ==
  [n \in 1 .. 2 * SLOT_NUM |->
    <<lev, Bucket(lev, IF n % 2 = 1 THEN F_IDX(addr) ELSE S_IDX(addr)), (n + 1) \div 2>>]

Places(addr) == PlacesIn("top", addr) \o PlacesIn("bottom", addr)

At(place) == hash_table[place[1]][place[2]][place[3]]

\* The first place with the property, as a set that may be empty.
FirstPlace(places, Test(_)) ==
  LET n == SelectInSeq(places, Test) IN IF n = 0 THEN {} ELSE {places[n]}

\* The table with another slot at the places of the set, which has at most one.
Replaced(places, slot) ==
  IF places = {} THEN hash_table
  ELSE LET p == CHOOSE q \in places : TRUE
       IN [hash_table EXCEPT ![p[1]][p[2]][p[3]] = slot]

-----------------------------------------------------------------------------
(* insert_hash_table and delete_hash_table.                                *)

\* When all places of a page are full the code looks for room in the other top
\* bucket of each entry of its first one.  Its entries have both buckets in common
\* with the page, so there is none, and the counters keep the code out of the stages
\* that would follow: the page is not entered.
MovePlaces(addr) ==
  [n \in 1 .. SLOT_NUM * SLOT_NUM |->
    LET owner == At(<<"top", F_IDX(addr), ((n - 1) \div SLOT_NUM) + 1>>).key
    IN  <<"top", S_IDX(Address(owner)), ((n - 1) % SLOT_NUM) + 1>>]

insert_hash_table(addr, key) ==
  Replaced(FirstPlace(Places(addr) \o MovePlaces(addr), LAMBDA p : At(p).token = 0),
           [token |-> 1, key |-> key])

\* Variant: the bottom level is not searched.
ToDeleteInTop(addr, key) == FirstPlace(PlacesIn("top", addr), LAMBDA p : At(p).key = key)

\* The key decides alone, the token is not looked at, and the key stays.
ToDelete(addr, key) == FirstPlace(Places(addr), LAMBDA p : At(p).key = key)

delete_hash_table(addr, key) == Replaced(ToDelete(addr, key), [token |-> 0, key |-> key])

-----------------------------------------------------------------------------
(* The operations.                                                         *)

\* init_palloc, init_paging with two requests, and only then init_hash_table.
Init ==
  /\ page_alloc_index = 2
  /\ freelist = <<>>
  /\ hash_table = [lev \in Levels |-> [b \in Buckets |-> [j \in Slots |-> [token |-> 0, key |-> 0]]]]
  /\ held = {} /\ parts = {}

\* Variant: the list ends where the run was taken out.
WithoutCut(n) == SubSeq(freelist, 1, n - 1)

\* The list after its n-th run was unlinked.
Without(n) == RemoveAt(freelist, n)

\* palloc_get_multiple: the first returned run that has the length ...
GetReturned(count, n) ==
  /\ n = SelectInSeq(freelist, LAMBDA run : run[2] = count)
  /\ freelist' = Without(n)
  /\ hash_table' = insert_hash_table(Address(freelist[n][1]), freelist[n][1])
  /\ held' = held \cup {freelist[n]}
  /\ UNCHANGED <<page_alloc_index, parts>>

\* ... or the end of the heap, whatever longer runs there are.
GetNew(count) ==
  /\ \A n \in DOMAIN freelist : freelist[n][2] # count
  /\ page_alloc_index + count <= MaxPages
  /\ page_alloc_index' = page_alloc_index + count
  /\ hash_table' = insert_hash_table(Address(page_alloc_index), page_alloc_index)
  /\ held' = held \cup {<<page_alloc_index, count>>}
  /\ UNCHANGED <<freelist, parts>>

\* palloc_free_multiple: the page of the address goes to the end of the list.
Free(addr, count) ==
  LET page == (addr - VKERNEL_HEAP_START) \div PAGE_SIZE
  IN  /\ hash_table' = delete_hash_table(addr, page)
      /\ freelist' = Append(freelist, <<page, count>>)
      /\ UNCHANGED page_alloc_index

\* A run is returned as it was requested.
FreeExact(run) ==
  /\ "exact" \in Returns
  /\ Free(Address(run[1]), run[2])
  /\ held' = held \ {run} /\ parts' = parts \ {run}

\* Two requests are returned by one call, as palloc_pf_test() does.
FreeJoint(run, next) ==
  /\ "joint" \in Returns
  /\ next[1] = run[1] + run[2]
  /\ Free(Address(run[1]), run[2] + next[2])
  /\ held' = held \ {run, next} /\ parts' = parts \ {run, next}

\* The pages of a request are returned by calls of their own, as at its end.
FreeFirst(run) ==
  /\ "split" \in Returns
  /\ run[2] > 1
  /\ Free(Address(run[1]), 1)
  /\ LET rest == <<run[1] + 1, run[2] - 1>>
     IN held' = (held \ {run}) \cup {rest} /\ parts' = (parts \ {run}) \cup {rest}

\* proc_free() returns the stack page of a process by its last stack pointer.
FreeStack(run, offset) ==
  /\ "stack" \in Returns
  /\ run[2] = 1
  /\ Free(Address(run[1]) + offset, 1)
  /\ held' = held \ {run} /\ parts' = parts \ {run}

Next ==
  \/ \E count \in 1 .. MaxCount : GetNew(count) \/ \E n \in DOMAIN freelist : GetReturned(count, n)
  \/ \E run \in held :
       \/ FreeExact(run)
       \/ FreeFirst(run)
       \/ \E next \in held : FreeJoint(run, next)
       \/ \E offset \in 1 .. PAGE_SIZE - 1 : FreeStack(run, offset)

Spec == Init /\ [][Next]_vars

-----------------------------------------------------------------------------
(* Properties.                                                             *)

\* Over any sequence of requests and returns every page that was taken from the heap
\* is in exactly one run, owned or returned: none is lost from the list, none is in it
\* twice, and none is handed out twice.
PagesPartitioned ==
  LET runs == held \cup ToSet(freelist)
  IN  /\ UNION {Pages(run) : run \in runs} = 2 .. page_alloc_index - 1
      /\ Cardinality(held) + Len(freelist) = Cardinality(runs)
      /\ \A r, s \in runs : r # s => Pages(r) \cap Pages(s) = {}

Live(key) == {p \in Levels \X Buckets \X Slots : At(p).token = 1 /\ At(p).key = key}

\* No page has two entries, every run that is owned as it was requested has the one of
\* its first page, and returning a run will delete that entry and no other, although
\* deleting goes by keys that former entries leave behind.
RecordedOnce ==
  /\ \A page \in 0 .. MaxPages : Cardinality(Live(page)) <= 1
  /\ \A run \in held : LET live == Live(run[1]) IN
       /\ live \subseteq ToDelete(Address(run[1]), run[1])
       /\ run \in parts \/ live # {}
=============================================================================
