---------------------------- MODULE PageAllocator ----------------------------
(***************************************************************************)
(* What the callers of SSUOS_P6's palloc.c rely on: a request gets pages   *)
(* in a row that nobody owns, from one of several blocks of memory, and    *)
(* owned pages can be given back in any portions.                          *)
(***************************************************************************)
EXTENDS Integers

CONSTANTS
  Holders,   \* who can own pages
  Blocks,    \* sets of pages, one for each pool
  MaxCount   \* bound: pages of one request or return

VARIABLE held  \* per holder, the pages it owns

Owned == UNION {held[h] : h \in Holders}

Init == held = [h \in Holders |-> {}]

\* A request of count pages.
Get(h, count) ==
  /\ held[h] = {}
  /\ \E block \in Blocks : \E first \in block :
       LET pages == first .. first + count - 1
       IN  /\ pages \subseteq block \ Owned
           /\ held' = [held EXCEPT ![h] = pages]

\* A return of any owned pages.
Free ==
  \E pages \in SUBSET Owned :
    held' = [h \in Holders |-> held[h] \ pages]

Next == Free \/ \E h \in Holders, count \in 1 .. MaxCount : Get(h, count)

Spec == Init /\ [][Next]_held
=============================================================================
