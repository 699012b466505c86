------------------------------ MODULE LevelHash ------------------------------
(***************************************************************************)
(* Level hashing (oslab/level_hashing/level_hashing.c).                    *)
(*                                                                         *)
(* Two arrays of buckets, the top level (0) and, with half its buckets,    *)
(* the bottom level (1).  A key has two buckets in each level.  A new item *)
(* goes to the first free slot of the four, else another item is moved out *)
(* of the way; level_expand() puts a level on top and rehashes the bottom  *)
(* one, level_shrink() puts one below and rehashes the top one.            *)
(*                                                                         *)
(* The program is sequential: an operation is one step, but for the two    *)
(* resizing ones, where every item that is rehashed is a step.  The old    *)
(* and the new level change places at the start of level_expand(), which   *)
(* nothing but its own loop can see.  The contents of keys and values do   *)
(* not matter, the hash functions are constants.                           *)
(* The levels are not zeroed when they are allocated (posix_memalign):     *)
(* after a level was freed the allocator's marks may lie over the tokens   *)
(* of the first bucket of the next one, FreshTokens says how they read.    *)
(***************************************************************************)
EXTENDS Integers, FiniteSets, SequencesExt

CONSTANTS
  Keys, Values,
  Items,          \* the pairs of a key and a value that callers store
  NoValue,        \* the answer NULL of a query
  JunkKey,        \* the bytes of a slot nobody has written
  F_HASH, S_HASH, \* the two hash values of every key
  ASSOC_NUM,      \* slots of a bucket
  InitLevelSize,  \* argument of level_init()
  MinLevelSize,   \* bound: callers do not shrink below (a level of size 1 divides by 0)
  MaxLevelSize,   \* bound: callers do not expand above
  FreshTokens,    \* tokens of reused memory: 0 (empty), 2 (neither empty nor in use)
  WORD            \* number of values of a uint64_t

ASSUME KeysAssumption ==
  /\ NoValue \notin Values
  /\ JunkKey \notin Keys /\ Items \subseteq Keys \X Values
  /\ {F_HASH, S_HASH} \subseteq [Keys \cup {JunkKey} -> Nat]
ASSUME SizesAssumption ==
  /\ {ASSOC_NUM, InitLevelSize, MinLevelSize, MaxLevelSize, WORD} \subseteq Nat
  /\ ASSOC_NUM > 0 /\ MinLevelSize > 1 /\ InitLevelSize \in MinLevelSize .. MaxLevelSize
ASSUME FreshAssumption == 0 \in FreshTokens /\ FreshTokens \subseteq {0, 2}

PowerOf2[n \in Nat] == IF n = 0 THEN 1 ELSE 2 * PowerOf2[n - 1]

\* The slots of a level can be counted.
ASSUME WordAssumption == \A n \in 0 .. MaxLevelSize : ASSOC_NUM * PowerOf2[n] < WORD

VARIABLES
  level,   \* the table: buckets, level_item_num, level_size, level_expand_time,
           \* resize_state
  call,    \* the last call of the program and its result
  exited   \* whether the program has called exit(1)

vars == <<level, call, exited>>

Slots == 1 .. ASSOC_NUM
Empty == [token |-> 0, key |-> JunkKey, value |-> NoValue]
Item(k, v) == [token |-> 1, key |-> k, value |-> v]

\* Buckets of a level that nobody has written; bound: marks only over the first bucket.
FreshBuckets(n) ==
  {[b \in 0 .. n - 1 |->
      [j \in Slots |-> IF b = 0 THEN [Empty EXCEPT !.token = tokens[j]] ELSE Empty]] :
    tokens \in [Slots -> FreshTokens]}

-----------------------------------------------------------------------------
(* Where a key may be.  A place is a level, a bucket and a slot.  Level 2  *)
(* is the one that is being emptied: the old bottom level while the table  *)
(* expands, interimBuckets while it shrinks.                               *)

Capacity(t, i) ==
  CASE i \in 0 .. 1 -> PowerOf2[t.level_size - i]
    [] i = 2 -> CASE t.resize_state = 0 -> 0
                  [] t.resize_state = 1 -> PowerOf2[t.level_size - 2]
                  [] t.resize_state = 2 -> PowerOf2[t.level_size + 1]

F_IDX(k, capacity) == F_HASH[k] % (capacity \div 2)
S_IDX(k, capacity) == (S_HASH[k] % (capacity \div 2)) + (capacity \div 2)

IdxOf(t, k, i) == <<F_IDX(k, Capacity(t, i)), S_IDX(k, Capacity(t, i))>>

At(t, place) == t.buckets[place[1]][place[2]][place[3]]

\* The places of k in level i in the order of the insert loops: both buckets slot by slot.
InsertPlaces(t, k, i) ==
  [n \in 1 .. 2 * ASSOC_NUM |->
    <<i, IdxOf(t, k, i)[1 + ((n - 1) % 2)], 1 + ((n - 1) \div 2)>>]

\* The places of k in level i in the order of the search loops: bucket by bucket.
SearchPlaces(t, k, i) ==
  [n \in 1 .. 2 * ASSOC_NUM |->
    <<i, IdxOf(t, k, i)[1 + ((n - 1) \div ASSOC_NUM)], 1 + ((n - 1) % ASSOC_NUM)>>]

\* The first element of seq that is good, as a set that may be empty.
FirstIn(seq, good) ==
  {seq[n] : n \in {n \in DOMAIN seq : seq[n] \in good /\ \A m \in 1 .. n - 1 : seq[m] \notin good}}

-----------------------------------------------------------------------------
(* level_static_query and level_dynamic_query.                             *)

\* The place where a search through the places finds the key.
Find(t, places, k) ==
  FirstIn(places, {p \in ToSet(places) : At(t, p).token = 1 /\ At(t, p).key = k})

StaticPlaces(t, k) == SearchPlaces(t, k, 0) \o SearchPlaces(t, k, 1)

\* Variant: the buckets are not recomputed for the second level.
DynamicPlacesStale(t, k) ==
  IF t.level_item_num[0] > t.level_item_num[1]
  THEN StaticPlaces(t, k)
  ELSE SearchPlaces(t, k, 1)
         \o [n \in 1 .. 2 * ASSOC_NUM |-> <<0, SearchPlaces(t, k, 1)[n][2], SearchPlaces(t, k, 1)[n][3]>>]

\* The level with more items comes first.
DynamicPlaces(t, k) ==
  IF t.level_item_num[0] > t.level_item_num[1]
  THEN StaticPlaces(t, k)
  ELSE SearchPlaces(t, k, 1) \o SearchPlaces(t, k, 0)

Answer(t, found) == IF found = {} THEN NoValue ELSE At(t, CHOOSE p \in found : TRUE).value

StaticQuery(t, k) == Answer(t, Find(t, StaticPlaces(t, k), k))
DynamicQuery(t, k) == Answer(t, Find(t, DynamicPlaces(t, k), k))

-----------------------------------------------------------------------------
(* level_insert.  A way to insert puts what lies at from at the place to,  *)
(* which must be free, and the new item at from; where nothing is moved,   *)
(* from is to.  The first possible way is taken, none changes the table    *)
(* before it is found possible.                                            *)

Direct(t, k, i) == [n \in 1 .. 2 * ASSOC_NUM |->
  [from |-> InsertPlaces(t, k, i)[n], to |-> InsertPlaces(t, k, i)[n]]]

\* try_movement: to the other bucket of the item in the same level.
OtherIdx(t, k, i, b) == IF IdxOf(t, k, i)[1] = b THEN IdxOf(t, k, i)[2] ELSE IdxOf(t, k, i)[1]

TryMovement(t, i, b) == [n \in 1 .. ASSOC_NUM * ASSOC_NUM |->
  LET from == <<i, b, 1 + ((n - 1) \div ASSOC_NUM)>>
  IN [from |-> from,
      to |-> <<i, OtherIdx(t, At(t, from).key, i, b), 1 + ((n - 1) % ASSOC_NUM)>>]]

\* Variant: the buckets of the bottom level are taken for those of the top level.
BottomToTopSameIdx(t, b) == [n \in 1 .. ASSOC_NUM * 2 * ASSOC_NUM |->
  LET from == <<1, b, 1 + ((n - 1) \div (2 * ASSOC_NUM))>>
      to == InsertPlaces(t, At(t, from).key, 1)[1 + ((n - 1) % (2 * ASSOC_NUM))]
  IN [from |-> from, to |-> <<0, to[2], to[3]>>]]

\* b2t_movement: from the bottom level to a bucket of the item in the top level.
BottomToTop(t, b) == [n \in 1 .. ASSOC_NUM * 2 * ASSOC_NUM |->
  LET from == <<1, b, 1 + ((n - 1) \div (2 * ASSOC_NUM))>>
  IN [from |-> from,
      to |-> InsertPlaces(t, At(t, from).key, 0)[1 + ((n - 1) % (2 * ASSOC_NUM))]]]

WaysToInsert(t, k) ==
  Direct(t, k, 0) \o Direct(t, k, 1)
    \o TryMovement(t, 0, IdxOf(t, k, 0)[1]) \o TryMovement(t, 0, IdxOf(t, k, 0)[2])
    \o TryMovement(t, 1, IdxOf(t, k, 1)[1]) \o TryMovement(t, 1, IdxOf(t, k, 1)[2])
    \o IF t.level_expand_time > 0
       THEN BottomToTop(t, IdxOf(t, k, 1)[1]) \o BottomToTop(t, IdxOf(t, k, 1)[2])
       ELSE <<>>

Put(t, place, item) == [t EXCEPT !.buckets[place[1]][place[2]][place[3]] = item]
Count(t, i, d) == [t EXCEPT !.level_item_num[i] = (@ + d) % WORD]

\* The table after the way is gone; the level that gains an item is that of to.
Go(t, way, item) ==
  LET moved == Put(t, way.to, [At(t, way.from) EXCEPT !.token = 1])
  IN Count(Put(moved, way.from, item), way.to[1], 1)

\* The table after level_insert() of the item, a set that is empty when it returns 1.
Inserted(t, item) ==
  LET ways == WaysToInsert(t, item.key)
  IN {Go(t, way, item) : way \in FirstIn(ways, {w \in ToSet(ways) : At(t, w.to).token = 0})}

-----------------------------------------------------------------------------
(* level_expand and level_shrink.                                          *)

\* The table with the new level on top, that with the new level at the bottom.
Expanding(t, new) ==
  [buckets |-> [i \in 0 .. 2 |-> IF i = 0 THEN new ELSE t.buckets[i - 1]],
   level_item_num |-> [i \in 0 .. 1 |-> IF i = 0 THEN 0 ELSE t.level_item_num[0]],
   level_size |-> t.level_size + 1,
   level_expand_time |-> (t.level_expand_time + 1) % 256,
   resize_state |-> 1]

Shrinking(t, new) ==
  [buckets |-> [i \in 0 .. 2 |-> CASE i = 0 -> t.buckets[1] [] i = 1 -> new [] i = 2 -> t.buckets[0]],
   level_item_num |-> [i \in 0 .. 1 |-> IF i = 0 THEN t.level_item_num[1] ELSE 0],
   level_size |-> t.level_size - 1,
   level_expand_time |-> t.level_expand_time,
   resize_state |-> 2]

\* The places of the level that is emptied, bucket by bucket.
OldPlaces(t) ==
  [n \in 1 .. Capacity(t, 2) * ASSOC_NUM |-> <<2, (n - 1) \div ASSOC_NUM, 1 + ((n - 1) % ASSOC_NUM)>>]

\* The place of the item that is rehashed next.
NextItem(t) == FirstIn(OldPlaces(t), {p \in ToSet(OldPlaces(t)) : At(t, p).token = 1})

\* Variant: an item that finds no place is passed over.
RaisedOrDropped(t, item) ==
  LET found == FirstIn(InsertPlaces(t, item.key, 0),
                       {p \in ToSet(InsertPlaces(t, item.key, 0)) : At(t, p).token = 0})
  IN IF found = {} THEN {t} ELSE {Count(Put(t, p, item), 0, 1) : p \in found}

\* The table after an item of the old bottom level went to the new top level.
Raised(t, item) ==
  {Count(Put(t, p, item), 0, 1) :
    p \in FirstIn(InsertPlaces(t, item.key, 0),
                  {p \in ToSet(InsertPlaces(t, item.key, 0)) : At(t, p).token = 0})}

\* The table after an item of the emptied level was put elsewhere; empty when it
\* finds no place.
Rehashed(t, item) == IF t.resize_state = 1 THEN Raised(t, item) ELSE Inserted(t, item)

\* level_shrink() gives up above four tenths of the slots.
TooManyToShrink(t) ==
  10 * ((t.level_item_num[0] + t.level_item_num[1]) % WORD)
    > 4 * ASSOC_NUM * (Capacity(t, 0) + Capacity(t, 1))

-----------------------------------------------------------------------------
(* The operations.                                                         *)

\* level_init: the first memory of the process is zero.
Init ==
  /\ level = [buckets |-> [i \in 0 .. 2 |->
                            IF i = 2 THEN <<>>
                            ELSE [b \in 0 .. PowerOf2[InitLevelSize - i] - 1 |->
                                   [j \in Slots |-> Empty]]],
              level_item_num |-> [i \in 0 .. 1 |-> 0],
              level_size |-> InitLevelSize,
              level_expand_time |-> 0,
              resize_state |-> 0]
  /\ call = <<"init">>
  /\ exited = FALSE

Returns(op, k, result) == call' = <<op, k, result>> /\ UNCHANGED exited

\* Callers insert keys that are not in the table: level_insert() does not look.
Insert(k, v) ==
  /\ StaticQuery(level, k) = NoValue
  /\ \/ level' \in Inserted(level, Item(k, v)) /\ Returns("insert", k, 0)
     \/ Inserted(level, Item(k, v)) = {} /\ Returns("insert", k, 1) /\ UNCHANGED level

\* level_update and level_delete search like the static query.  What a slot held whose
\* token is cleared is never read: items are moved only out of full buckets.
Update(k, v) ==
  LET found == Find(level, StaticPlaces(level, k), k)
  IN \/ \E p \in found : level' = Put(level, p, Item(k, v)) /\ Returns("update", k, 0)
     \/ found = {} /\ Returns("update", k, 1) /\ UNCHANGED level

Delete(k) ==
  LET found == Find(level, StaticPlaces(level, k), k)
  IN \/ \E p \in found :
          /\ level' = Count(Put(level, p, Empty), p[1], -1)
          /\ Returns("delete", k, 0)
     \/ found = {} /\ Returns("delete", k, 1) /\ UNCHANGED level

Exit == exited' = TRUE /\ call' = <<"exit">> /\ UNCHANGED level

Expand ==
  /\ level.level_size < MaxLevelSize
  /\ \E new \in FreshBuckets(2 * Capacity(level, 0)) : level' = Expanding(level, new)
  /\ call' = <<"expand">>
  /\ UNCHANGED exited

Shrink ==
  /\ level.level_size > MinLevelSize
  /\ \/ TooManyToShrink(level) /\ Exit
     \/ /\ ~TooManyToShrink(level)
        /\ \E new \in FreshBuckets(Capacity(level, 1) \div 2) : level' = Shrinking(level, new)
        /\ call' = <<"shrink">>
        /\ UNCHANGED exited

\* The next item of the emptied level is rehashed; without a place for it the
\* program exits.
Rehash ==
  \E p \in NextItem(level) :
    \/ /\ \E t \in Rehashed(level, At(level, p)) : level' = Put(t, p, Empty)
       /\ UNCHANGED <<call, exited>>
    \/ Rehashed(level, At(level, p)) = {} /\ Exit

\* The emptied level is freed.
Resized ==
  /\ NextItem(level) = {}
  /\ level' = [level EXCEPT !.buckets[2] = <<>>,
                            !.level_expand_time = IF level.resize_state = 2 THEN 0 ELSE @,
                            !.resize_state = 0]
  /\ UNCHANGED <<call, exited>>

Operation ==
  \/ \E item \in Items : Insert(item[1], item[2]) \/ Update(item[1], item[2])
  \/ \E k \in Keys : Delete(k)
  \/ Expand
  \/ Shrink

Next ==
  /\ ~exited
  /\ \/ level.resize_state = 0 /\ Operation
     \/ level.resize_state # 0 /\ (Rehash \/ Resized)

Spec == Init /\ [][Next]_vars

-----------------------------------------------------------------------------
(* Properties.                                                             *)

\* The slots in use of an array of buckets, and those of all levels.
UsedIn(buckets) ==
  {x \in (DOMAIN buckets) \X Slots : buckets[x[1]][x[2]].token = 1}

Used(t) == UNION {{<<i, x[1], x[2]>> : x \in UsedIn(t.buckets[i])} : i \in 0 .. 2}

Unique(t) == \A p, q \in Used(t) :
  At(t, p).key = At(t, q).key => p = q \/ At(t, p).key = JunkKey

Placed(t) == \A p \in Used(t) :
  At(t, p).key = JunkKey \/ p[1] = 2 \/ p[2] \in ToSet(IdxOf(t, At(t, p).key, p[1]))

Counted(t) == (\A p \in Used(t) : At(t, p).key # JunkKey) =>
  \A i \in 0 .. 1 : t.level_item_num[i] = Cardinality(UsedIn(t.buckets[i]))

\* No movement and no step of a resizing duplicates an item, loses it, or leaves it in a
\* bucket where searches do not look, whatever the tokens of fresh memory.  Unless a
\* slot of fresh memory was taken for an item, level_item_num counts the items of its
\* level: the guard of level_shrink() and the search order rest on it.
StoredOnce == Unique(level) /\ Placed(level) /\ Counted(level)

StoredItems(t) == {<<At(t, p).key, At(t, p).value>> : p \in Used(t)} \ {<<JunkKey, NoValue>>}

\* Both search schemes find exactly what is stored, whatever order the counts give.
QueriesFind == level.resize_state = 0 =>
  \A k \in Keys : \A answer \in {StaticQuery(level, k), DynamicQuery(level, k)} :
    IF answer = NoValue THEN StoredItems(level) \cap ({k} \X Values) = {}
    ELSE <<k, answer>> \in StoredItems(level)

\* The table is a dictionary: what was inserted stays until it is deleted, through every
\* movement and every step of a resizing, and every return code is the right one.
Contents == INSTANCE Dictionary WITH dict <- StoredItems(level)
IsDictionary == Contents!Spec
=============================================================================
