---------------------------- MODULE SsuFsProofs ----------------------------
(***************************************************************************)
(* Proofs about SsuFs for disks, blocks and inode tables of every size and *)
(* any file names: wherever power fails no block has two owners, sizes     *)
(* count blocks that are there, and a call that has returned is on the     *)
(* disk.                                                                   *)
(*                                                                         *)
(* A mount trusts the disk, so the disk must be right at every moment;     *)
(* that the blocks written next keep it right depends on the memory being  *)
(* right and ahead of it, and on the requests under way.  IInv says so.    *)
(*                                                                         *)
(* The second half is about what is in the files and in the root           *)
(* directory: wherever power fails, the directory on the disk lists each   *)
(* name once with an inode of its own, loses no entry, and every file      *)
(* shows what was written to it.  SInv follows the cells in the blocks     *)
(* that IInv hands out, on the disk and through a write under way.         *)
(***************************************************************************)
EXTENDS SsuFs, FiniteSetTheorems, SequenceTheorems, TLAPS

\* Writes do not go over the end of a block.
Within == MayCross = FALSE

Request == [ino : Inodes, offset : Nat, len : Nat \ {0}, cell : CellType]

\* The blocks of the inodes in a map are in use and belong to one inode, once.
Owned(map, blocks, table) ==
  /\ \A i \in map :
       /\ Used(table, i) \subseteq blocks
       /\ \A k, l \in 0 .. table[i].nlink - 1 :
            table[i].direct[k] = table[i].direct[l] => k = l
  /\ \A i, j \in map : i # j => Used(table, i) \cap Used(table, j) = {}

SizesOK(map, table) == \A i \in map : table[i].size <= table[i].nlink * BLOCK

\* Entries of the root still to be written.
Missing == IF pending # <<>> /\ w.ino = INO_ROOTDIR THEN Len(pending) ELSE 0

\* The disk alone.
DiskOK ==
  /\ Owned(d_imap, d_bmap, d_inode)
  /\ SizesOK(d_imap, d_inode)
  /\ INO_ROOTDIR \notin d_imap => d_imap = {}
  /\ INO_ROOTDIR \in d_imap => d_inode[INO_ROOTDIR].size <= Cardinality(d_imap) + 1
  /\ \A b \in Blocks, c \in Cells :
       d_data[b][c].name \in Names => d_data[b][c].ino \in d_imap \ {INO_ROOTDIR}

\* The memory of a running system.
MemoryOK ==
  /\ INO_ROOTDIR \in imap
  /\ Owned(imap, bmap, inode_tbl)
  /\ SizesOK(imap, inode_tbl)
  /\ inode_tbl[INO_ROOTDIR].size + Missing <= Cardinality(imap) + 1

\* An inode whose block has been allocated and not yet written.
InFlight(i) == pc \in {"data", "inode"} /\ i = w.ino

\* The blocks of an inode in one table are the first ones it has in another.
NoMore(i, older, newer) ==
  /\ older[i].nlink <= newer[i].nlink
  /\ \A k \in 0 .. older[i].nlink - 1 : older[i].direct[k] = newer[i].direct[k]

\* The disk and the memory.
Behind ==
  /\ d_imap \subseteq imap
  /\ pc # "bitmap" => d_imap = imap
  /\ d_bmap = bmap
  /\ \A i \in imap :
       /\ NoMore(i, d_inode, inode_tbl)
       /\ d_inode[i].size <= d_inode[i].nlink * BLOCK
       /\ \/ InFlight(i)
          \/ d_inode[i] = inode_tbl[i]
          \/ inode_tbl[i] = [d_inode[i] EXCEPT !.size = 0]
  /\ d_inode[INO_ROOTDIR].size <= inode_tbl[INO_ROOTDIR].size

\* The request under way, and the second entry of a new root.
RequestsOK ==
  /\ pending # <<>> =>
       /\ w.ino \in imap
       /\ w.offset <= inode_tbl[w.ino].size
       /\ w.offset + w.len <= NUM_DIRECT * BLOCK
       /\ res_off + w.len <= BLOCK
       /\ w.cell.name \in Names => w.cell.ino \in imap \ {INO_ROOTDIR}
       /\ w.ino = INO_ROOTDIR => w.len = 1
       /\ pc \in {"data", "inode"} => blkoff < inode_tbl[w.ino].nlink
  /\ Len(pending) = 2 =>
       /\ w.ino = INO_ROOTDIR
       /\ pending[2] = NewEntry(INO_ROOTDIR, w.offset + 1, Entry(".", INO_ROOTDIR))
       /\ w.offset + 2 <= NUM_DIRECT * BLOCK

Running == MemoryOK /\ Behind /\ RequestsOK

IInv ==
  /\ TypeOK
  /\ pending \in Seq(Request)
  /\ pc \in {"off", "idle"} <=> pending = <<>>
  /\ DiskOK
  /\ pc # "off" => Running

-----------------------------------------------------------------------------
(* Blocks and offsets.                                                     *)

\* Division, for the provers.
LEMMA DivMod ==
  ASSUME NEW o \in Nat, NEW B \in Nat \ {0}
  PROVE  /\ o \div B \in Nat /\ o % B \in 0 .. B - 1
         /\ o = B * (o \div B) + (o % B)
OBVIOUS

\* m blocks hold no more than n.
LEMMA MoreBlocks ==
  ASSUME NEW B \in Nat, NEW m \in Nat, NEW n \in Nat, m <= n
  PROVE  m * B <= n * B
<1>1. PICK d \in Nat : n = m + d
  <2>1. n - m \in Nat /\ n = m + (n - m)
    OBVIOUS
  <2> QED BY <2>1
<1>2. n * B = m * B + d * B /\ d * B \in Nat /\ m * B \in Nat
  BY <1>1
<1> QED BY <1>2

\* An offset within n blocks lies in one of them.
LEMMA DivLess ==
  ASSUME NEW o \in Nat, NEW B \in Nat \ {0}, NEW n \in Nat, o < n * B
  PROVE  o \div B < n
<1> DEFINE q == o \div B
<1>1. q \in Nat /\ o % B \in Nat /\ o = q * B + (o % B)
  BY DivMod
<1> HIDE DEF q
<1>2. ASSUME n <= q PROVE FALSE
  <2>1. n * B <= q * B
    BY <1>1, <1>2, MoreBlocks
  <2>2. n * B \in Nat /\ q * B \in Nat
    BY <1>1
  <2> QED BY <1>1, <2>1, <2>2
<1> QED BY <1>1, <1>2 DEF q

\* A write that needs no block goes to a block in use.
LEMMA NoBlockNeeded ==
  ASSUME NEW o \in Nat, NEW B \in Nat \ {0}, NEW n \in Nat,
         o <= n * B, ~(o % B = 0 /\ o \div B >= n)
  PROVE  o \div B < n
<1> DEFINE q == o \div B
<1>1. q \in Nat /\ o % B \in Nat /\ o = q * B + (o % B)
  BY DivMod
<1> HIDE DEF q
<1>2. ASSUME n <= q PROVE FALSE
  <2>1. n * B <= q * B
    BY <1>1, <1>2, MoreBlocks
  <2>2. n * B \in Nat /\ q * B \in Nat
    BY <1>1
  <2>3. o % B = 0
    BY <1>1, <2>1, <2>2
  <2> QED BY <1>2, <2>3 DEF q
<1> QED BY <1>1, <1>2 DEF q

\* A write that needs a block takes the one after those in use.
LEMMA BlockNeeded ==
  ASSUME NEW o \in Nat, NEW B \in Nat \ {0}, NEW n \in Nat,
         o <= n * B, o % B = 0, o \div B >= n
  PROVE  o \div B = n
<1> DEFINE q == o \div B
<1>1. q \in Nat /\ o = q * B
  BY DivMod
<1> HIDE DEF q
<1>2. ASSUME n < q PROVE FALSE
  <2>1. (n + 1) * B <= q * B
    BY <1>1, <1>2, MoreBlocks
  <2>2. n * B \in Nat /\ q * B \in Nat /\ (n + 1) * B = n * B + B
    BY <1>1
  <2> QED BY <1>1, <2>1, <2>2
<1> QED BY <1>1, <1>2 DEF q

\* A write within a block in use ends within the blocks in use.
LEMMA EndsInBlocks ==
  ASSUME NEW o \in Nat, NEW B \in Nat \ {0}, NEW n \in Nat, NEW len \in Nat,
         o \div B < n, (o % B) + len <= B
  PROVE  o + len <= n * B
<1> DEFINE q == o \div B
<1>1. q \in Nat /\ o % B \in Nat /\ o = q * B + (o % B)
  BY DivMod
<1>2. q < n
  OBVIOUS
<1> HIDE DEF q
<1>3. (q + 1) * B <= n * B
  BY <1>1, <1>2, MoreBlocks
<1>4. n * B \in Nat /\ q * B \in Nat /\ (q + 1) * B = q * B + B
  BY <1>1
<1> QED BY <1>1, <1>3, <1>4

-----------------------------------------------------------------------------
(* Ownership of blocks.                                                    *)

Tables == [Inodes -> InodeType]

\* A table is well typed; the form the steps below use.
LEMMA TableType ==
  ASSUME NEW table \in Tables, NEW i \in Inodes
  PROVE  /\ table[i].size \in Nat /\ table[i].size <= NUM_DIRECT * BLOCK
         /\ table[i].nlink \in Nat /\ table[i].nlink <= NUM_DIRECT
         /\ table[i].direct \in [0 .. NUM_DIRECT - 1 -> Blocks]
<1>1. NUM_DIRECT \in Nat /\ NUM_DIRECT * BLOCK \in Nat
  BY SizesAssumption
<1> QED BY <1>1 DEF Tables, InodeType

\* A table whose inodes name no more of the same blocks has owners as well.
LEMMA OwnedBehind ==
  ASSUME NEW blocks, NEW map \in SUBSET Inodes, NEW table \in Tables, Owned(map, blocks, table),
         NEW map2 \in SUBSET map, NEW table2 \in Tables,
         \A i \in map2 : NoMore(i, table2, table)
  PROVE  Owned(map2, blocks, table2)
<1>1. ASSUME NEW i \in map2 PROVE Used(table2, i) \subseteq Used(table, i)
  <2>1. table2[i].nlink \in Nat /\ table[i].nlink \in Nat
    BY TableType
  <2> QED BY <2>1 DEF Used, NoMore
<1>2. ASSUME NEW i \in map2, NEW k \in 0 .. table2[i].nlink - 1,
             NEW l \in 0 .. table2[i].nlink - 1,
             table2[i].direct[k] = table2[i].direct[l]
      PROVE  k = l
  <2>1. table2[i].nlink \in Nat /\ table[i].nlink \in Nat
    BY TableType
  <2>2. k \in 0 .. table[i].nlink - 1 /\ l \in 0 .. table[i].nlink - 1
    BY <2>1 DEF NoMore
  <2> QED BY <1>2, <2>2 DEF Owned, NoMore
<1>3. \A i \in map2 : Used(table, i) \subseteq blocks
  BY DEF Owned
<1>4. \A i, j \in map2 : i # j => Used(table, i) \cap Used(table, j) = {}
  BY DEF Owned
<1> QED BY <1>1, <1>2, <1>3, <1>4 DEF Owned

\* An inode whose blocks did not change.
LEMMA NoMoreSame ==
  ASSUME NEW i \in Inodes, NEW older \in Tables, NEW newer,
         newer[i].nlink = older[i].nlink, newer[i].direct = older[i].direct
  PROVE  NoMore(i, older, newer) /\ NoMore(i, newer, older)
BY TableType DEF NoMore

\* An inode without blocks may be added to a map.
LEMMA OwnedMore ==
  ASSUME NEW blocks, NEW map \in SUBSET Inodes, NEW table \in Tables, Owned(map, blocks, table),
         NEW i \in Inodes, NEW table2 \in Tables, table2[i].nlink = 0,
         \A j \in map \ {i} : /\ table2[j].nlink = table[j].nlink
                        /\ table2[j].direct = table[j].direct
  PROVE  Owned(map \cup {i}, blocks, table2)
<1>1. Used(table2, i) = {}
  BY DEF Used
<1>2. \A j \in map \ {i} : Used(table2, j) = Used(table, j)
  BY DEF Used
<1>3. ASSUME NEW j \in map \cup {i} PROVE Used(table2, j) \subseteq blocks
  BY <1>1, <1>2 DEF Owned
<1>4. ASSUME NEW j \in map \cup {i}, NEW k \in 0 .. table2[j].nlink - 1,
             NEW l \in 0 .. table2[j].nlink - 1,
             table2[j].direct[k] = table2[j].direct[l]
      PROVE  k = l
  <2>1. j # i
    BY <1>4
  <2> QED BY <1>4, <2>1 DEF Owned
<1>5. ASSUME NEW j \in map \cup {i}, NEW m \in map \cup {i}, j # m
      PROVE  Used(table2, j) \cap Used(table2, m) = {}
  <2>1. CASE j = i \/ m = i
    BY <1>1, <2>1
  <2>2. CASE j # i /\ m # i
    BY <1>2, <1>5, <2>2 DEF Owned
  <2> QED BY <2>1, <2>2
<1> QED BY <1>3, <1>4, <1>5 DEF Owned

\* A free block may be given to an inode.
LEMMA OwnedAlloc ==
  ASSUME NEW blocks, NEW map \in SUBSET Inodes, NEW table \in Tables, Owned(map, blocks, table),
         NEW i \in map, NEW b \in Blocks, b \notin blocks,
         NEW table2 \in Tables,
         table2[i].nlink = table[i].nlink + 1,
         table2[i].direct[table[i].nlink] = b,
         \A k \in 0 .. table[i].nlink - 1 : table2[i].direct[k] = table[i].direct[k],
         \A j \in map \ {i} : table2[j] = table[j]
  PROVE  Owned(map, blocks \cup {b}, table2)
<1> DEFINE n == table[i].nlink
<1>1. n \in Nat /\ table2[i].nlink = n + 1
  BY TableType
<1>2. Used(table, i) \subseteq blocks
  BY DEF Owned
<1>3. Used(table2, i) = Used(table, i) \cup {b}
  <2>1. 0 .. table2[i].nlink - 1 = (0 .. n - 1) \cup {n}
    BY <1>1
  <2> QED BY <2>1 DEF Used
<1>4. \A j \in map \ {i} : Used(table2, j) = Used(table, j) /\ b \notin Used(table2, j)
  BY DEF Used, Owned
<1>5. ASSUME NEW j \in map PROVE Used(table2, j) \subseteq blocks \cup {b}
  BY <1>3, <1>4 DEF Owned
<1>6. ASSUME NEW j \in map, NEW k \in 0 .. table2[j].nlink - 1,
             NEW l \in 0 .. table2[j].nlink - 1,
             table2[j].direct[k] = table2[j].direct[l]
      PROVE  k = l
  <2>1. CASE j # i
    BY <1>6, <2>1 DEF Owned
  <2>2. CASE j = i
    <3>1. \A m \in 0 .. n - 1 : table2[i].direct[m] = table[i].direct[m] /\ table[i].direct[m] # b
      BY <1>2 DEF Used
    <3>2. k \in (0 .. n - 1) \cup {n} /\ l \in (0 .. n - 1) \cup {n}
      BY <1>1, <2>2
    <3>3. CASE k = n /\ l \in 0 .. n - 1
      BY <1>6, <2>2, <3>1, <3>3
    <3>4. CASE l = n /\ k \in 0 .. n - 1
      BY <1>6, <2>2, <3>1, <3>4
    <3>5. CASE k \in 0 .. n - 1 /\ l \in 0 .. n - 1
      BY <1>6, <2>2, <3>1, <3>5 DEF Owned
    <3> QED BY <3>2, <3>3, <3>4, <3>5
  <2> QED BY <2>1, <2>2
<1>7. ASSUME NEW j \in map, NEW m \in map, j # m
      PROVE  Used(table2, j) \cap Used(table2, m) = {}
  <2>1. Used(table, j) \cap Used(table, m) = {}
    BY <1>7 DEF Owned
  <2>2. CASE j = i
    BY <1>3, <1>4, <1>7, <2>1, <2>2
  <2>3. CASE m = i
    BY <1>3, <1>4, <1>7, <2>1, <2>3
  <2>4. CASE j # i /\ m # i
    BY <1>4, <2>1, <2>4
  <2> QED BY <2>2, <2>3, <2>4
<1> QED BY <1>5, <1>6, <1>7 DEF Owned

-----------------------------------------------------------------------------
(* Facts about one state.                                                  *)

LEMMA InodesFinite ==
  /\ IsFiniteSet(Inodes)
  /\ \A S \in SUBSET Inodes :
       /\ IsFiniteSet(S) /\ Cardinality(S) \in Nat /\ Cardinality(S) <= NUM_INODE - 2
       /\ \A i \in Inodes \ S :
            /\ Cardinality(S) <= NUM_INODE - 3
            /\ Cardinality(S \cup {i}) = Cardinality(S) + 1
<1>1. INO_ROOTDIR \in Int /\ NUM_INODE - 1 \in Int /\ NUM_INODE \in Nat
      /\ NUM_INODE > 2 /\ INO_ROOTDIR = 2
  BY SizesAssumption DEF INO_ROOTDIR
<1>2. IsFiniteSet(Inodes) /\ Cardinality(Inodes) = NUM_INODE - 2
  BY <1>1, FS_Interval DEF Inodes
<1>3. ASSUME NEW S \in SUBSET Inodes
      PROVE  IsFiniteSet(S) /\ Cardinality(S) \in Nat /\ Cardinality(S) <= NUM_INODE - 2
  BY <1>2, FS_Subset, FS_CardinalityType
<1>4. ASSUME NEW S \in SUBSET Inodes, NEW i \in Inodes \ S
      PROVE  /\ Cardinality(S) <= NUM_INODE - 3
             /\ Cardinality(S \cup {i}) = Cardinality(S) + 1
  <2>1. IsFiniteSet(S) /\ Cardinality(S) \in Nat
    BY <1>3
  <2>2. Cardinality(S \cup {i}) = Cardinality(S) + 1
    BY <2>1, FS_AddElement
  <2>3. S \cup {i} \in SUBSET Inodes
    OBVIOUS
  <2>4. Cardinality(S \cup {i}) <= NUM_INODE - 2
    BY <1>3, <2>3
  <2> QED BY <1>1, <2>1, <2>2, <2>4
<1> QED BY <1>2, <1>3, <1>4

LEMMA RootIsInode == INO_ROOTDIR \in Inodes
BY SizesAssumption DEF INO_ROOTDIR, Inodes

\* What sync_inode() does to the table on the disk.
LEMMA SyncedTable ==
  ASSUME d_inode \in Tables, NEW table \in Tables, NEW i \in Inodes
  PROVE  /\ Synced(i, table) \in Tables
         /\ Synced(i, table)[i] = table[i]
         /\ \A j \in Inodes : \/ Synced(i, table)[j] = table[j]
                              \/ j # i /\ Synced(i, table)[j] = d_inode[j]
BY DEF Synced, Tables

\* The request under way.
LEMMA RequestType ==
  ASSUME pending \in Seq(Request), pending # <<>>
  PROVE  /\ w \in Request /\ w.ino \in Inodes /\ w.offset \in Nat /\ w.len \in Nat \ {0}
         /\ w.cell \in CellType
         /\ Tail(pending) \in Seq(Request) /\ Len(pending) \in Nat \ {0}
         /\ Len(Tail(pending)) = Len(pending) - 1
         /\ blkoff \in Nat
<1>1. w \in Request
  BY DEF w
<1>2. /\ Tail(pending) \in Seq(Request) /\ Len(pending) \in Nat \ {0}
      /\ Len(Tail(pending)) = Len(pending) - 1
  OBVIOUS
<1>3. /\ w.ino \in Inodes /\ w.offset \in Nat /\ w.len \in Nat \ {0} /\ w.cell \in CellType
  BY <1>1 DEF Request
<1>4. BLOCK \in Nat \ {0}
  BY SizesAssumption
<1>5. blkoff \in Nat
  BY <1>3, <1>4, DivMod DEF blkoff
<1> QED BY <1>1, <1>2, <1>3, <1>5

\* A file has an inode of its own.
LEMMA FileInode ==
  ASSUME IInv, pc = "idle", NEW file \in Files
  PROVE  file.ino \in imap \ {INO_ROOTDIR} /\ file.ino \in Inodes
<1>1. /\ inode_tbl \in Tables /\ d_imap = imap /\ imap \subseteq Inodes
  BY DEF IInv, TypeOK, Tables, Running, Behind
<1> DEFINE root == inode_tbl[INO_ROOTDIR]
<1>2. PICK k \in 0 .. root.size - 1 : file = d_data[root.direct[k \div BLOCK]][k % BLOCK]
  BY DEF Files, Entries
<1>3. BLOCK \in Nat \ {0} /\ NUM_DIRECT \in Nat
  BY SizesAssumption
<1>4. k \in Nat /\ k < NUM_DIRECT * BLOCK
  BY <1>1, <1>3, TableType, RootIsInode
<1>5. k \div BLOCK \in 0 .. NUM_DIRECT - 1 /\ k % BLOCK \in Cells
  <2>1. k \div BLOCK \in Nat /\ k % BLOCK \in 0 .. BLOCK - 1
    BY <1>3, <1>4, DivMod
  <2>2. k \div BLOCK < NUM_DIRECT
    BY <1>3, <1>4, DivLess
  <2> QED BY <1>3, <2>1, <2>2 DEF Cells
<1>6. root.direct[k \div BLOCK] \in Blocks
  BY <1>1, <1>5, TableType, RootIsInode
<1>7. file.ino \in d_imap \ {INO_ROOTDIR}
  BY <1>2, <1>5, <1>6 DEF IInv, DiskOK, Files
<1> QED BY <1>1, <1>7

LEMMA InitInv == Init => IInv
<1> SUFFICES ASSUME Init PROVE IInv
  OBVIOUS
<1>1. NUM_DIRECT \in Nat /\ BLOCK \in Nat /\ NUM_DIRECT * BLOCK \in Nat
  BY SizesAssumption
<1>2. NoInode \in InodeType
  BY <1>1 DEF NoInode, InodeType, Blocks
<1>3. NoCell \in CellType
  BY DEF NoCell, CellType
<1>4. TypeOK
  BY <1>2, <1>3 DEF Init, TypeOK, BlankTable
<1>5. DiskOK
  BY NamesAssumption DEF Init, DiskOK, Owned, SizesOK, NoCell
<1> QED BY <1>4, <1>5 DEF Init, IInv

-----------------------------------------------------------------------------
(* Steps that start or end at rest.                                        *)

\* What the lemmas about steps assume of the running system.
LEMMA RunningFacts ==
  ASSUME IInv, pc # "off"
  PROVE  /\ MemoryOK /\ Behind /\ RequestsOK /\ DiskOK /\ TypeOK
         /\ inode_tbl \in Tables /\ d_inode \in Tables
         /\ imap \in SUBSET Inodes /\ INO_ROOTDIR \in imap
         /\ d_imap \subseteq imap /\ d_bmap = bmap /\ bmap \subseteq Blocks
         /\ NUM_DIRECT \in Nat \ {0} /\ BLOCK \in Nat \ {0}
         /\ NUM_DIRECT * BLOCK \in Nat
<1>1. MemoryOK /\ Behind /\ RequestsOK /\ DiskOK /\ TypeOK
  BY DEF IInv, Running
<1>2. NUM_DIRECT \in Nat \ {0} /\ BLOCK \in Nat \ {0}
  BY SizesAssumption
<1>3. NUM_DIRECT * BLOCK \in Nat
  BY <1>2
<1>4. /\ inode_tbl \in Tables /\ d_inode \in Tables
      /\ imap \in SUBSET Inodes /\ bmap \subseteq Blocks
  BY <1>1 DEF TypeOK, Tables, Blocks
<1>5. INO_ROOTDIR \in imap /\ d_imap \subseteq imap /\ d_bmap = bmap
  BY <1>1 DEF MemoryOK, Behind
<1> QED BY <1>1, <1>2, <1>3, <1>4, <1>5

\* The disk is right whenever it is behind a memory that is right.
LEMMA DiskOwned ==
  ASSUME TypeOK, MemoryOK, Behind
  PROVE  Owned(d_imap, d_bmap, d_inode) /\ SizesOK(d_imap, d_inode)
<1>1. inode_tbl \in Tables /\ d_inode \in Tables /\ imap \in SUBSET Inodes
  BY DEF TypeOK, Tables
<1>2. /\ d_imap \in SUBSET imap /\ d_bmap = bmap /\ Owned(imap, bmap, inode_tbl)
      /\ \A i \in d_imap : NoMore(i, d_inode, inode_tbl)
  BY DEF Behind, MemoryOK
<1>3. Owned(d_imap, bmap, d_inode)
  BY <1>1, <1>2, OwnedBehind
<1>4. SizesOK(d_imap, d_inode)
  BY DEF SizesOK, Behind
<1> QED BY <1>2, <1>3, <1>4

LEMMA PowerOffInv == IInv /\ PowerOff => IInv'
<1> SUFFICES ASSUME IInv, PowerOff PROVE IInv'
  OBVIOUS
<1>1. NoInode \in InodeType
  BY SizesAssumption DEF NoInode, InodeType, Blocks
<1>2. TypeOK'
  BY <1>1 DEF IInv, TypeOK, PowerOff, disk, BlankTable
<1>3. DiskOK'
  BY DEF IInv, DiskOK, PowerOff, disk
<1> QED BY <1>2, <1>3 DEF IInv, PowerOff

LEMMA OpenTruncInv ==
  ASSUME IInv, NEW file \in Files, OpenTrunc(file)
  PROVE  IInv'
<1> DEFINE i == file.ino
<1>1. pc = "idle" /\ pending = <<>> /\ i \in imap \ {INO_ROOTDIR} /\ i \in Inodes
  BY FileInode DEF IInv, OpenTrunc
<1>r. /\ MemoryOK /\ Behind /\ RequestsOK /\ DiskOK /\ TypeOK
      /\ inode_tbl \in Tables /\ d_inode \in Tables /\ imap \in SUBSET Inodes
  BY <1>1, RunningFacts
<1>2. inode_tbl' \in Tables /\ inode_tbl' = [inode_tbl EXCEPT ![i].size = 0]
  <2>1. 0 \in 0 .. NUM_DIRECT * BLOCK
    BY SizesAssumption
  <2>2. inode_tbl[i] \in InodeType
    BY <1>1, <1>r DEF Tables
  <2>3. [inode_tbl[i] EXCEPT !.size = 0] \in InodeType
    BY <2>1, <2>2 DEF InodeType
  <2>4. inode_tbl' = [inode_tbl EXCEPT ![i].size = 0]
    BY DEF OpenTrunc
  <2>5. inode_tbl' = [inode_tbl EXCEPT ![i] = [inode_tbl[i] EXCEPT !.size = 0]]
    BY <1>1, <1>r, <2>4 DEF Tables
  <2> QED BY <1>1, <1>r, <2>3, <2>4, <2>5 DEF Tables
<1>3. /\ \A j \in Inodes \ {i} : inode_tbl'[j] = inode_tbl[j]
      /\ inode_tbl'[i] = [inode_tbl[i] EXCEPT !.size = 0]
      /\ inode_tbl'[i].size = 0 /\ inode_tbl'[i].nlink = inode_tbl[i].nlink
      /\ inode_tbl'[i].direct = inode_tbl[i].direct
  BY <1>1, <1>r, <1>2 DEF Tables, InodeType
<1>4. UNCHANGED <<pc, pending, imap, bmap, d_imap, d_bmap, d_inode, d_data>>
  BY DEF OpenTrunc, disk
<1>5. TypeOK'
  BY <1>1, <1>2, <1>4, <1>r DEF TypeOK, Tables
<1>6. DiskOK'
  BY <1>4, <1>r DEF DiskOK
<1>7. MemoryOK'
  <2>1. \A j \in imap : inode_tbl'[j].nlink = inode_tbl[j].nlink
                        /\ inode_tbl'[j].direct = inode_tbl[j].direct
    BY <1>1, <1>3, <1>r
  <2>2. Owned(imap, bmap, inode_tbl)'
    <3>1. \A j \in imap : NoMore(j, inode_tbl', inode_tbl)
      BY <1>r, <2>1, NoMoreSame
    <3>2. Owned(imap, bmap, inode_tbl)
      BY <1>r DEF MemoryOK
    <3>3. Owned(imap, bmap, inode_tbl')
      BY <1>r, <1>2, <3>1, <3>2, OwnedBehind
    <3> QED BY <1>4, <3>3
  <2>3. SizesOK(imap, inode_tbl)'
    <3>1. 0 <= inode_tbl[i].nlink * BLOCK
      BY <1>1, <1>r, <1>2, TableType, SizesAssumption
    <3> QED BY <1>1, <1>3, <1>4, <1>r, <3>1 DEF MemoryOK, SizesOK
  <2>4. (inode_tbl[INO_ROOTDIR].size + Missing <= Cardinality(imap) + 1)'
    BY <1>1, <1>3, <1>4, <1>r, RootIsInode DEF MemoryOK, Missing
  <2> QED BY <1>4, <1>r, <2>2, <2>3, <2>4 DEF MemoryOK
<1>8. Behind'
  <2>1. ASSUME NEW j \in imap
        PROVE  NoMore(j, d_inode, inode_tbl')
    <3>1. NoMore(j, d_inode, inode_tbl)
      BY <1>r DEF Behind
    <3>2. inode_tbl'[j].nlink = inode_tbl[j].nlink /\ inode_tbl'[j].direct = inode_tbl[j].direct
      BY <1>1, <1>3, <1>r
    <3> QED BY <3>1, <3>2 DEF NoMore
  <2>2. ASSUME NEW j \in imap
        PROVE  \/ d_inode[j] = inode_tbl'[j]
               \/ inode_tbl'[j] = [d_inode[j] EXCEPT !.size = 0]
    <3>1. \/ d_inode[j] = inode_tbl[j]
          \/ inode_tbl[j] = [d_inode[j] EXCEPT !.size = 0]
      BY <1>1, <1>r DEF Behind, InFlight
    <3>2. CASE j # i
      BY <1>1, <1>3, <1>r, <3>1, <3>2
    <3>3. CASE j = i
      <4>1. d_inode[i] \in InodeType
        BY <1>1, <1>r DEF Tables
      <4> QED BY <1>3, <3>1, <3>3, <4>1 DEF InodeType
    <3> QED BY <3>2, <3>3
  <2>3. inode_tbl'[INO_ROOTDIR] = inode_tbl[INO_ROOTDIR]
    BY <1>1, <1>3, RootIsInode
  <2> QED BY <1>1, <1>4, <1>r, <2>1, <2>2, <2>3 DEF Behind
<1>9. RequestsOK'
  BY <1>1, <1>4, <1>r DEF RequestsOK
<1> QED BY <1>1, <1>4, <1>r, <1>5, <1>6, <1>7, <1>8, <1>9 DEF IInv, Running

\* write() only prepares the request.
LEMMA WriteInv ==
  ASSUME Within, IInv,
         NEW file \in Files, NEW offset \in 0 .. NUM_DIRECT * BLOCK, NEW len \in 1 .. MaxLen,
         Write(file, offset, len)
  PROVE  IInv'
<1> DEFINE i == file.ino
           r == [ino |-> i, offset |-> offset, len |-> len, cell |-> Piece(i)]
<1>1. pc = "idle" /\ pending = <<>> /\ i \in imap \ {INO_ROOTDIR} /\ i \in Inodes
  BY FileInode DEF IInv, Write
<1>r. /\ MemoryOK /\ Behind /\ RequestsOK /\ DiskOK /\ TypeOK
      /\ inode_tbl \in Tables /\ NUM_DIRECT \in Nat \ {0} /\ BLOCK \in Nat \ {0}
  BY <1>1, RunningFacts
<1>2. /\ UNCHANGED <<imap, bmap, inode_tbl, d_imap, d_bmap, d_inode, d_data>>
      /\ pc' = "write" /\ pending' = <<r>>
  BY DEF Write, memory, disk
<1>3. offset \in Nat /\ len \in Nat \ {0}
  BY <1>r, SizesAssumption
<1>4. r \in Request /\ r.cell.name \notin Names
  BY <1>1, <1>3, NamesAssumption DEF Request, Piece, CellType
<1>5. pending' \in Seq(Request) /\ pending' # <<>> /\ Len(pending') = 1 /\ w' = r
  BY <1>2, <1>4 DEF w
<1>6. TypeOK'
  BY <1>2, <1>5, <1>r DEF TypeOK
<1>7. DiskOK'
  BY <1>2, <1>r DEF DiskOK
<1>8. MemoryOK'
  <2>1. Missing = 0 /\ Missing' = 0
    BY <1>1, <1>5 DEF Missing
  <2> QED BY <1>2, <1>r, <2>1 DEF MemoryOK
<1>9. Behind'
  <2>1. \A j \in imap : ~InFlight(j) /\ ~InFlight(j)'
    BY <1>1, <1>2 DEF InFlight
  <2> QED BY <1>1, <1>2, <1>r, <2>1 DEF Behind
<1>10. RequestsOK'
  <2>1. offset <= inode_tbl[i].size
    BY <1>1, <1>r, <1>3, TableType DEF Write
  <2>2. offset + len <= NUM_DIRECT * BLOCK /\ (offset % BLOCK) + len <= BLOCK
    BY DEF Write, Within
  <2> QED BY <1>1, <1>2, <1>4, <1>5, <2>1, <2>2 DEF RequestsOK, res_off
<1> QED BY <1>2, <1>5, <1>6, <1>7, <1>8, <1>9, <1>10 DEF IInv, Running

\* The second block write of inode_create(): the new inode counts on the disk.
LEMMA SyncBitmapInv == IInv /\ SyncBitmap => IInv'
<1> SUFFICES ASSUME IInv, SyncBitmap PROVE IInv'
  OBVIOUS
<1>1. /\ UNCHANGED <<pending, imap, bmap, inode_tbl, d_inode, d_data>>
      /\ pc = "bitmap" /\ pc' = "write" /\ d_imap' = imap /\ d_bmap' = bmap
  BY DEF SyncBitmap, SyncedMap, memory
<1>r. /\ MemoryOK /\ Behind /\ RequestsOK /\ DiskOK /\ TypeOK
      /\ d_inode \in Tables /\ inode_tbl \in Tables
      /\ imap \in SUBSET Inodes /\ INO_ROOTDIR \in imap /\ d_imap \subseteq imap
  BY <1>1, RunningFacts
<1>2. TypeOK'
  BY <1>1, <1>r DEF TypeOK
<1>3. MemoryOK'
  <2>1. Missing' = Missing
    BY <1>1 DEF Missing, w
  <2> QED BY <1>1, <1>r, <2>1 DEF MemoryOK
<1>4. Behind'
  <2>1. \A j \in imap : ~InFlight(j) /\ ~InFlight(j)'
    BY <1>1 DEF InFlight
  <2> QED BY <1>1, <1>r, <2>1 DEF Behind
<1>5. RequestsOK'
  BY <1>1, <1>r DEF RequestsOK, w, res_off, blkoff
<1>6. DiskOK'
  <2>1. (Owned(d_imap, d_bmap, d_inode) /\ SizesOK(d_imap, d_inode))'
    BY <1>2, <1>3, <1>4, DiskOwned, PTL
  <2>2. d_inode[INO_ROOTDIR].size <= Cardinality(imap) + 1
    <3>1. Missing \in Nat
      BY DEF IInv, Missing
    <3> QED BY <1>r, <3>1, TableType, InodesFinite, RootIsInode DEF Behind, MemoryOK
  <2> QED BY <1>1, <1>r, <2>1, <2>2 DEF DiskOK
<1>7. pending \in Seq(Request) /\ pending # <<>>
  BY <1>1 DEF IInv
<1> QED BY <1>1, <1>2, <1>3, <1>4, <1>5, <1>6, <1>7 DEF IInv, Running

-----------------------------------------------------------------------------
(* Mount.                                                                  *)

\* Of a disk with a root directory: the memory is what the disk says.
LEMMA MountOldInv ==
  ASSUME IInv, Mount, ~NeedsRoot
  PROVE  IInv'
<1>1. /\ UNCHANGED <<pending, d_imap, d_bmap, d_inode, d_data>> /\ pc = "off" /\ pc' = "idle"
      /\ imap' = d_imap /\ bmap' = d_bmap /\ inode_tbl' = d_inode
  BY DEF Mount
<1>2. pending = <<>> /\ DiskOK /\ TypeOK /\ INO_ROOTDIR \in d_imap
  BY <1>1 DEF IInv, NeedsRoot
<1>3. TypeOK'
  BY <1>1, <1>2 DEF TypeOK
<1>4. DiskOK'
  BY <1>1, <1>2 DEF DiskOK
<1>5. MemoryOK'
  <2>1. Missing' = 0
    BY <1>1, <1>2 DEF Missing
  <2>2. d_inode[INO_ROOTDIR].size + 0 <= Cardinality(d_imap) + 1
    BY <1>2, TableType, RootIsInode DEF DiskOK, TypeOK, Tables
  <2> QED BY <1>1, <1>2, <2>1, <2>2 DEF MemoryOK, DiskOK
<1>6. Behind'
  <2>1. d_inode \in Tables /\ d_imap \subseteq Inodes
    BY <1>2 DEF TypeOK, Tables
  <2>2. \A i \in d_imap : NoMore(i, d_inode, d_inode)
    BY <2>1, NoMoreSame
  <2>3. \A i \in d_imap : d_inode[i].size <= d_inode[i].nlink * BLOCK
    BY <1>2 DEF DiskOK, SizesOK
  <2>4. d_inode[INO_ROOTDIR].size <= d_inode[INO_ROOTDIR].size
    BY <2>1, TableType, RootIsInode
  <2> QED BY <1>1, <2>2, <2>3, <2>4 DEF Behind
<1>7. RequestsOK'
  BY <1>1, <1>2 DEF RequestsOK
<1> QED BY <1>1, <1>2, <1>3, <1>4, <1>5, <1>6, <1>7 DEF IInv, Running

\* Of a disk without one: make_dir() starts.
LEMMA MountNewInv ==
  ASSUME IInv, Mount, NeedsRoot
  PROVE  IInv'
<1> DEFINE r1 == NewEntry(INO_ROOTDIR, 0, Entry("..", INO_ROOTDIR))
           r2 == NewEntry(INO_ROOTDIR, 1, Entry(".", INO_ROOTDIR))
           root == inode_tbl'[INO_ROOTDIR]
<1>1. /\ UNCHANGED <<d_imap, d_bmap, d_data>> /\ pc = "off" /\ pc' = "bitmap"
      /\ pending' = <<r1, r2>> /\ bmap' = d_bmap /\ imap' = d_imap \cup {INO_ROOTDIR}
      /\ inode_tbl' = [BlankTable EXCEPT ![INO_ROOTDIR].size = 0, ![INO_ROOTDIR].nlink = 0]
      /\ d_inode' = Synced(INO_ROOTDIR, inode_tbl')
  BY DEF Mount, inode_create
<1>2. DiskOK /\ TypeOK /\ d_imap = {} /\ d_inode \in Tables
  BY DEF IInv, NeedsRoot, DiskOK, TypeOK, Tables
<1>3. NUM_DIRECT \in Nat \ {0} /\ BLOCK \in Nat \ {0} /\ NUM_DIRECT * BLOCK \in Nat
      /\ NUM_DIRECT * BLOCK >= 2
  BY SizesAssumption, RootAssumption DEF INO_ROOTDIR
<1>4. inode_tbl' \in Tables /\ root.size = 0 /\ root.nlink = 0
  <2>1. NoInode \in InodeType
    BY <1>3 DEF NoInode, InodeType, Blocks
  <2>2. BlankTable \in Tables /\ BlankTable[INO_ROOTDIR] = NoInode
    BY <2>1, RootIsInode DEF BlankTable, Tables
  <2>3. inode_tbl' = BlankTable
    BY <1>1, <2>2, RootIsInode DEF Tables, NoInode, BlankTable
  <2> QED BY <2>2, <2>3 DEF NoInode
<1>5. /\ d_inode' \in Tables /\ d_inode'[INO_ROOTDIR] = root
  BY <1>1, <1>2, <1>4, RootIsInode DEF Synced, Tables
<1>6. imap' = {INO_ROOTDIR} /\ imap' \subseteq Inodes /\ d_imap' = {}
  BY <1>1, <1>2, RootIsInode
<1>7. r1 \in Request /\ r2 \in Request
  BY RootIsInode DEF NewEntry, Entry, Request, CellType
<1>8. /\ pending' \in Seq(Request) /\ pending' # <<>> /\ Len(pending') = 2
      /\ w' = r1 /\ pending'[2] = r2
  BY <1>1, <1>7 DEF w
<1>9. TypeOK'
  <2>1. pc' = "bitmap" /\ bmap' = d_bmap /\ d_bmap' = d_bmap /\ d_data' = d_data
    BY <1>1
  <2> QED BY <1>2, <1>4, <1>5, <1>6, <1>8, <2>1 DEF TypeOK, Tables
<1>10. DiskOK'
  BY <1>1, <1>2 DEF DiskOK, Owned, SizesOK
<1>11. MemoryOK'
  <2>1. Owned({INO_ROOTDIR}, d_bmap, inode_tbl')
    BY <1>4 DEF Owned, Used
  <2>2. SizesOK({INO_ROOTDIR}, inode_tbl')
    BY <1>3, <1>4 DEF SizesOK
  <2>3. Missing' = 2
    BY <1>8 DEF Missing, NewEntry
  <2>4. Cardinality({INO_ROOTDIR}) = 1
    BY FS_Singleton
  <2> QED BY <1>1, <1>4, <1>6, <2>1, <2>2, <2>3, <2>4 DEF MemoryOK
<1>12. Behind'
  <2>1. NoMore(INO_ROOTDIR, d_inode', inode_tbl')
    BY <1>4, <1>5, NoMoreSame, RootIsInode
  <2>2. root.size <= root.nlink * BLOCK /\ root.size <= root.size
    BY <1>3, <1>4
  <2> QED BY <1>1, <1>2, <1>5, <1>6, <2>1, <2>2 DEF Behind
<1>13. RequestsOK'
  <2>1. 0 % BLOCK = 0
    BY <1>3
  <2>2. {"..", "."} \cap Names = {}
    BY NamesAssumption
  <2> QED BY <1>1, <1>3, <1>4, <1>6, <1>8, <2>1, <2>2
          DEF RequestsOK, NewEntry, Entry, res_off
<1> QED BY <1>1, <1>8, <1>9, <1>10, <1>11, <1>12, <1>13 DEF IInv, Running

-----------------------------------------------------------------------------
(* open() of a new name.                                                   *)

LEMMA OpenNewInv ==
  ASSUME IInv, NEW name \in Names, OpenNew(name)
  PROVE  IInv'
<1> DEFINE end == inode_tbl[INO_ROOTDIR].size
<1>1. pc = "idle" /\ pending = <<>>
  BY DEF IInv, OpenNew
<1>r. /\ MemoryOK /\ Behind /\ RequestsOK /\ DiskOK /\ TypeOK
      /\ inode_tbl \in Tables /\ d_inode \in Tables
      /\ imap \in SUBSET Inodes /\ INO_ROOTDIR \in imap /\ d_bmap = bmap
      /\ NUM_DIRECT \in Nat \ {0} /\ BLOCK \in Nat \ {0} /\ NUM_DIRECT * BLOCK \in Nat
  BY <1>1, RunningFacts
<1>2. PICK i \in Inodes :
        /\ i \notin imap
        /\ inode_create(i, inode_tbl, imap)
        /\ pending' = <<NewEntry(INO_ROOTDIR, end, Entry(name, i))>>
  BY DEF OpenNew, IsFirst, FreeInodes
<1> DEFINE r == NewEntry(INO_ROOTDIR, end, Entry(name, i))
<1>3. /\ UNCHANGED <<bmap, d_imap, d_bmap, d_data>> /\ pc' = "bitmap"
      /\ imap' = imap \cup {i} /\ pending' = <<r>>
  BY <1>2 DEF OpenNew, inode_create
<1>4. d_imap = imap /\ i # INO_ROOTDIR
  BY <1>1, <1>2, <1>r DEF Behind
<1>5. /\ inode_tbl' \in Tables
      /\ inode_tbl'[i].size = 0 /\ inode_tbl'[i].nlink = 0
      /\ \A j \in Inodes \ {i} : inode_tbl'[j] = inode_tbl[j]
  <2>1. inode_tbl' = [inode_tbl EXCEPT ![i].size = 0, ![i].nlink = 0]
    BY <1>2 DEF inode_create
  <2>2. inode_tbl[i] \in InodeType /\ 0 \in 0 .. NUM_DIRECT * BLOCK /\ 0 \in 0 .. NUM_DIRECT
    BY <1>2, <1>r DEF Tables
  <2>3. [inode_tbl[i] EXCEPT !.size = 0, !.nlink = 0] \in InodeType
    BY <2>2 DEF InodeType
  <2>4. inode_tbl' = [inode_tbl EXCEPT ![i] = [inode_tbl[i] EXCEPT !.size = 0, !.nlink = 0]]
    BY <1>2, <1>r, <2>1 DEF Tables
  <2>5. inode_tbl' \in Tables
    BY <1>2, <1>r, <2>3, <2>4 DEF Tables
  <2>6. inode_tbl'[i] = [inode_tbl[i] EXCEPT !.size = 0, !.nlink = 0]
    BY <1>2, <1>r, <2>4 DEF Tables
  <2> QED BY <1>2, <1>r, <2>2, <2>4, <2>5, <2>6 DEF Tables, InodeType
<1>6. /\ d_inode' \in Tables /\ d_inode'[i] = inode_tbl'[i]
      /\ \A j \in imap : d_inode'[j] = inode_tbl[j] \/ d_inode'[j] = d_inode[j]
  <2>1. d_inode' = Synced(i, inode_tbl')
    BY <1>2 DEF inode_create
  <2> QED BY <1>2, <1>5, <1>r, <2>1, SyncedTable
<1>7. /\ Cardinality(imap) \in Nat /\ Cardinality(imap) <= NUM_INODE - 3
      /\ Cardinality(imap \cup {i}) = Cardinality(imap) + 1
  BY <1>2, <1>r, InodesFinite
<1>8. end \in Nat /\ end <= Cardinality(imap) + 1
  <2>1. Missing = 0
    BY <1>1 DEF Missing
  <2> QED BY <1>r, <1>7, <2>1, TableType, RootIsInode DEF MemoryOK
<1>9. end + 1 <= NUM_DIRECT * BLOCK
  BY <1>7, <1>8, <1>r, RootAssumption, SizesAssumption
<1>10. /\ r \in Request /\ pending' \in Seq(Request) /\ pending' # <<>> /\ Len(pending') = 1
       /\ w' = r
  <2>1. r \in Request
    <3>1. Entry(name, i) \in CellType
      BY <1>2 DEF Entry, CellType
    <3> QED BY <1>8, <3>1, RootIsInode DEF NewEntry, Request
  <2> QED BY <1>3, <2>1 DEF w
<1>11. TypeOK'
  <2>1. imap' \subseteq Inodes
    BY <1>2, <1>3, <1>r
  <2> QED BY <1>3, <1>5, <1>6, <1>10, <1>r, <2>1 DEF TypeOK, Tables
<1>12. MemoryOK'
  <2>1. Owned(imap \cup {i}, bmap, inode_tbl')
    BY <1>2, <1>5, <1>r, OwnedMore DEF MemoryOK
  <2>2. SizesOK(imap \cup {i}, inode_tbl')
    <3>1. inode_tbl'[i].size <= inode_tbl'[i].nlink * BLOCK
      BY <1>5, <1>r
    <3> QED BY <1>5, <1>r, <3>1 DEF MemoryOK, SizesOK
  <2>3. Missing' = 1
    BY <1>10 DEF Missing, NewEntry
  <2>4. inode_tbl'[INO_ROOTDIR].size = end
    BY <1>4, <1>5, RootIsInode
  <2>5. end + 1 <= Cardinality(imap \cup {i}) + 1
    BY <1>7, <1>8
  <2>6. INO_ROOTDIR \in imap'
    BY <1>3, <1>r
  <2> QED BY <1>3, <2>1, <2>2, <2>3, <2>4, <2>5, <2>6 DEF MemoryOK
<1>13. Behind'
  <2>1. ASSUME NEW j \in imap \cup {i}
        PROVE  /\ NoMore(j, d_inode', inode_tbl')
               /\ d_inode'[j].size <= d_inode'[j].nlink * BLOCK
               /\ \/ d_inode'[j] = inode_tbl'[j]
                  \/ inode_tbl'[j] = [d_inode'[j] EXCEPT !.size = 0]
    <3>1. CASE j = i
      BY <1>2, <1>5, <1>6, <1>r, <3>1, NoMoreSame
    <3>2. CASE j # i
      <4>1. /\ NoMore(j, d_inode, inode_tbl)
            /\ d_inode[j].size <= d_inode[j].nlink * BLOCK
            /\ d_inode[j] = inode_tbl[j] \/ inode_tbl[j] = [d_inode[j] EXCEPT !.size = 0]
            /\ inode_tbl[j].size <= inode_tbl[j].nlink * BLOCK
        BY <1>1, <1>r, <3>2 DEF Behind, MemoryOK, SizesOK, InFlight
      <4>2. inode_tbl'[j] = inode_tbl[j] /\ j \in Inodes
        BY <1>5, <1>r, <3>2
      <4>3. CASE d_inode'[j] = inode_tbl[j]
        BY <1>5, <1>6, <4>1, <4>2, <4>3, NoMoreSame
      <4>4. CASE d_inode'[j] = d_inode[j]
        BY <4>1, <4>2, <4>4 DEF NoMore
      <4> QED BY <1>6, <3>2, <4>3, <4>4
    <3> QED BY <3>1, <3>2
  <2>2. d_inode'[INO_ROOTDIR].size <= inode_tbl'[INO_ROOTDIR].size
    <3>1. d_inode[INO_ROOTDIR].size <= inode_tbl[INO_ROOTDIR].size
      BY <1>r DEF Behind
    <3> QED BY <1>4, <1>5, <1>6, <1>r, <1>8, <3>1, RootIsInode
  <2>3. d_imap' \subseteq imap' /\ pc' = "bitmap" /\ d_bmap' = bmap'
    BY <1>3, <1>4, <1>r
  <2> QED BY <1>3, <2>1, <2>2, <2>3 DEF Behind
<1>14. RequestsOK'
  <2>1. (end % BLOCK) + 1 <= BLOCK
    <3> HIDE DEF end
    <3>1. end % BLOCK \in 0 .. BLOCK - 1
      BY <1>8, <1>r, DivMod
    <3> QED BY <1>r, <3>1
  <2>2. inode_tbl'[INO_ROOTDIR].size = end
    BY <1>4, <1>5, RootIsInode
  <2>3. i \in imap' \ {INO_ROOTDIR} /\ INO_ROOTDIR \in imap'
    BY <1>3, <1>4, <1>r
  <2> QED BY <1>3, <1>8, <1>9, <1>10, <2>1, <2>2, <2>3 DEF RequestsOK, NewEntry, Entry, res_off
<1>15. DiskOK'
  <2>1. (Owned(d_imap, d_bmap, d_inode) /\ SizesOK(d_imap, d_inode))'
    BY <1>11, <1>12, <1>13, DiskOwned, PTL
  <2>2. d_inode'[INO_ROOTDIR].size <= Cardinality(d_imap) + 1
    <3>1. /\ d_inode'[INO_ROOTDIR].size \in Nat
          /\ d_inode'[INO_ROOTDIR].size <= inode_tbl'[INO_ROOTDIR].size
      BY <1>6, <1>13, TableType, RootIsInode DEF Behind
    <3>2. inode_tbl'[INO_ROOTDIR].size = end
      BY <1>4, <1>5, RootIsInode
    <3> QED BY <1>4, <1>7, <1>8, <3>1, <3>2
  <2> QED BY <1>3, <1>r, <2>1, <2>2 DEF DiskOK
<1> QED BY <1>3, <1>10, <1>11, <1>12, <1>13, <1>14, <1>15 DEF IInv, Running

-----------------------------------------------------------------------------
(* The block writes of inode_write().                                      *)

LEMMA WriteAllocInv == IInv /\ WriteAlloc => IInv'
<1> SUFFICES ASSUME IInv, WriteAlloc PROVE IInv'
  OBVIOUS
<1> DEFINE i == w.ino
           n == inode_tbl[w.ino].nlink
<1>1. pc = "write" /\ NeedsBlock(i, w.offset) /\ pending # <<>> /\ pending \in Seq(Request)
  BY DEF WriteAlloc, IInv
<1>r. /\ MemoryOK /\ Behind /\ RequestsOK /\ DiskOK /\ TypeOK
      /\ inode_tbl \in Tables /\ d_inode \in Tables
      /\ imap \in SUBSET Inodes /\ d_bmap = bmap /\ bmap \subseteq Blocks
      /\ NUM_DIRECT \in Nat \ {0} /\ BLOCK \in Nat \ {0} /\ NUM_DIRECT * BLOCK \in Nat
  BY <1>1, RunningFacts
<1>2. i \in imap /\ i \in Inodes /\ w.offset \in Nat /\ w.len \in Nat \ {0}
  BY <1>1, <1>r, RequestType DEF RequestsOK
<1>3. PICK b \in DataBlocks :
        /\ b \notin bmap
        /\ bmap' = bmap \cup {b}
        /\ inode_tbl' = [inode_tbl EXCEPT ![i].direct[blkoff] = b, ![i].nlink = @ + 1]
  BY DEF WriteAlloc, IsFirst, FreeBlocks
<1>4. /\ UNCHANGED <<pending, imap, d_inode, d_data>>
      /\ pc' = "data" /\ d_imap' = imap /\ d_bmap' = bmap' /\ d_imap = imap
  BY <1>1, <1>r DEF WriteAlloc, BitmapAfterAlloc, Behind
<1>5. w' = w /\ Missing' = Missing /\ res_off' = res_off /\ blkoff' = blkoff
  BY <1>4 DEF w, Missing, res_off, blkoff
<1>6. n \in Nat /\ blkoff = n /\ n < NUM_DIRECT
  <2>1. n \in Nat /\ inode_tbl[i].size \in Nat /\ inode_tbl[i].size <= n * BLOCK
    BY <1>2, <1>r, TableType DEF MemoryOK, SizesOK
  <2>2. w.offset <= inode_tbl[i].size /\ w.offset + w.len <= NUM_DIRECT * BLOCK
    BY <1>1, <1>r DEF RequestsOK
  <2>3. n * BLOCK \in Nat
    BY <1>r, <2>1
  <2>4. w.offset <= n * BLOCK /\ w.offset < NUM_DIRECT * BLOCK
    <3> DEFINE most == n * BLOCK
               all == NUM_DIRECT * BLOCK
    <3>1. all \in Nat /\ most \in Nat
      BY <1>r, <2>3
    <3>2. w.offset <= inode_tbl[i].size /\ inode_tbl[i].size <= most /\ w.offset + w.len <= all
      BY <2>1, <2>2
    <3> HIDE DEF most, all
    <3>3. w.offset <= most
      BY <1>2, <2>1, <3>1, <3>2
    <3>4. w.offset < all
      BY <1>2, <3>1, <3>2
    <3> QED BY <3>3, <3>4 DEF most, all
  <2>5. w.offset % BLOCK = 0 /\ w.offset \div BLOCK >= n
    BY <1>1 DEF NeedsBlock
  <2>6. w.offset \div BLOCK = n
    BY <1>2, <1>r, <2>1, <2>4, <2>5, BlockNeeded
  <2>7. w.offset \div BLOCK < NUM_DIRECT
    BY <1>2, <1>r, <2>4, DivLess
  <2> QED BY <2>1, <2>6, <2>7 DEF blkoff
<1>7. b \in Blocks /\ bmap' \subseteq DataBlocks
  BY <1>3, <1>r DEF Blocks, TypeOK
<1>8. /\ inode_tbl' \in Tables
      /\ inode_tbl'[i].size = inode_tbl[i].size /\ inode_tbl'[i].nlink = n + 1
      /\ inode_tbl'[i].direct = [inode_tbl[i].direct EXCEPT ![n] = b]
      /\ \A j \in Inodes \ {i} : inode_tbl'[j] = inode_tbl[j]
  <2> DEFINE old == inode_tbl[i]
             new == [old EXCEPT !.direct = [old.direct EXCEPT ![n] = b], !.nlink = n + 1]
  <2>1. old \in InodeType /\ old.direct \in [0 .. NUM_DIRECT - 1 -> Blocks]
    BY <1>2, <1>r, TableType DEF Tables
  <2>2. n + 1 \in 0 .. NUM_DIRECT /\ n \in 0 .. NUM_DIRECT - 1
    BY <1>6, <1>r
  <2>3. [old.direct EXCEPT ![n] = b] \in [0 .. NUM_DIRECT - 1 -> Blocks]
    BY <1>7, <2>1, <2>2
  <2>4. new \in InodeType
    BY <2>1, <2>2, <2>3 DEF InodeType
  <2>5. inode_tbl' = [inode_tbl EXCEPT ![i] = new]
    BY <1>2, <1>3, <1>6, <1>r, <2>1 DEF Tables, InodeType
  <2>6. inode_tbl' \in Tables /\ inode_tbl'[i] = new
    BY <1>2, <1>r, <2>4, <2>5 DEF Tables
  <2>7. new.size = old.size /\ new.nlink = n + 1 /\ new.direct = [old.direct EXCEPT ![n] = b]
    BY <2>1 DEF InodeType
  <2>8. \A j \in Inodes \ {i} : inode_tbl'[j] = inode_tbl[j]
    BY <1>2, <1>r, <2>5 DEF Tables
  <2> QED BY <2>6, <2>7, <2>8
<1>9. /\ inode_tbl'[i].direct[n] = b
      /\ \A k \in 0 .. n - 1 : inode_tbl'[i].direct[k] = inode_tbl[i].direct[k]
  <2>1. inode_tbl[i].direct \in [0 .. NUM_DIRECT - 1 -> Blocks]
    BY <1>2, <1>r, TableType
  <2>2. n \in 0 .. NUM_DIRECT - 1 /\ \A k \in 0 .. n - 1 : k \in 0 .. NUM_DIRECT - 1 /\ k # n
    BY <1>6, <1>r
  <2> QED BY <1>8, <2>1, <2>2
<1>10. TypeOK'
  <2>1. bmap' \subseteq DataBlocks /\ d_bmap' = bmap' /\ d_imap' = imap
    BY <1>4, <1>7
  <2> QED BY <1>4, <1>8, <1>r, <2>1 DEF TypeOK, Tables
<1>11. MemoryOK'
  <2>1. Owned(imap, bmap \cup {b}, inode_tbl')
    <3>1. \A j \in imap \ {i} : inode_tbl'[j] = inode_tbl[j]
      BY <1>8, <1>r
    <3>2. Owned(imap, bmap, inode_tbl)
      BY <1>r DEF MemoryOK
    <3>3. /\ inode_tbl'[i].nlink = inode_tbl[i].nlink + 1
          /\ inode_tbl'[i].direct[inode_tbl[i].nlink] = b
          /\ \A k \in 0 .. inode_tbl[i].nlink - 1 :
               inode_tbl'[i].direct[k] = inode_tbl[i].direct[k]
      BY <1>8, <1>9
    <3>4. i \in imap /\ b \in Blocks /\ b \notin bmap /\ imap \in SUBSET Inodes
          /\ inode_tbl \in Tables /\ inode_tbl' \in Tables
      BY <1>2, <1>3, <1>7, <1>8, <1>r
    <3> QED BY <3>1, <3>2, <3>3, <3>4, OwnedAlloc
  <2>2. SizesOK(imap, inode_tbl')
    <3>1. inode_tbl[i].size \in Nat /\ inode_tbl[i].size <= n * BLOCK /\ n * BLOCK \in Nat
      BY <1>2, <1>6, <1>r, TableType DEF MemoryOK, SizesOK
    <3>2. (n + 1) * BLOCK = n * BLOCK + BLOCK
      BY <1>6, <1>r
    <3>3. inode_tbl'[i].size <= inode_tbl'[i].nlink * BLOCK
      BY <1>8, <1>r, <3>1, <3>2
    <3> QED BY <1>8, <1>r, <3>3 DEF MemoryOK, SizesOK
  <2>3. inode_tbl'[INO_ROOTDIR].size = inode_tbl[INO_ROOTDIR].size
    BY <1>8, RootIsInode
  <2> QED BY <1>3, <1>4, <1>5, <1>r, <2>1, <2>2, <2>3 DEF MemoryOK
<1>12. Behind'
  <2>1. ASSUME NEW j \in imap
        PROVE  /\ NoMore(j, d_inode, inode_tbl')
               /\ d_inode[j].size <= d_inode[j].nlink * BLOCK
               /\ \/ InFlight(j)'
                  \/ d_inode[j] = inode_tbl'[j]
                  \/ inode_tbl'[j] = [d_inode[j] EXCEPT !.size = 0]
    <3>1. /\ NoMore(j, d_inode, inode_tbl)
          /\ d_inode[j].size <= d_inode[j].nlink * BLOCK
          /\ d_inode[j] = inode_tbl[j] \/ inode_tbl[j] = [d_inode[j] EXCEPT !.size = 0]
      BY <1>1, <1>r DEF Behind, InFlight
    <3>2. CASE j = i
      <4>1. InFlight(j)'
        BY <1>4, <1>5, <3>2 DEF InFlight
      <4>2. d_inode[i].nlink \in Nat /\ d_inode[i].nlink <= n
        BY <1>2, <1>r, <3>1, <3>2, TableType DEF NoMore
      <4>3. \A k \in 0 .. d_inode[i].nlink - 1 : k \in 0 .. n - 1
        BY <1>6, <4>2
      <4>4. NoMore(i, d_inode, inode_tbl')
        BY <1>6, <1>8, <1>9, <3>1, <3>2, <4>2, <4>3 DEF NoMore
      <4> QED BY <3>1, <3>2, <4>1, <4>4
    <3>3. CASE j # i
      <4>1. inode_tbl'[j] = inode_tbl[j]
        BY <1>8, <1>r, <3>3
      <4> QED BY <3>1, <4>1 DEF NoMore
    <3> QED BY <3>2, <3>3
  <2>2. d_inode[INO_ROOTDIR].size <= inode_tbl'[INO_ROOTDIR].size
    BY <1>8, <1>r, RootIsInode DEF Behind
  <2> QED BY <1>4, <2>1, <2>2 DEF Behind
<1>13. RequestsOK'
  <2>1. blkoff < inode_tbl'[i].nlink /\ inode_tbl'[i].size = inode_tbl[i].size
    BY <1>6, <1>8
  <2> QED BY <1>1, <1>4, <1>5, <1>r, <2>1 DEF RequestsOK
<1>14. DiskOK'
  <2>1. (Owned(d_imap, d_bmap, d_inode) /\ SizesOK(d_imap, d_inode))'
    BY <1>10, <1>11, <1>12, DiskOwned, PTL
  <2> QED BY <1>4, <1>r, <2>1 DEF DiskOK
<1> QED BY <1>1, <1>4, <1>10, <1>11, <1>12, <1>13, <1>14 DEF IInv, Running

LEMMA WriteDataInv == IInv /\ WriteData => IInv'
<1> SUFFICES ASSUME IInv, WriteData PROVE IInv'
  OBVIOUS
<1> DEFINE b == inode_tbl[w.ino].direct[blkoff]
           old == IF pc = "data" THEN [c \in Cells |-> NoCell] ELSE d_data[b]
<1>1. /\ pc \in {"write", "data"} /\ (pc = "write" => ~NeedsBlock(w.ino, w.offset))
      /\ pending # <<>> /\ pending \in Seq(Request)
  BY DEF WriteData, IInv
<1>r. /\ MemoryOK /\ Behind /\ RequestsOK /\ DiskOK /\ TypeOK
      /\ inode_tbl \in Tables /\ d_inode \in Tables /\ imap \in SUBSET Inodes
      /\ NUM_DIRECT \in Nat \ {0} /\ BLOCK \in Nat \ {0}
  BY <1>1, RunningFacts
<1>2. /\ w.ino \in imap /\ w.ino \in Inodes /\ w.offset \in Nat /\ blkoff \in Nat
      /\ w.cell \in CellType
      /\ w.cell.name \in Names => w.cell.ino \in imap \ {INO_ROOTDIR}
  BY <1>1, <1>r, RequestType DEF RequestsOK
<1>3. /\ UNCHANGED <<pending, imap, bmap, inode_tbl, d_imap, d_bmap, d_inode>>
      /\ pc' = "inode" /\ d_data' = [d_data EXCEPT ![b] = Overlaid(old)]
  BY DEF WriteData, memory
<1>4. w' = w /\ Missing' = Missing /\ res_off' = res_off /\ blkoff' = blkoff
  BY <1>3 DEF w, Missing, res_off, blkoff
<1>5. blkoff < inode_tbl[w.ino].nlink
  <2>1. CASE pc = "data"
    BY <1>1, <1>r, <2>1 DEF RequestsOK
  <2>2. CASE pc = "write"
    <3>1. /\ inode_tbl[w.ino].nlink \in Nat /\ inode_tbl[w.ino].size \in Nat
          /\ inode_tbl[w.ino].size <= inode_tbl[w.ino].nlink * BLOCK
          /\ w.offset <= inode_tbl[w.ino].size
      BY <1>1, <1>2, <1>r, TableType DEF MemoryOK, SizesOK, RequestsOK
    <3>2. w.offset <= inode_tbl[w.ino].nlink * BLOCK
      <4> DEFINE most == inode_tbl[w.ino].nlink * BLOCK
      <4>1. most \in Nat /\ inode_tbl[w.ino].size <= most
        BY <1>r, <3>1
      <4> HIDE DEF most
      <4>2. w.offset <= most
        BY <1>2, <3>1, <4>1
      <4> QED BY <4>2 DEF most
    <3>3. ~(w.offset % BLOCK = 0 /\ w.offset \div BLOCK >= inode_tbl[w.ino].nlink)
      BY <1>1, <2>2 DEF NeedsBlock
    <3> QED BY <1>2, <1>r, <3>1, <3>2, <3>3, NoBlockNeeded DEF blkoff
  <2> QED BY <1>1, <2>1, <2>2
<1>6. b \in Blocks
  BY <1>2, <1>5, <1>r, TableType
<1>7. \A c \in Cells : Overlaid(old)[c] \in {w.cell, NoCell, d_data[b][c]}
  BY DEF Overlaid
<1>8. d_data' \in [Blocks -> [Cells -> CellType]]
  <2>1. NoCell \in CellType
    BY DEF NoCell, CellType
  <2>2. d_data[b] \in [Cells -> CellType] /\ d_data \in [Blocks -> [Cells -> CellType]]
    BY <1>6, <1>r DEF TypeOK
  <2>3. \A c \in Cells : Overlaid(old)[c] \in CellType
    BY <1>2, <1>7, <2>1, <2>2
  <2>4. Overlaid(old) \in [Cells -> CellType]
    BY <2>3 DEF Overlaid
  <2> QED BY <1>3, <1>6, <2>2, <2>4
<1>9. TypeOK'
  BY <1>3, <1>8, <1>r DEF TypeOK
<1>10. DiskOK'
  <2>1. d_imap = imap
    BY <1>1, <1>r DEF Behind
  <2>2. ASSUME NEW a \in Blocks, NEW c \in Cells, d_data'[a][c].name \in Names
        PROVE  d_data'[a][c].ino \in d_imap \ {INO_ROOTDIR}
    <3>1. d_data'[a][c] \in {w.cell, NoCell, d_data[a][c]}
      BY <1>3, <1>6, <1>7, <1>r DEF TypeOK
    <3>2. NoCell.name \notin Names
      BY NamesAssumption DEF NoCell
    <3> QED BY <1>2, <1>r, <2>1, <2>2, <3>1, <3>2 DEF DiskOK
  <2> QED BY <1>3, <1>r, <2>2 DEF DiskOK
<1>11. MemoryOK'
  BY <1>3, <1>4, <1>r DEF MemoryOK
<1>12. Behind'
  <2>1. \A j \in imap : InFlight(j) => InFlight(j)'
    BY <1>3, <1>4 DEF InFlight
  <2>2. pc # "bitmap" /\ pc' # "bitmap"
    BY <1>1, <1>3
  <2> QED BY <1>3, <1>r, <2>1, <2>2 DEF Behind
<1>13. RequestsOK'
  BY <1>1, <1>3, <1>4, <1>5, <1>r DEF RequestsOK
<1> QED BY <1>1, <1>3, <1>9, <1>10, <1>11, <1>12, <1>13 DEF IInv, Running

LEMMA WriteInodeInv == IInv /\ WriteInode => IInv'
<1> SUFFICES ASSUME IInv, WriteInode PROVE IInv'
  OBVIOUS
<1> DEFINE i == w.ino
           end == w.offset + w.len
           size == inode_tbl[i].size
<1>1. pc = "inode" /\ pending # <<>> /\ pending \in Seq(Request)
  BY DEF WriteInode, IInv
<1>r. /\ MemoryOK /\ Behind /\ RequestsOK /\ DiskOK /\ TypeOK
      /\ inode_tbl \in Tables /\ d_inode \in Tables
      /\ imap \in SUBSET Inodes /\ INO_ROOTDIR \in imap
      /\ NUM_DIRECT \in Nat \ {0} /\ BLOCK \in Nat \ {0} /\ NUM_DIRECT * BLOCK \in Nat
  BY <1>1, RunningFacts
<1>2. /\ i \in imap /\ i \in Inodes /\ w.offset \in Nat /\ w.len \in Nat \ {0}
      /\ w.offset <= size /\ end <= NUM_DIRECT * BLOCK /\ blkoff < inode_tbl[i].nlink
      /\ res_off + w.len <= BLOCK
      /\ size \in Nat /\ size <= NUM_DIRECT * BLOCK /\ end \in Nat
  BY <1>1, <1>r, RequestType, TableType DEF RequestsOK
<1>3. /\ UNCHANGED <<imap, bmap, d_imap, d_bmap, d_data>>
      /\ pending' = Tail(pending)
      /\ pc' = IF Tail(pending) = <<>> THEN "idle" ELSE "write"
      /\ d_imap = imap
  BY <1>1, <1>r DEF WriteInode, Behind
<1>4. /\ Larger(size, end) \in Nat /\ size <= Larger(size, end) /\ end <= Larger(size, end)
      /\ Larger(size, end) \in {size, end} /\ Larger(size, end) <= NUM_DIRECT * BLOCK
  BY <1>2, <1>r DEF Larger
<1>5. /\ inode_tbl' \in Tables /\ inode_tbl'[i].size = Larger(size, end)
      /\ inode_tbl'[i].nlink = inode_tbl[i].nlink /\ inode_tbl'[i].direct = inode_tbl[i].direct
      /\ \A j \in Inodes \ {i} : inode_tbl'[j] = inode_tbl[j]
  <2>1. inode_tbl[i] \in InodeType
    BY <1>2, <1>r DEF Tables
  <2>2. Larger(size, end) \in 0 .. NUM_DIRECT * BLOCK
    BY <1>4, <1>r
  <2>3. [inode_tbl[i] EXCEPT !.size = Larger(size, end)] \in InodeType
    BY <2>1, <2>2 DEF InodeType
  <2>4. inode_tbl' = [inode_tbl EXCEPT ![i] = [inode_tbl[i] EXCEPT !.size = Larger(size, end)]]
    BY <1>2, <1>r, <2>1 DEF WriteInode, Tables, InodeType
  <2>5. inode_tbl' \in Tables
        /\ inode_tbl'[i] = [inode_tbl[i] EXCEPT !.size = Larger(size, end)]
    BY <1>2, <1>r, <2>3, <2>4 DEF Tables
  <2>6. \A j \in Inodes \ {i} : inode_tbl'[j] = inode_tbl[j]
    BY <1>2, <1>r, <2>4 DEF Tables
  <2> QED BY <2>1, <2>5, <2>6 DEF InodeType
<1>6. /\ d_inode' \in Tables /\ d_inode'[i] = inode_tbl'[i]
      /\ \A j \in imap \ {i} : d_inode'[j] = inode_tbl[j] \/ d_inode'[j] = d_inode[j]
  <2>1. d_inode' = Synced(i, inode_tbl')
    BY DEF WriteInode
  <2> QED BY <1>2, <1>5, <1>r, <2>1, SyncedTable
<1>7. inode_tbl'[i].size <= inode_tbl'[i].nlink * BLOCK
  <2> DEFINE most == inode_tbl[i].nlink * BLOCK
  <2>1. inode_tbl[i].nlink \in Nat
    BY <1>2, <1>r, TableType
  <2>2. size <= most
    BY <1>2, <1>r DEF MemoryOK, SizesOK
  <2>3. end <= most
    BY <1>2, <1>r, <2>1, EndsInBlocks DEF blkoff, res_off
  <2> QED BY <1>4, <1>5, <2>2, <2>3
<1>8. \/ Len(pending) = 1 /\ Tail(pending) = <<>>
      \/ /\ Len(pending) = 2 /\ Tail(pending) # <<>> /\ Len(Tail(pending)) = 1
         /\ Head(Tail(pending)) = pending[2]
  <2> DEFINE rest == Tail(pending)
  <2>1. /\ Len(pending) \in Nat \ {0} /\ rest \in Seq(Request)
        /\ Len(rest) = Len(pending) - 1
    BY <1>1, RequestType
  <2>2. Len(pending) <= 2
    BY <1>r DEF TypeOK
  <2>3. Len(rest) = 0 <=> rest = <<>>
    <3> HIDE DEF rest
    <3> QED BY <2>1, EmptySeq
  <2>4. Len(pending) = 2 => Head(Tail(pending)) = pending[2]
    BY <1>1
  <2> HIDE DEF rest
  <2>5. CASE Len(pending) = 1
    BY <2>1, <2>3, <2>5 DEF rest
  <2>6. CASE Len(pending) = 2
    BY <2>1, <2>3, <2>4, <2>6 DEF rest
  <2> QED BY <2>1, <2>2, <2>5, <2>6
<1>9. Tail(pending) \in Seq(Request)
  BY <1>1
<1>10. inode_tbl'[INO_ROOTDIR].size + Missing' <= Cardinality(imap) + 1
  <2>1. inode_tbl[INO_ROOTDIR].size + Missing <= Cardinality(imap) + 1
    BY <1>r DEF MemoryOK
  <2>2. inode_tbl[INO_ROOTDIR].size \in Nat /\ Cardinality(imap) \in Nat
    BY <1>r, TableType, RootIsInode, InodesFinite
  <2>3. CASE i # INO_ROOTDIR
    <3>1. Tail(pending) = <<>> /\ Missing' = 0 /\ Missing = 0
      BY <1>3, <1>8, <1>r, <2>3 DEF RequestsOK, Missing
    <3> QED BY <1>5, <2>1, <2>2, <2>3, <3>1, RootIsInode
  <2>4. CASE i = INO_ROOTDIR
    <3>1. w.len = 1 /\ Missing = Len(pending)
      BY <1>1, <1>r, <2>4 DEF RequestsOK, Missing
    <3>2. Larger(size, end) <= size + 1
      BY <1>2, <1>4, <3>1
    <3>3. Missing' + 1 <= Len(pending) /\ Missing' \in Nat
      BY <1>3, <1>8, <1>9 DEF Missing
    <3>4. Len(pending) \in Nat
      BY <1>1
    <3> QED BY <1>4, <1>5, <2>1, <2>2, <2>4, <3>1, <3>2, <3>3, <3>4
  <2> QED BY <2>3, <2>4
<1>11. TypeOK'
  <2>1. Len(pending') <= 2
    BY <1>3, <1>8
  <2>2. pc' \in {"idle", "write"}
    BY <1>3
  <2>3. inode_tbl' \in [Inodes -> InodeType] /\ d_inode' \in [Inodes -> InodeType]
    BY <1>5, <1>6 DEF Tables
  <2> QED BY <1>3, <1>r, <2>1, <2>2, <2>3 DEF TypeOK
<1>12. MemoryOK'
  <2>1. Owned(imap, bmap, inode_tbl')
    <3>1. \A j \in imap : NoMore(j, inode_tbl', inode_tbl)
      BY <1>5, <1>r, NoMoreSame
    <3>2. Owned(imap, bmap, inode_tbl) /\ imap \in SUBSET imap
      BY <1>r DEF MemoryOK
    <3> QED BY <1>5, <1>r, <3>1, <3>2, OwnedBehind
  <2>2. SizesOK(imap, inode_tbl')
    BY <1>5, <1>7, <1>r DEF MemoryOK, SizesOK
  <2> QED BY <1>3, <1>10, <1>r, <2>1, <2>2 DEF MemoryOK
<1>13. Behind'
  <2>1. ASSUME NEW j \in imap
        PROVE  /\ NoMore(j, d_inode', inode_tbl')
               /\ d_inode'[j].size <= d_inode'[j].nlink * BLOCK
               /\ \/ d_inode'[j] = inode_tbl'[j]
                  \/ inode_tbl'[j] = [d_inode'[j] EXCEPT !.size = 0]
    <3>1. CASE j = i
      BY <1>2, <1>5, <1>6, <1>7, <3>1, NoMoreSame
    <3>2. CASE j # i
      <4>1. /\ NoMore(j, d_inode, inode_tbl)
            /\ d_inode[j].size <= d_inode[j].nlink * BLOCK
            /\ d_inode[j] = inode_tbl[j] \/ inode_tbl[j] = [d_inode[j] EXCEPT !.size = 0]
            /\ inode_tbl[j].size <= inode_tbl[j].nlink * BLOCK
        BY <1>r, <3>2 DEF Behind, MemoryOK, SizesOK, InFlight
      <4>2. inode_tbl'[j] = inode_tbl[j] /\ j \in Inodes
        BY <1>5, <1>r, <3>2
      <4>3. CASE d_inode'[j] = inode_tbl[j]
        BY <1>5, <1>6, <4>1, <4>2, <4>3, NoMoreSame
      <4>4. CASE d_inode'[j] = d_inode[j]
        BY <4>1, <4>2, <4>4 DEF NoMore
      <4> QED BY <1>6, <3>2, <4>3, <4>4
    <3> QED BY <3>1, <3>2
  <2>2. d_inode'[INO_ROOTDIR].size <= inode_tbl'[INO_ROOTDIR].size
    <3>1. d_inode[INO_ROOTDIR].size <= inode_tbl[INO_ROOTDIR].size
      BY <1>r DEF Behind
    <3>2. CASE i = INO_ROOTDIR
      BY <1>4, <1>5, <1>6, <3>2
    <3>3. CASE i # INO_ROOTDIR
      <4>1. inode_tbl'[INO_ROOTDIR] = inode_tbl[INO_ROOTDIR]
            /\ inode_tbl[INO_ROOTDIR].size \in Nat
        BY <1>5, <1>r, <3>3, RootIsInode, TableType
      <4> QED BY <1>6, <1>r, <3>1, <3>3, <4>1
    <3> QED BY <3>2, <3>3
  <2>3. d_imap' = imap' /\ d_bmap' = bmap'
    BY <1>3, <1>r DEF Behind
  <2> QED BY <1>3, <2>1, <2>2, <2>3 DEF Behind
<1>14. RequestsOK'
  <2>1. CASE Tail(pending) = <<>>
    <3>1. pending' = <<>> /\ Len(pending') # 2
      BY <1>3, <2>1
    <3> QED BY <3>1 DEF RequestsOK
  <2>2. CASE Tail(pending) # <<>>
    <3>1. /\ i = INO_ROOTDIR /\ w.len = 1 /\ w.offset + 2 <= NUM_DIRECT * BLOCK
          /\ w' = NewEntry(INO_ROOTDIR, w.offset + 1, Entry(".", INO_ROOTDIR))
      BY <1>1, <1>3, <1>8, <1>r, <2>2 DEF RequestsOK, w
    <3>2. ((w.offset + 1) % BLOCK) + 1 <= BLOCK
      <4> DEFINE next == w.offset + 1
      <4>1. next \in Nat
        BY <1>2
      <4> HIDE DEF next
      <4>2. next % BLOCK \in 0 .. BLOCK - 1
        BY <1>r, <4>1, DivMod
      <4>3. (next % BLOCK) + 1 <= BLOCK
        BY <1>r, <4>2
      <4> QED BY <4>3 DEF next
    <3>3. "." \notin Names
      BY NamesAssumption
    <3>4. w.offset + 1 <= inode_tbl'[i].size
      BY <1>2, <1>4, <1>5, <3>1
    <3>5. pc' = "write" /\ Len(pending') = 1 /\ imap' = imap
      BY <1>3, <1>8, <2>2
    <3>6. w.offset + 1 + 1 <= NUM_DIRECT * BLOCK
      BY <1>2, <1>r, <3>1
    <3> QED BY <1>r, <3>1, <3>2, <3>3, <3>4, <3>5, <3>6 DEF RequestsOK, NewEntry, Entry, res_off
  <2> QED BY <2>1, <2>2
<1>15. DiskOK'
  <2>1. (Owned(d_imap, d_bmap, d_inode) /\ SizesOK(d_imap, d_inode))'
    BY <1>11, <1>12, <1>13, DiskOwned, PTL
  <2>2. d_inode'[INO_ROOTDIR].size <= Cardinality(imap) + 1
    <3>1. d_inode'[INO_ROOTDIR].size <= inode_tbl'[INO_ROOTDIR].size
      BY <1>13 DEF Behind
    <3>2. Missing' \in Nat
      BY <1>3, <1>9 DEF Missing
    <3>3. /\ d_inode'[INO_ROOTDIR].size \in Nat /\ inode_tbl'[INO_ROOTDIR].size \in Nat
          /\ Cardinality(imap) \in Nat
      BY <1>5, <1>6, <1>r, TableType, RootIsInode, InodesFinite
    <3> QED BY <1>10, <3>1, <3>2, <3>3
  <2> QED BY <1>3, <1>r, <2>1, <2>2 DEF DiskOK
<1> QED BY <1>3, <1>9, <1>11, <1>12, <1>13, <1>14, <1>15 DEF IInv, Running

-----------------------------------------------------------------------------
(* The theorems.                                                           *)

LEMMA NextInv == Within /\ IInv /\ [Next]_vars => IInv'
<1> SUFFICES ASSUME Within, IInv, [Next]_vars PROVE IInv'
  OBVIOUS
<1>1. CASE Mount
  BY <1>1, MountOldInv, MountNewInv
<1>2. CASE SyncBitmap
  BY <1>2, SyncBitmapInv
<1>3. CASE inode_write
  BY <1>3, WriteAllocInv, WriteDataInv, WriteInodeInv DEF inode_write
<1>4. CASE PowerOff
  BY <1>4, PowerOffInv
<1>5. CASE \E name \in Names : OpenNew(name)
  BY <1>5, OpenNewInv
<1>6. ASSUME NEW file \in Files, OpenTrunc(file) PROVE IInv'
  BY <1>6, OpenTruncInv
<1>7. ASSUME NEW file \in Files,
             NEW offset \in 0 .. NUM_DIRECT * BLOCK, NEW len \in 1 .. MaxLen,
             Write(file, offset, len)
      PROVE  IInv'
  BY <1>7, WriteInv
<1>8. CASE UNCHANGED vars
  BY <1>8 DEF IInv, TypeOK, DiskOK, Running, MemoryOK, Behind, RequestsOK, InFlight, Missing,
              w, res_off, blkoff, vars, memory, disk
<1> QED BY <1>1, <1>2, <1>3, <1>4, <1>5, <1>6, <1>7, <1>8 DEF Next

THEOREM InductiveInvariant == Within => (Spec => []IInv)
<1> SUFFICES ASSUME Within PROVE Spec => []IInv
  OBVIOUS
<1>1. IInv /\ [Next]_vars => IInv'
  BY NextInv
<1> QED BY <1>1, InitInv, PTL DEF Spec

\* Every inode, block and directory entry is one the disk has, and no inode
\* uses more blocks than it can name (fs.c, inode.c).
THEOREM Typing == Within => (Spec => []TypeOK)
<1> SUFFICES ASSUME Within PROVE Spec => []TypeOK
  OBVIOUS
<1>1. IInv => TypeOK
  BY DEF IInv
<1> QED BY <1>1, InductiveInvariant, PTL

\* Wherever power fails, no block on the disk has two owners and none in use
\* is free in the bitmap (the order of balloc() and sync_inode()).
THEOREM BlocksOwned == Within => (Spec => []DiskBlocksOwned)
<1> SUFFICES ASSUME Within PROVE Spec => []DiskBlocksOwned
  OBVIOUS
<1>1. IInv => DiskBlocksOwned
  BY DEF IInv, DiskOK, Owned, DiskBlocksOwned
<1> QED BY <1>1, InductiveInvariant, PTL

\* Wherever power fails, the size of a file counts blocks that it uses
\* (inode_write()).
THEOREM SizesCounted == Within => (Spec => []SizeWithinBlocks)
<1> SUFFICES ASSUME Within PROVE Spec => []SizeWithinBlocks
  OBVIOUS
<1>1. IInv => SizeWithinBlocks
  BY DEF IInv, DiskOK, SizesOK, SizeWithinBlocks
<1> QED BY <1>1, InductiveInvariant, PTL

\* When a system call has returned, a power failure loses none of it but a
\* truncation (sync_inode(), sync_bitmap()).
THEOREM CallsOnDisk == Within => (Spec => []WrittenThrough)
<1> SUFFICES ASSUME Within PROVE Spec => []WrittenThrough
  OBVIOUS
<1>1. IInv => WrittenThrough
  <2> SUFFICES ASSUME IInv, pc = "idle"
               PROVE  /\ d_imap = imap /\ d_bmap = bmap
                      /\ \A i \in imap : \/ d_inode[i] = inode_tbl[i]
                                         \/ inode_tbl[i] = [d_inode[i] EXCEPT !.size = 0]
    BY DEF WrittenThrough
  <2>1. Behind /\ \A i \in imap : ~InFlight(i)
    BY DEF IInv, Running, InFlight
  <2> QED BY <2>1 DEF Behind
<1> QED BY <1>1, InductiveInvariant, PTL

-----------------------------------------------------------------------------

\* Cell k of inode i, with the blocks that a table names.
Content(table, data, i, k) == data[table[i].direct[k \div BLOCK]][k % BLOCK]

\* Each file shows its own pieces only.
HoldsOwn(map, table, data) ==
  \A i \in map \ {INO_ROOTDIR} :
    \A k \in 0 .. table[i].size - 1 : Content(table, data, i, k) = Piece(i)

\* A directory with these entries.
NamesSound(entries) ==
  /\ \A e \in entries : e.name # ""
  /\ \A e, f \in entries :
       e.name \in Names /\ f.name \in Names /\ (e.name = f.name \/ e.ino = f.ino) => e = f

\* The disk alone.
DiskSound ==
  /\ INO_ROOTDIR \notin d_imap => d_inode[INO_ROOTDIR].size = 0
  /\ HoldsOwn(d_imap, d_inode, d_data)
  /\ NamesSound(DiskEntries)

\* An entry that is being added goes to the end of the directory, and is new.
EntrySound ==
  w.ino = INO_ROOTDIR =>
    /\ w.offset = inode_tbl[INO_ROOTDIR].size
    /\ w.cell.name # ""
    /\ w.cell.name \in Names =>
         \A e \in DiskEntries :
           e.name \in Names => e.name # w.cell.name /\ e.ino # w.cell.ino

\* The write under way.  A new block starts where the file ends, so what it
\* held before is nowhere to be seen.
UnderWay ==
  /\ w.ino # INO_ROOTDIR => w.cell = Piece(w.ino)
  /\ EntrySound
  /\ pc = "data" => /\ res_off = 0
                    /\ inode_tbl[w.ino].size <= w.offset
                    /\ d_inode[w.ino].size <= w.offset
  /\ pc = "inode" => \A k \in w.offset .. w.offset + w.len - 1 :
                       Content(inode_tbl, d_data, w.ino, k) = w.cell

\* The memory of a running system.
RunSound ==
  /\ HoldsOwn(imap, inode_tbl, d_data)
  /\ HoldsOwn(imap, d_inode, d_data)
  /\ d_inode[INO_ROOTDIR].size = inode_tbl[INO_ROOTDIR].size
  /\ pending # <<>> => UnderWay

SInv == DiskSound /\ (pc # "off" => RunSound)

-----------------------------------------------------------------------------
(* Cells of inodes.                                                        *)

\* A cell before the end of an inode lies in a block of it.
LEMMA CellPlace ==
  ASSUME NEW table \in Tables, NEW i \in Inodes,
         table[i].size <= table[i].nlink * BLOCK,
         NEW k \in 0 .. table[i].size - 1
  PROVE  /\ k \in Nat
         /\ k \div BLOCK \in 0 .. table[i].nlink - 1
         /\ k \div BLOCK \in 0 .. NUM_DIRECT - 1
         /\ k % BLOCK \in Cells
         /\ table[i].direct[k \div BLOCK] \in Blocks
<1>1. BLOCK \in Nat \ {0} /\ NUM_DIRECT \in Nat
  BY SizesAssumption
<1>2. /\ table[i].size \in Nat /\ table[i].nlink \in Nat /\ table[i].nlink <= NUM_DIRECT
      /\ table[i].direct \in [0 .. NUM_DIRECT - 1 -> Blocks]
  BY TableType
<1>3. k \in Nat /\ k < table[i].nlink * BLOCK
  <2> DEFINE all == table[i].nlink * BLOCK
  <2>1. all \in Nat
    BY <1>1, <1>2
  <2>2. table[i].size <= all
    OBVIOUS
  <2> HIDE DEF all
  <2>3. k < all
    BY <1>2, <2>1, <2>2
  <2>4. QED BY <1>2, <2>3 DEF all
<1>4. k \div BLOCK \in Nat /\ k % BLOCK \in 0 .. BLOCK - 1
  BY <1>1, <1>3, DivMod
<1>5. k \div BLOCK < table[i].nlink
  BY <1>1, <1>2, <1>3, DivLess
<1> DEFINE q == k \div BLOCK
<1> HIDE DEF q
<1>6. q \in Nat /\ q < table[i].nlink
  BY <1>4, <1>5 DEF q
<1>7. q \in 0 .. table[i].nlink - 1 /\ q \in 0 .. NUM_DIRECT - 1
  BY <1>1, <1>2, <1>6
<1>8. table[i].direct[q] \in Blocks
  BY <1>2, <1>7
<1>9. QED BY <1>3, <1>4, <1>7, <1>8 DEF q, Cells

\* On a running system, the inodes in use fit their blocks in both tables.
LEMMA SizesFit ==
  ASSUME IInv, pc # "off", NEW i \in imap
  PROVE  /\ i \in Inodes
         /\ inode_tbl[i].size <= inode_tbl[i].nlink * BLOCK
         /\ d_inode[i].size <= d_inode[i].nlink * BLOCK
         /\ inode_tbl[i].nlink \in Nat /\ d_inode[i].nlink \in Nat
         /\ d_inode[i].nlink <= inode_tbl[i].nlink
         /\ \A k \in 0 .. d_inode[i].nlink - 1 :
              d_inode[i].direct[k] = inode_tbl[i].direct[k]
<1>1. /\ MemoryOK /\ Behind /\ inode_tbl \in Tables /\ d_inode \in Tables
      /\ i \in Inodes
  BY RunningFacts
<1>2. inode_tbl[i].nlink \in Nat /\ d_inode[i].nlink \in Nat
  BY <1>1, TableType
<1>3. NoMore(i, d_inode, inode_tbl) /\ d_inode[i].size <= d_inode[i].nlink * BLOCK
  BY <1>1 DEF Behind
<1>4. inode_tbl[i].size <= inode_tbl[i].nlink * BLOCK
  BY <1>1 DEF MemoryOK, SizesOK
<1>5. QED BY <1>1, <1>2, <1>3, <1>4 DEF NoMore

\* A cell that the inode on the disk has is the same in memory.
LEMMA SameContent ==
  ASSUME IInv, pc # "off", NEW i \in imap, NEW k \in 0 .. d_inode[i].size - 1, NEW data
  PROVE  /\ Content(d_inode, data, i, k) = Content(inode_tbl, data, i, k)
         /\ k \in Nat /\ k \div BLOCK \in 0 .. d_inode[i].nlink - 1
         /\ k \div BLOCK \in 0 .. inode_tbl[i].nlink - 1
<1>1. d_inode \in Tables
  BY RunningFacts
<1>2. k \in Nat /\ k \div BLOCK \in 0 .. d_inode[i].nlink - 1
  BY <1>1, SizesFit, CellPlace
<1> DEFINE q == k \div BLOCK
<1> HIDE DEF q
<1>3. q \in 0 .. d_inode[i].nlink - 1
  BY <1>2 DEF q
<1>4. q \in 0 .. inode_tbl[i].nlink - 1 /\ d_inode[i].direct[q] = inode_tbl[i].direct[q]
  BY <1>3, SizesFit
<1>5. QED BY <1>2, <1>4 DEF q, Content

\* The entries on the disk name inodes of their own.
LEMMA EntryInode ==
  ASSUME DiskOK, TypeOK, INO_ROOTDIR \in d_imap, NEW e \in DiskEntries
  PROVE  /\ e \in CellType
         /\ e.name \in Names => e.ino \in d_imap \ {INO_ROOTDIR}
<1> DEFINE root == d_inode[INO_ROOTDIR]
<1>1. d_inode \in Tables /\ INO_ROOTDIR \in Inodes /\ root.size <= root.nlink * BLOCK
  BY RootIsInode DEF TypeOK, Tables, DiskOK, SizesOK
<1>2. PICK k \in 0 .. root.size - 1 : e = d_data[root.direct[k \div BLOCK]][k % BLOCK]
  BY DEF DiskEntries, Entries
<1>3. k % BLOCK \in Cells /\ root.direct[k \div BLOCK] \in Blocks
  BY <1>1, CellPlace
<1>4. QED BY <1>2, <1>3 DEF TypeOK, DiskOK

\* An empty file may be added, whatever blocks it names.
LEMMA HoldsMore ==
  ASSUME NEW map, NEW table, NEW data, HoldsOwn(map, table, data), NEW i, NEW table2,
         table2[i].size = 0, \A j \in map : j # i => table2[j] = table[j]
  PROVE  HoldsOwn(map \cup {i}, table2, data)
<1>1. SUFFICES ASSUME NEW j \in (map \cup {i}) \ {INO_ROOTDIR},
                      NEW k \in 0 .. table2[j].size - 1
               PROVE  Content(table2, data, j, k) = Piece(j)
  BY DEF HoldsOwn
<1>2. j # i /\ j \in map \ {INO_ROOTDIR}
  BY <1>1
<1>3. table2[j] = table[j]
  BY <1>2
<1>4. QED BY <1>1, <1>2, <1>3 DEF HoldsOwn, Content

LEMMA EntriesAre ==
  DiskEntries = {Content(d_inode, d_data, INO_ROOTDIR, k) :
                   k \in 0 .. d_inode[INO_ROOTDIR].size - 1}
BY DEF DiskEntries, Entries, Content

-----------------------------------------------------------------------------
(* What WriteData does to the cells.                                       *)

\* The cells that a write within a block changes.
LEMMA SameCell ==
  ASSUME NEW o \in Nat, NEW k \in Nat, NEW len \in Nat, NEW B \in Nat \ {0},
         (o % B) + len <= B
  PROVE  k \div B = o \div B /\ o % B <= k % B /\ k % B < (o % B) + len
           <=> o <= k /\ k < o + len
<1> DEFINE p == o \div B
           r == o % B
           q == k \div B
           s == k % B
<1>1. /\ p \in Nat /\ r \in Nat /\ o = p * B + r
      /\ q \in Nat /\ s \in Nat /\ k = q * B + s
      /\ r < B /\ s < B
  BY DivMod
<1>2. r + len <= B
  OBVIOUS
<1> HIDE DEF p, q, r, s
<1>3. CASE p = q
  BY <1>1, <1>3 DEF p, q, r, s
<1>4. CASE q < p
  <2>1. (q + 1) * B <= p * B
    BY <1>1, <1>4, MoreBlocks
  <2>2. (q + 1) * B = q * B + B /\ q * B \in Nat /\ p * B \in Nat
    BY <1>1
  <2>3. k < o
    BY <1>1, <2>1, <2>2
  <2>4. QED BY <1>1, <1>4, <2>3 DEF p, q
<1>5. CASE p < q
  <2>1. (p + 1) * B <= q * B
    BY <1>1, <1>5, MoreBlocks
  <2>2. (p + 1) * B = p * B + B /\ q * B \in Nat /\ p * B \in Nat
    BY <1>1
  <2>3. o + len <= k
    BY <1>1, <1>2, <2>1, <2>2
  <2>4. QED BY <1>1, <1>5, <2>3 DEF p, q
<1>6. QED BY <1>1, <1>3, <1>4, <1>5

LEMMA SameBlock ==
  ASSUME NEW o \in Nat, NEW k \in Nat, NEW len \in Nat, NEW B \in Nat \ {0},
         (o % B) + len <= B, o <= k, k < o + len
  PROVE  k \div B = o \div B
<1> DEFINE inside == k \div B = o \div B /\ o % B <= k % B /\ k % B < (o % B) + len
<1>1. inside <=> o <= k /\ k < o + len
  BY SameCell
<1>2. inside => k \div B = o \div B
  OBVIOUS
<1> HIDE DEF inside
<1>3. QED BY <1>1, <1>2

\* The start of a block and a cell before it lie in different blocks.
LEMMA BeforeBlock ==
  ASSUME NEW o \in Nat, NEW k \in Nat, NEW B \in Nat \ {0}, o % B = 0, k < o
  PROVE  k \div B # o \div B
<1> DEFINE p == o \div B
           q == k \div B
<1>1. p \in Nat /\ q \in Nat /\ k % B \in Nat /\ o = B * p + (o % B) /\ k = B * q + (k % B)
  BY DivMod
<1> HIDE DEF p, q
<1>2. ASSUME q = p PROVE FALSE
  <2> DEFINE m == B * p
  <2>1. m \in Nat /\ o = m + (o % B) /\ k = m + (k % B)
    BY <1>1, <1>2
  <2> HIDE DEF m
  <2>2. QED BY <1>1, <2>1
<1>3. QED BY <1>2 DEF p, q

\* A cell of an inode in use after WriteData.
LEMMA DataWritten ==
  ASSUME IInv, WriteData, NEW j \in imap, NEW k \in Nat,
         k \div BLOCK \in 0 .. inode_tbl[j].nlink - 1
  PROVE  Content(inode_tbl, d_data', j, k) =
           IF j = w.ino /\ w.offset <= k /\ k < w.offset + w.len THEN w.cell
           ELSE IF j = w.ino /\ pc = "data" /\ k \div BLOCK = blkoff THEN NoCell
           ELSE Content(inode_tbl, d_data, j, k)
<1> DEFINE i == w.ino
           b == inode_tbl[i].direct[blkoff]
           old == IF pc = "data" THEN [c \in Cells |-> NoCell] ELSE d_data[b]
           q == k \div BLOCK
           s == k % BLOCK
<1>1. /\ pc \in {"write", "data"} /\ pending # <<>> /\ pending \in Seq(Request)
      /\ d_data' = [d_data EXCEPT ![b] = Overlaid(old)]
      /\ pending' = pending /\ inode_tbl' = inode_tbl /\ pc' = "inode"
  BY DEF WriteData, IInv, memory
<1>2. /\ MemoryOK /\ RequestsOK /\ inode_tbl \in Tables /\ BLOCK \in Nat \ {0}
      /\ d_data \in [Blocks -> [Cells -> CellType]] /\ j \in Inodes
      /\ NUM_DIRECT \in Nat
  BY <1>1, RunningFacts DEF TypeOK
<1>3. /\ i \in imap /\ i \in Inodes /\ w.offset \in Nat /\ w.len \in Nat
      /\ res_off + w.len <= BLOCK
  BY <1>1, <1>2, RequestType DEF RequestsOK
<1>4. blkoff \in 0 .. inode_tbl[i].nlink - 1
  <2>1. (pending # <<>> => (pc \in {"data", "inode"} => blkoff < inode_tbl[w.ino].nlink))'
    BY WriteDataInv DEF IInv, Running, RequestsOK
  <2>2. blkoff < inode_tbl[i].nlink
    BY <1>1, <2>1 DEF blkoff, w
  <2>3. blkoff \in Nat /\ inode_tbl[i].nlink \in Nat
    BY <1>1, <1>2, <1>3, RequestType, TableType
  <2> HIDE DEF i
  <2>4. QED BY <2>2, <2>3
<1>5. /\ inode_tbl[j].nlink \in Nat /\ inode_tbl[j].nlink <= NUM_DIRECT
      /\ inode_tbl[j].direct \in [0 .. NUM_DIRECT - 1 -> Blocks]
      /\ inode_tbl[i].nlink \in Nat /\ inode_tbl[i].nlink <= NUM_DIRECT
      /\ inode_tbl[i].direct \in [0 .. NUM_DIRECT - 1 -> Blocks]
  BY <1>2, <1>3, TableType
<1>6. s \in Cells
  BY <1>2, DivMod DEF Cells
<1>7. q \in 0 .. inode_tbl[j].nlink - 1
  OBVIOUS
<1>8. /\ q = blkoff /\ res_off <= s /\ s < res_off + w.len
           <=> w.offset <= k /\ k < w.offset + w.len
  BY <1>2, <1>3, SameCell DEF blkoff, res_off
<1> DEFINE a == inode_tbl[j].direct[q]
<1>9. Content(inode_tbl, d_data, j, k) = d_data[a][s] /\ Content(inode_tbl, d_data', j, k) = d_data'[a][s]
  BY DEF Content
<1> HIDE DEF i, q, s
<1>10. a \in Blocks /\ b \in Blocks
  <2> DEFINE n == inode_tbl[j].nlink
             m == inode_tbl[i].nlink
  <2>0. /\ n \in Nat /\ n <= NUM_DIRECT /\ q \in 0 .. n - 1
        /\ m \in Nat /\ m <= NUM_DIRECT /\ blkoff \in 0 .. m - 1
        /\ NUM_DIRECT \in Nat
    BY <1>2, <1>4, <1>5, <1>7
  <2> HIDE DEF n, m
  <2>1. q \in 0 .. NUM_DIRECT - 1 /\ blkoff \in 0 .. NUM_DIRECT - 1
    BY ONLY <2>0
  <2>2. QED BY <1>5, <2>1
<1>11. a = b <=> j = i /\ q = blkoff
  <2>1. Owned(imap, bmap, inode_tbl)
    BY <1>2 DEF MemoryOK
  <2>2. CASE j = i
    <3>1. a = b => q = blkoff
      BY <1>3, <1>4, <1>7, <2>1, <2>2 DEF Owned
    <3>2. QED BY <2>2, <3>1
  <2>3. CASE j # i
    <3>1. a \in Used(inode_tbl, j) /\ b \in Used(inode_tbl, i)
      BY <1>4, <1>7 DEF Used
    <3>2. Used(inode_tbl, j) \cap Used(inode_tbl, i) = {}
      BY <1>3, <2>1, <2>3 DEF Owned
    <3>3. QED BY <2>3, <3>1, <3>2
  <2>4. QED BY <2>2, <2>3
<1> HIDE DEF a, b
<1>12. d_data'[a][s] = IF a = b THEN Overlaid(old)[s] ELSE d_data[a][s]
  BY <1>1, <1>2, <1>10 DEF b, i
<1>13. Overlaid(old)[s] = IF res_off <= s /\ s < res_off + w.len THEN w.cell ELSE old[s]
  BY <1>6 DEF Overlaid
<1>14. a = b => old[s] = IF pc = "data" THEN NoCell ELSE d_data[a][s]
  BY <1>6 DEF b, i
<1> HIDE DEF old
<1>15. d_data'[a][s] = IF j = i /\ w.offset <= k /\ k < w.offset + w.len THEN w.cell
                       ELSE IF j = i /\ pc = "data" /\ q = blkoff THEN NoCell
                       ELSE d_data[a][s]
  <2>1. CASE a = b
    BY <2>1, <1>8, <1>11, <1>12, <1>13, <1>14
  <2>2. CASE a # b
    BY <2>2, <1>8, <1>11, <1>12
  <2>3. QED BY <2>1, <2>2
<1>16. QED BY <1>9, <1>15 DEF i, q

-----------------------------------------------------------------------------
(* The steps.                                                              *)

LEMMA InitSound == Init => SInv
<1> SUFFICES ASSUME Init PROVE SInv
  OBVIOUS
<1>1. d_inode[INO_ROOTDIR].size = 0
  BY RootIsInode DEF Init, BlankTable, NoInode
<1>2. DiskEntries = {}
  BY <1>1, EntriesAre
<1>3. QED BY <1>1, <1>2 DEF Init, SInv, DiskSound, HoldsOwn, NamesSound

LEMMA PowerOffSound == SInv /\ PowerOff => SInv'
<1> SUFFICES ASSUME SInv, PowerOff PROVE SInv'
  OBVIOUS
<1>1. UNCHANGED <<d_imap, d_bmap, d_inode, d_data>> /\ pc' = "off"
  BY DEF PowerOff, disk
<1>2. DiskEntries' = DiskEntries
  BY <1>1 DEF DiskEntries, Entries
<1>3. DiskSound'
  BY <1>1, <1>2 DEF SInv, DiskSound, HoldsOwn, Content
<1>4. QED BY <1>1, <1>3 DEF SInv

\* Mount of a disk with a root directory.
LEMMA MountOldSound ==
  ASSUME IInv, SInv, Mount, ~NeedsRoot
  PROVE  SInv'
<1>1. /\ UNCHANGED <<pending, d_imap, d_bmap, d_inode, d_data>> /\ pc = "off"
      /\ imap' = d_imap /\ inode_tbl' = d_inode /\ pending = <<>>
  BY DEF Mount, IInv
<1>2. DiskEntries' = DiskEntries
  BY <1>1 DEF DiskEntries, Entries
<1>3. QED
  BY <1>1, <1>2 DEF SInv, DiskSound, RunSound, HoldsOwn, Content

\* Mount of a disk without: what is written next is the entry "..".
LEMMA MountNewSound ==
  ASSUME IInv, SInv, Mount, NeedsRoot
  PROVE  SInv'
<1> DEFINE r1 == NewEntry(INO_ROOTDIR, 0, Entry("..", INO_ROOTDIR))
           r2 == NewEntry(INO_ROOTDIR, 1, Entry(".", INO_ROOTDIR))
<1>1. /\ UNCHANGED <<d_imap, d_bmap, d_data>> /\ pc' = "bitmap"
      /\ pending' = <<r1, r2>> /\ imap' = d_imap \cup {INO_ROOTDIR}
      /\ inode_tbl' = [BlankTable EXCEPT ![INO_ROOTDIR].size = 0, ![INO_ROOTDIR].nlink = 0]
      /\ d_inode' = Synced(INO_ROOTDIR, inode_tbl')
  BY DEF Mount, inode_create
<1>2. d_imap = {}
  BY DEF IInv, NeedsRoot, DiskOK
<1>3. inode_tbl'[INO_ROOTDIR].size = 0 /\ d_inode'[INO_ROOTDIR].size = 0
  BY <1>1, RootIsInode DEF BlankTable, NoInode, Synced
<1>4. DiskEntries' = {}
  BY <1>3 DEF DiskEntries, Entries
<1>5. w' = r1
  BY <1>1 DEF w
<1>6. QED
  BY <1>1, <1>2, <1>3, <1>4, <1>5, NamesAssumption
     DEF SInv, DiskSound, RunSound, UnderWay, EntrySound, HoldsOwn, NamesSound,
         NewEntry, Entry

\* The second block write of inode_create().
LEMMA SyncBitmapSound ==
  ASSUME IInv, SInv, SyncBitmap
  PROVE  SInv'
<1>1. /\ UNCHANGED <<pending, imap, bmap, inode_tbl, d_inode, d_data>>
      /\ pc = "bitmap" /\ pc' = "write" /\ d_imap' = imap
  BY DEF SyncBitmap, SyncedMap, memory
<1>2. DiskSound /\ RunSound /\ INO_ROOTDIR \in imap
  BY <1>1, RunningFacts DEF SInv
<1>3. DiskEntries' = DiskEntries
  BY <1>1 DEF DiskEntries, Entries
<1>4. DiskSound'
  BY <1>1, <1>2, <1>3 DEF DiskSound, RunSound, HoldsOwn, Content
<1>5. w' = w
  BY <1>1 DEF w
<1>6. RunSound'
  BY <1>1, <1>2, <1>3, <1>5
     DEF RunSound, UnderWay, EntrySound, HoldsOwn, Content
<1>7. QED BY <1>4, <1>6 DEF SInv

LEMMA OpenTruncSound ==
  ASSUME IInv, SInv, NEW file \in Files, OpenTrunc(file)
  PROVE  SInv'
<1>1. pc = "idle" /\ pending = <<>> /\ file.ino \in imap \ {INO_ROOTDIR}
      /\ file.ino \in Inodes
  BY FileInode DEF IInv, OpenTrunc
<1>2. /\ UNCHANGED <<pc, pending, imap, bmap, d_imap, d_bmap, d_inode, d_data>>
      /\ inode_tbl' = [inode_tbl EXCEPT ![file.ino].size = 0]
  BY DEF OpenTrunc, disk
<1>3. inode_tbl \in Tables
  BY <1>1, RunningFacts
<1>4. /\ inode_tbl'[file.ino].size = 0
      /\ \A j \in Inodes \ {file.ino} : inode_tbl'[j] = inode_tbl[j]
  BY <1>1, <1>2, <1>3 DEF Tables, InodeType
<1>5. DiskEntries' = DiskEntries
  BY <1>2 DEF DiskEntries, Entries
<1>6. DiskSound'
  BY <1>2, <1>5 DEF SInv, DiskSound, HoldsOwn, Content
<1>7. RunSound
  BY <1>1 DEF SInv
<1>8. imap \subseteq Inodes
  BY <1>1, RunningFacts
<1>9. HoldsOwn(imap, inode_tbl, d_data)'
  <2>1. SUFFICES ASSUME NEW i \in imap \ {INO_ROOTDIR}, NEW k \in 0 .. inode_tbl'[i].size - 1
                 PROVE  Content(inode_tbl', d_data, i, k) = Piece(i)
    BY <1>2 DEF HoldsOwn, Content
  <2>2. i # file.ino /\ i \in Inodes
    BY <2>1, <1>4, <1>8
  <2>3. QED BY <2>1, <2>2, <1>4, <1>7 DEF RunSound, HoldsOwn, Content
<1>10. HoldsOwn(imap, d_inode, d_data)'
  BY <1>2, <1>7 DEF RunSound, HoldsOwn, Content
<1>11. (d_inode[INO_ROOTDIR].size = inode_tbl[INO_ROOTDIR].size)'
  BY <1>1, <1>2, <1>4, <1>7, RootIsInode DEF RunSound
<1>12. QED BY <1>1, <1>2, <1>6, <1>9, <1>10, <1>11 DEF SInv, RunSound

\* write() only prepares the request.
LEMMA WriteSound ==
  ASSUME IInv, SInv, NEW file \in Files, NEW offset, NEW len, Write(file, offset, len)
  PROVE  SInv'
<1>1. pc = "idle" /\ file.ino \in imap \ {INO_ROOTDIR}
  BY FileInode DEF Write
<1>2. /\ UNCHANGED <<imap, bmap, inode_tbl, d_imap, d_bmap, d_inode, d_data>>
      /\ pc' = "write"
      /\ pending' = <<[ino |-> file.ino, offset |-> offset, len |-> len,
                       cell |-> Piece(file.ino)]>>
  BY DEF Write, memory, disk
<1>3. w'.ino = file.ino /\ w'.cell = Piece(file.ino)
  BY <1>2 DEF w
<1>4. DiskEntries' = DiskEntries
  BY <1>2 DEF DiskEntries, Entries
<1>5. DiskSound'
  BY <1>2, <1>4 DEF SInv, DiskSound, HoldsOwn, Content
<1>6. QED
  BY <1>1, <1>2, <1>3, <1>5
     DEF SInv, RunSound, UnderWay, EntrySound, HoldsOwn, Content

\* open() of a new name: the entry to come is new to the directory.
LEMMA OpenNewSound ==
  ASSUME IInv, SInv, NEW name \in Names, OpenNew(name)
  PROVE  SInv' /\ DiskEntries' = DiskEntries
<1>1. pc = "idle" /\ pending = <<>>
  BY DEF IInv, OpenNew
<1>2. /\ MemoryOK /\ Behind /\ DiskOK /\ TypeOK /\ inode_tbl \in Tables
      /\ d_inode \in Tables /\ imap \in SUBSET Inodes /\ INO_ROOTDIR \in imap
      /\ d_imap = imap /\ DiskSound /\ RunSound
  BY <1>1, RunningFacts DEF Behind, SInv
<1> DEFINE end == inode_tbl[INO_ROOTDIR].size
<1>3. PICK i \in Inodes :
        /\ i \notin imap
        /\ inode_create(i, inode_tbl, imap)
        /\ pending' = <<NewEntry(INO_ROOTDIR, end, Entry(name, i))>>
  BY DEF OpenNew, IsFirst, FreeInodes
<1>4. /\ UNCHANGED <<d_imap, d_data>> /\ pc' = "bitmap" /\ imap' = imap \cup {i}
      /\ inode_tbl' = [inode_tbl EXCEPT ![i].size = 0, ![i].nlink = 0]
      /\ d_inode' = Synced(i, inode_tbl')
  BY <1>3 DEF OpenNew, inode_create
<1>5. /\ inode_tbl'[i].size = 0
      /\ \A j \in Inodes \ {i} : inode_tbl'[j] = inode_tbl[j]
  BY <1>2, <1>3, <1>4 DEF Tables, InodeType
<1>6. /\ d_inode'[i].size = 0
      /\ \A j \in imap : d_inode'[j] = inode_tbl[j] \/ d_inode'[j] = d_inode[j]
  BY <1>2, <1>3, <1>4, <1>5 DEF Synced
<1>7. /\ w'.ino = INO_ROOTDIR /\ w'.offset = end /\ w'.cell = Entry(name, i)
  BY <1>3 DEF w, NewEntry
<1>8. d_inode[INO_ROOTDIR] = inode_tbl[INO_ROOTDIR]
  <2>1. \/ d_inode[INO_ROOTDIR] = inode_tbl[INO_ROOTDIR]
        \/ inode_tbl[INO_ROOTDIR] = [d_inode[INO_ROOTDIR] EXCEPT !.size = 0]
    BY <1>1, <1>2 DEF Behind, InFlight
  <2>2. d_inode[INO_ROOTDIR].size = inode_tbl[INO_ROOTDIR].size
    BY <1>2 DEF RunSound
  <2>3. d_inode[INO_ROOTDIR] \in InodeType
    BY <1>2, RootIsInode DEF Tables
  <2>4. QED BY <2>1, <2>2, <2>3 DEF InodeType
<1>9. d_inode'[INO_ROOTDIR] = d_inode[INO_ROOTDIR] /\ inode_tbl'[INO_ROOTDIR] = inode_tbl[INO_ROOTDIR]
  BY <1>2, <1>3, <1>5, <1>6, <1>8
<1>10. DiskEntries' = DiskEntries
  BY <1>4, <1>9 DEF DiskEntries, Entries
<1>11. HoldsOwn(imap, inode_tbl, d_data) /\ HoldsOwn(imap, d_inode, d_data)
  BY <1>2 DEF RunSound
<1>12. HoldsOwn(imap, d_inode', d_data)
  BY <1>6, <1>11 DEF HoldsOwn, Content
<1>13. DiskSound'
  BY <1>2, <1>4, <1>9, <1>10, <1>12 DEF DiskSound, HoldsOwn, Content
<1>14. HoldsOwn(imap', inode_tbl', d_data')
  <2>1. \A j \in imap : j # i => inode_tbl'[j] = inode_tbl[j]
    BY <1>2, <1>5
  <2>2. HoldsOwn(imap \cup {i}, inode_tbl', d_data)
    BY <1>5, <1>11, <2>1, HoldsMore
  <2>3. QED BY <1>4, <2>2
<1>15. HoldsOwn(imap', d_inode', d_data')
  <2>1. HoldsOwn(imap \cup {i}, d_inode', d_data)
    BY <1>6, <1>12, HoldsMore
  <2>2. QED BY <1>4, <2>1
<1>16. UnderWay'
  <2>1. \A e \in DiskEntries : e.name \in Names => e.name # name /\ e.ino # i
    <3>1. SUFFICES ASSUME NEW e \in DiskEntries, e.name \in Names
                   PROVE  e.name # name /\ e.ino # i
      OBVIOUS
    <3>2. e.ino \in imap
      BY <1>2, <3>1, EntryInode
    <3>3. e \in Files
      BY <1>8, <3>1 DEF Files, DiskEntries, Entries
    <3>4. e.name # name
      BY <3>3 DEF OpenNew
    <3>5. QED BY <1>3, <3>2, <3>4
  <2>2. name # ""
    BY NamesAssumption
  <2>3. EntrySound'
    <3>1. w'.cell.name = name /\ w'.cell.ino = i
      BY <1>7 DEF Entry
    <3> DEFINE cell == w'.cell
    <3> HIDE DEF cell
    <3>2. cell.name = name /\ cell.ino = i
      BY <3>1 DEF cell
    <3>3. /\ cell.name # ""
          /\ \A e \in DiskEntries' : e.name \in Names => e.name # cell.name /\ e.ino # cell.ino
      BY <1>10, <2>1, <2>2, <3>2
    <3>4. w'.offset = inode_tbl'[INO_ROOTDIR].size
      BY <1>7, <1>9
    <3>5. QED BY <3>3, <3>4 DEF EntrySound, cell
  <2>4. QED BY <1>4, <1>7, <2>3 DEF UnderWay
<1>17. (d_inode[INO_ROOTDIR].size = inode_tbl[INO_ROOTDIR].size)'
  BY <1>8, <1>9
<1>18. RunSound'
  BY <1>14, <1>15, <1>16, <1>17 DEF RunSound, HoldsOwn, Content
<1>19. QED BY <1>10, <1>13, <1>18 DEF SInv

\* A new block starts where the file ends.
LEMMA NewBlockAtEnd ==
  ASSUME IInv, pc = "write", NeedsBlock(w.ino, w.offset)
  PROVE  /\ w.ino \in imap /\ w.ino \in Inodes
         /\ inode_tbl[w.ino].nlink \in Nat /\ blkoff = inode_tbl[w.ino].nlink
         /\ res_off = 0
         /\ inode_tbl[w.ino].size <= w.offset /\ d_inode[w.ino].size <= w.offset
<1> DEFINE i == w.ino
           n == inode_tbl[w.ino].nlink
           m == d_inode[w.ino].nlink
<1>1. /\ pending # <<>> /\ pending \in Seq(Request)
      /\ RequestsOK /\ inode_tbl \in Tables /\ d_inode \in Tables
      /\ BLOCK \in Nat \ {0}
  BY RunningFacts DEF IInv
<1>2. i \in imap /\ i \in Inodes /\ w.offset \in Nat /\ w.offset <= inode_tbl[i].size
  BY <1>1, RequestType DEF RequestsOK
<1>3. /\ n \in Nat /\ m \in Nat /\ m <= n
      /\ inode_tbl[i].size <= n * BLOCK /\ d_inode[i].size <= m * BLOCK
  BY <1>2, SizesFit
<1>4. inode_tbl[i].size \in Nat /\ d_inode[i].size \in Nat
  BY <1>1, <1>2, TableType
<1>5. m * BLOCK <= n * BLOCK /\ n * BLOCK \in Nat /\ m * BLOCK \in Nat
  <2>1. BLOCK \in Nat
    BY <1>1
  <2> HIDE DEF m, n
  <2>2. m * BLOCK <= n * BLOCK
    BY <1>3, <2>1, MoreBlocks
  <2>3. n * BLOCK \in Nat /\ m * BLOCK \in Nat
    BY <1>3, <2>1
  <2>4. QED BY <2>2, <2>3
<1> DEFINE most == n * BLOCK
           some == m * BLOCK
           size == inode_tbl[i].size
           dsize == d_inode[i].size
           o == w.offset
<1>6. /\ most \in Nat /\ some \in Nat /\ some <= most
      /\ size \in Nat /\ dsize \in Nat /\ size <= most /\ dsize <= some
      /\ o \in Nat /\ o <= size
  BY <1>2, <1>3, <1>4, <1>5
<1>7. o % BLOCK = 0 /\ o \div BLOCK >= n
  BY DEF NeedsBlock
<1>8. o <= n * BLOCK
  <2> HIDE DEF most, size, o
  <2>1. o <= most
    BY <1>6
  <2>2. QED BY <2>1 DEF most
<1>9. o \div BLOCK = n
  <2> HIDE DEF o, n
  <2>1. QED BY <1>1, <1>3, <1>6, <1>7, <1>8, BlockNeeded
<1>10. o = most
  <2>1. o = BLOCK * (o \div BLOCK) + (o % BLOCK)
    BY <1>1, <1>2, DivMod
  <2>2. BLOCK * n = n * BLOCK
    BY <1>1, <1>3
  <2> HIDE DEF o, n
  <2>3. o = BLOCK * n
    BY <2>1, <1>1, <1>3, <1>7, <1>9
  <2>4. QED BY <2>2, <2>3
<1> HIDE DEF most, some, size, dsize, o
<1>11. size <= o /\ dsize <= o
  BY <1>6, <1>10
<1>12. QED BY <1>2, <1>3, <1>7, <1>9, <1>11 DEF o, size, dsize, blkoff, res_off

\* balloc(): the cells of the file are in the blocks it has.
LEMMA WriteAllocSound ==
  ASSUME IInv, SInv, WriteAlloc
  PROVE  SInv'
<1> DEFINE i == w.ino
           n == inode_tbl[w.ino].nlink
<1>1. pc = "write" /\ NeedsBlock(i, w.offset) /\ pending # <<>>
  BY DEF WriteAlloc, IInv
<1>2. /\ inode_tbl \in Tables /\ imap \in SUBSET Inodes /\ INO_ROOTDIR \in imap
      /\ DiskSound /\ RunSound /\ UnderWay /\ d_imap = imap
  BY <1>1, RunningFacts DEF SInv, RunSound, Behind
<1>3. PICK b \in DataBlocks :
        inode_tbl' = [inode_tbl EXCEPT ![i].direct[blkoff] = b, ![i].nlink = @ + 1]
  BY DEF WriteAlloc
<1>4. /\ UNCHANGED <<pending, imap, d_inode, d_data>> /\ pc' = "data" /\ d_imap' = imap
  BY DEF WriteAlloc
<1>5. /\ i \in imap /\ i \in Inodes /\ n \in Nat /\ blkoff = n /\ res_off = 0
      /\ inode_tbl[i].size <= w.offset /\ d_inode[i].size <= w.offset
  BY <1>1, NewBlockAtEnd
<1>6. /\ inode_tbl'[i].size = inode_tbl[i].size
      /\ \A k \in 0 .. n - 1 : inode_tbl'[i].direct[k] = inode_tbl[i].direct[k]
      /\ \A j \in Inodes \ {i} : inode_tbl'[j] = inode_tbl[j]
  <2> DEFINE old == inode_tbl[i]
             new == [old EXCEPT !.direct[n] = b, !.nlink = n + 1]
  <2>1. old \in InodeType /\ old.direct \in [0 .. NUM_DIRECT - 1 -> Blocks] /\ n <= NUM_DIRECT
    BY <1>2, <1>5, TableType DEF Tables
  <2>2. inode_tbl' = [inode_tbl EXCEPT ![i] = new]
    BY <1>2, <1>3, <1>5, <2>1 DEF Tables, InodeType
  <2>3. inode_tbl'[i] = new /\ \A j \in Inodes \ {i} : inode_tbl'[j] = inode_tbl[j]
    BY <1>2, <1>5, <2>2 DEF Tables
  <2>4. new.size = old.size /\ new.direct = [old.direct EXCEPT ![n] = b]
    BY <2>1 DEF InodeType
  <2>5. \A k \in 0 .. n - 1 : k \in 0 .. NUM_DIRECT - 1 /\ k # n
    BY <1>5, <2>1, SizesAssumption
  <2>6. \A k \in 0 .. n - 1 : new.direct[k] = old.direct[k]
    BY <2>1, <2>4, <2>5
  <2> HIDE DEF new
  <2>7. QED BY <2>3, <2>4, <2>6
<1>7. DiskEntries' = DiskEntries
  BY <1>4 DEF DiskEntries, Entries
<1>8. DiskSound'
  BY <1>2, <1>4, <1>7 DEF DiskSound, HoldsOwn, Content
<1>9. HoldsOwn(imap, inode_tbl', d_data)
  <2>1. SUFFICES ASSUME NEW j \in imap \ {INO_ROOTDIR}, NEW k \in 0 .. inode_tbl'[j].size - 1
                 PROVE  Content(inode_tbl', d_data, j, k) = Piece(j)
    BY DEF HoldsOwn
  <2>2. k \in 0 .. inode_tbl[j].size - 1
    BY <2>1, <1>2, <1>6
  <2>3. k \div BLOCK \in 0 .. inode_tbl[j].nlink - 1
    BY <1>1, <1>2, <2>2, SizesFit, CellPlace
  <2>4. inode_tbl'[j].direct[k \div BLOCK] = inode_tbl[j].direct[k \div BLOCK]
    BY <1>2, <1>6, <2>3
  <2>5. Content(inode_tbl, d_data, j, k) = Piece(j)
    BY <1>2, <2>2 DEF RunSound, HoldsOwn
  <2>6. QED BY <2>4, <2>5 DEF Content
<1>10. w' = w /\ res_off' = res_off
  BY <1>4 DEF w, res_off
<1>11. (d_inode[INO_ROOTDIR].size = inode_tbl[INO_ROOTDIR].size)'
  BY <1>2, <1>4, <1>6, RootIsInode DEF RunSound
<1>12. UnderWay'
  <2>1. inode_tbl'[INO_ROOTDIR].size = inode_tbl[INO_ROOTDIR].size
    BY <1>6, RootIsInode
  <2>2. EntrySound'
    BY <1>2, <1>7, <1>10, <2>1 DEF UnderWay, EntrySound
  <2>3. QED BY <1>2, <1>4, <1>5, <1>6, <1>10, <2>2 DEF UnderWay
<1>13. RunSound'
  BY <1>2, <1>4, <1>9, <1>11, <1>12 DEF RunSound, HoldsOwn, Content
<1>14. QED BY <1>8, <1>13 DEF SInv

\* The data block.
LEMMA WriteDataSound ==
  ASSUME IInv, SInv, WriteData
  PROVE  SInv' /\ DiskEntries' = DiskEntries
<1> DEFINE i == w.ino
<1>1. /\ pc \in {"write", "data"} /\ pending # <<>> /\ pending \in Seq(Request)
      /\ UNCHANGED <<pending, imap, bmap, inode_tbl, d_imap, d_bmap, d_inode>>
      /\ pc' = "inode"
  BY DEF WriteData, IInv, memory
<1>2. /\ MemoryOK /\ Behind /\ RequestsOK /\ inode_tbl \in Tables /\ d_inode \in Tables
      /\ imap \in SUBSET Inodes
      /\ INO_ROOTDIR \in imap /\ d_imap = imap
      /\ DiskSound /\ RunSound /\ UnderWay /\ BLOCK \in Nat \ {0}
  BY <1>1, RunningFacts DEF SInv, RunSound, Behind
<1>3. /\ i \in imap /\ i \in Inodes /\ w.offset \in Nat /\ w.len \in Nat \ {0}
      /\ i = INO_ROOTDIR => w.len = 1
      /\ res_off + w.len <= BLOCK /\ blkoff \in Nat
  BY <1>1, <1>2, RequestType DEF RequestsOK
<1>4. w' = w
  BY <1>1 DEF w
<1>5. /\ i # INO_ROOTDIR => w.cell = Piece(i)
      /\ i = INO_ROOTDIR => w.offset = inode_tbl[INO_ROOTDIR].size
      /\ d_inode[INO_ROOTDIR].size = inode_tbl[INO_ROOTDIR].size
      /\ pc = "data" => /\ inode_tbl[i].size <= w.offset /\ d_inode[i].size <= w.offset
                        /\ res_off = 0
  BY <1>2 DEF UnderWay, EntrySound, RunSound
\* Cells before the end of a file are in older blocks than a new one.
<1>6. ASSUME NEW k \in Nat, k < w.offset, pc = "data"
      PROVE  k \div BLOCK # blkoff
  <2>1. w.offset % BLOCK = 0
    BY <1>5, <1>6 DEF res_off
  <2>2. w.offset \in Nat /\ BLOCK \in Nat \ {0}
    BY <1>2, <1>3
  <2> QED BY ONLY <1>6, <2>1, <2>2, BeforeBlock DEF blkoff
<1>7. ASSUME NEW j \in imap \ {INO_ROOTDIR}, NEW k \in Nat,
             k \div BLOCK \in 0 .. inode_tbl[j].nlink - 1,
             Content(inode_tbl, d_data, j, k) = Piece(j),
             j = i /\ pc = "data" => k < w.offset
      PROVE  Content(inode_tbl, d_data', j, k) = Piece(j)
  BY <1>5, <1>6, <1>7, DataWritten
<1>8. HoldsOwn(imap, inode_tbl, d_data')
  <2>1. SUFFICES ASSUME NEW j \in imap \ {INO_ROOTDIR}, NEW k \in 0 .. inode_tbl[j].size - 1
                 PROVE  Content(inode_tbl, d_data', j, k) = Piece(j)
    BY DEF HoldsOwn
  <2>2. k \in Nat /\ k \div BLOCK \in 0 .. inode_tbl[j].nlink - 1
    BY <1>1, <1>2, SizesFit, CellPlace
  <2>3. Content(inode_tbl, d_data, j, k) = Piece(j)
    BY <1>2 DEF RunSound, HoldsOwn
  <2>4. j = i /\ pc = "data" => k < w.offset
    <3>1. inode_tbl[j].size \in Nat
      BY <1>2, TableType
    <3>2. QED BY <3>1, <1>3, <1>5, <2>2
  <2>5. QED BY <1>7, <2>2, <2>3, <2>4
<1>9. HoldsOwn(imap, d_inode, d_data')
  <2>1. SUFFICES ASSUME NEW j \in imap \ {INO_ROOTDIR}, NEW k \in 0 .. d_inode[j].size - 1
                 PROVE  Content(d_inode, d_data', j, k) = Piece(j)
    BY DEF HoldsOwn
  <2>2. /\ k \in Nat /\ k \div BLOCK \in 0 .. inode_tbl[j].nlink - 1
        /\ Content(d_inode, d_data, j, k) = Content(inode_tbl, d_data, j, k)
        /\ Content(d_inode, d_data', j, k) = Content(inode_tbl, d_data', j, k)
    BY <1>1, SameContent
  <2>3. Content(inode_tbl, d_data, j, k) = Piece(j)
    BY <1>2, <2>2 DEF RunSound, HoldsOwn
  <2>4. j = i /\ pc = "data" => k < w.offset
    <3>1. d_inode[j].size \in Nat
      BY <1>2, TableType
    <3>2. QED BY <3>1, <1>3, <1>5, <2>2
  <2>5. QED BY <1>7, <2>2, <2>3, <2>4
<1>10. \A k \in 0 .. d_inode[INO_ROOTDIR].size - 1 :
         Content(d_inode, d_data', INO_ROOTDIR, k) = Content(d_inode, d_data, INO_ROOTDIR, k)
  <2>1. SUFFICES ASSUME NEW k \in 0 .. d_inode[INO_ROOTDIR].size - 1
                 PROVE  Content(d_inode, d_data', INO_ROOTDIR, k)
                          = Content(d_inode, d_data, INO_ROOTDIR, k)
    OBVIOUS
  <2>2. /\ k \in Nat /\ k \div BLOCK \in 0 .. inode_tbl[INO_ROOTDIR].nlink - 1
        /\ Content(d_inode, d_data, INO_ROOTDIR, k) = Content(inode_tbl, d_data, INO_ROOTDIR, k)
        /\ Content(d_inode, d_data', INO_ROOTDIR, k) = Content(inode_tbl, d_data', INO_ROOTDIR, k)
    BY <1>1, <1>2, SameContent
  <2>3. i = INO_ROOTDIR => k < w.offset
    <3>1. d_inode[INO_ROOTDIR].size \in Nat
      BY <1>2, RootIsInode, TableType
    <3>2. QED BY <3>1, <1>3, <1>5, <2>2
  <2>4. i = INO_ROOTDIR => ~ (w.offset <= k)
    BY <1>3, <2>2, <2>3
  <2>5. Content(inode_tbl, d_data', INO_ROOTDIR, k) = Content(inode_tbl, d_data, INO_ROOTDIR, k)
    BY <1>2, <1>6, <2>2, <2>3, <2>4, DataWritten
  <2>6. QED BY <2>2, <2>5
<1>11. DiskEntries' = DiskEntries
  <2>1. DiskEntries' = {Content(d_inode, d_data', INO_ROOTDIR, k) :
                          k \in 0 .. d_inode[INO_ROOTDIR].size - 1}
    BY <1>1 DEF DiskEntries, Entries, Content
  <2>2. QED BY <1>10, <2>1, EntriesAre
<1>12. DiskSound'
  BY <1>1, <1>2, <1>9, <1>11 DEF DiskSound, HoldsOwn, Content
<1>13. EntrySound'
  BY <1>1, <1>2, <1>4, <1>11 DEF UnderWay, EntrySound
<1>14. \A k \in w.offset .. w.offset + w.len - 1 :
         Content(inode_tbl, d_data', i, k) = w.cell
  <2>1. SUFFICES ASSUME NEW k \in w.offset .. w.offset + w.len - 1
                 PROVE  Content(inode_tbl, d_data', i, k) = w.cell
    OBVIOUS
  <2>2. k \in Nat /\ w.offset <= k /\ k < w.offset + w.len
    BY <1>3, <2>1
  <2>3. k \div BLOCK = blkoff
    <3>1. (w.offset % BLOCK) + w.len <= BLOCK /\ w.len \in Nat
      BY <1>3 DEF res_off
    <3>2. k \div BLOCK = w.offset \div BLOCK
      <4>1. w.offset \in Nat /\ BLOCK \in Nat \ {0}
        BY <1>2, <1>3
      <4>2. QED BY ONLY <2>2, <3>1, <4>1, SameBlock
    <3>3. QED BY <3>2 DEF blkoff
  <2>4. blkoff \in 0 .. inode_tbl[i].nlink - 1
    <3>1. (pending # <<>> => (pc \in {"data", "inode"} => blkoff < inode_tbl[w.ino].nlink))'
      BY WriteDataInv DEF IInv, Running, RequestsOK
    <3>2. blkoff < inode_tbl[i].nlink
      BY <1>1, <3>1 DEF blkoff, w
    <3>3. inode_tbl[i].nlink \in Nat
      BY <1>2, <1>3, TableType
    <3> HIDE DEF i
    <3>4. QED BY <1>3, <3>2, <3>3
  <2>5. QED BY <1>3, <2>2, <2>3, <2>4, DataWritten
<1>15. UnderWay'
  BY <1>1, <1>4, <1>5, <1>13, <1>14 DEF UnderWay, Content
<1>16. RunSound'
  BY <1>1, <1>2, <1>8, <1>9, <1>15 DEF RunSound, HoldsOwn, Content
<1>17. QED BY <1>11, <1>12, <1>16 DEF SInv

\* The inode: what was written is now within its size.
LEMMA WriteInodeSound ==
  ASSUME IInv, SInv, WriteInode
  PROVE  SInv' /\ DiskEntries \subseteq DiskEntries'
<1> DEFINE i == w.ino
           end == w.offset + w.len
           size == inode_tbl[i].size
<1>1. /\ pc = "inode" /\ pending # <<>> /\ pending \in Seq(Request)
      /\ UNCHANGED <<imap, bmap, d_imap, d_bmap, d_data>>
      /\ pending' = Tail(pending)
      /\ pc' = IF Tail(pending) = <<>> THEN "idle" ELSE "write"
      /\ d_inode' = Synced(i, inode_tbl')
  BY DEF WriteInode, IInv
<1>2. /\ RequestsOK /\ inode_tbl \in Tables /\ d_inode \in Tables
      /\ imap \in SUBSET Inodes /\ INO_ROOTDIR \in imap /\ d_imap = imap
      /\ DiskSound /\ RunSound /\ UnderWay
  BY <1>1, RunningFacts DEF SInv, RunSound, Behind
<1>3. /\ i \in imap /\ i \in Inodes /\ w.offset \in Nat /\ w.len \in Nat \ {0}
      /\ w.offset <= size /\ size \in Nat /\ end \in Nat
      /\ i = INO_ROOTDIR => w.len = 1
  <2>1. /\ i \in imap /\ w.offset <= size /\ (i = INO_ROOTDIR => w.len = 1)
    BY <1>1, <1>2 DEF RequestsOK
  <2>2. /\ i \in Inodes /\ w.offset \in Nat /\ w.len \in Nat \ {0}
    BY <1>1, RequestType
  <2>3. size \in Nat
    BY <1>2, <2>2, TableType
  <2>4. end \in Nat
    BY <2>2
  <2>5. QED BY <2>1, <2>2, <2>3, <2>4
<1>4. /\ inode_tbl'[i].size = Larger(size, end)
      /\ inode_tbl'[i].direct = inode_tbl[i].direct
      /\ \A j \in Inodes \ {i} : inode_tbl'[j] = inode_tbl[j]
  BY <1>2, <1>3 DEF WriteInode, Tables, InodeType
<1>5. \A j \in Inodes, k \in Nat :
        Content(inode_tbl', d_data, j, k) = Content(inode_tbl, d_data, j, k)
  BY <1>4 DEF Content
<1>6. /\ d_inode'[i] = inode_tbl'[i]
      /\ \A j \in imap : d_inode'[j] = inode_tbl'[j] \/ d_inode'[j] = d_inode[j]
  BY <1>1, <1>2, <1>3 DEF Synced
<1>7. \A k \in Nat : w.offset <= k /\ k < end => Content(inode_tbl, d_data, i, k) = w.cell
  BY <1>1, <1>2, <1>3 DEF UnderWay
<1>8. Larger(size, end) \in Nat
      /\ \A k \in 0 .. Larger(size, end) - 1 :
           k \in Nat /\ (k \in 0 .. size - 1 \/ (w.offset <= k /\ k < end))
  BY <1>3 DEF Larger
<1>9. HoldsOwn(imap, inode_tbl', d_data)
  <2>1. SUFFICES ASSUME NEW j \in imap \ {INO_ROOTDIR}, NEW k \in 0 .. inode_tbl'[j].size - 1
                 PROVE  Content(inode_tbl', d_data, j, k) = Piece(j)
    BY DEF HoldsOwn
  <2>2. HoldsOwn(imap, inode_tbl, d_data)
    BY <1>2 DEF RunSound
  <2>3. CASE j # i
    <3>1. inode_tbl'[j] = inode_tbl[j]
      BY <1>2, <1>4, <2>3
    <3>2. QED BY <2>1, <2>2, <3>1 DEF HoldsOwn, Content
  <2>4. CASE j = i
    <3>1. k \in Nat /\ (k \in 0 .. size - 1 \/ (w.offset <= k /\ k < end))
      BY <1>4, <1>8, <2>1, <2>4
    <3>2. Content(inode_tbl', d_data, j, k) = Content(inode_tbl, d_data, i, k)
      BY <1>3, <1>5, <2>4, <3>1
    <3>3. w.cell = Piece(i)
      BY <1>2, <2>1, <2>4 DEF UnderWay
    <3>4. k \in 0 .. size - 1 => Content(inode_tbl, d_data, i, k) = Piece(i)
      BY <2>1, <2>2, <2>4 DEF HoldsOwn
    <3>5. QED BY <1>7, <2>4, <3>1, <3>2, <3>3, <3>4
  <2>5. QED BY <2>3, <2>4
<1>10. HoldsOwn(imap, d_inode', d_data)
  BY <1>2, <1>6, <1>9 DEF RunSound, HoldsOwn, Content
<1>11. /\ DiskEntries \subseteq DiskEntries'
       /\ d_inode'[INO_ROOTDIR].size = inode_tbl'[INO_ROOTDIR].size
       /\ DiskEntries' \subseteq DiskEntries \cup {w.cell}
       /\ i # INO_ROOTDIR => DiskEntries' = DiskEntries
       /\ i = INO_ROOTDIR => inode_tbl'[INO_ROOTDIR].size = w.offset + 1
  <2> DEFINE r == INO_ROOTDIR
  <2>1. d_inode[r].size = inode_tbl[r].size /\ r \in Inodes /\ d_inode[r].size \in Nat
    BY <1>2, RootIsInode, TableType DEF RunSound
  <2>2. DiskEntries' = {Content(d_inode', d_data, r, k) : k \in 0 .. d_inode'[r].size - 1}
    BY <1>1 DEF DiskEntries, Entries, Content
  <2>3. \A k \in 0 .. d_inode[r].size - 1 :
          k \in Nat /\ Content(d_inode, d_data, r, k) = Content(inode_tbl, d_data, r, k)
    BY <1>1, <1>2, SameContent
  <2>4. CASE i # r
    <3>1. inode_tbl'[r] = inode_tbl[r]
      BY <1>4, <2>1, <2>4
    <3>2. d_inode'[r] = inode_tbl[r] \/ d_inode'[r] = d_inode[r]
      BY <1>2, <1>6, <3>1
    <3>3. d_inode'[r].size = d_inode[r].size
      BY <2>1, <3>2
    <3>4. \A k \in 0 .. d_inode[r].size - 1 :
            Content(d_inode', d_data, r, k) = Content(d_inode, d_data, r, k)
      BY <2>3, <3>2 DEF Content
    <3>5. DiskEntries' = DiskEntries
      BY <2>2, <3>3, <3>4, EntriesAre
    <3>6. QED BY <2>1, <2>4, <3>1, <3>3, <3>5
  <2>5. CASE i = r
    <3>1. w.offset = size /\ end = size + 1 /\ size = d_inode[r].size
      BY <1>2, <1>3, <2>1, <2>5 DEF UnderWay, EntrySound
    <3>2. Larger(size, end) = size + 1
      BY <1>3, <3>1 DEF Larger
    <3>3. d_inode'[r] = inode_tbl'[r] /\ d_inode'[r].size = size + 1
      BY <1>4, <1>6, <2>5, <3>2
    <3>4. \A k \in Nat : Content(d_inode', d_data, r, k) = Content(inode_tbl, d_data, r, k)
      BY <1>5, <2>1, <3>3 DEF Content
    <3>5. Content(inode_tbl, d_data, r, size) = w.cell
      BY <1>3, <1>7, <2>5, <3>1
    <3>6. 0 .. d_inode'[r].size - 1 = (0 .. d_inode[r].size - 1) \cup {size}
      BY <1>3, <3>1, <3>3
    <3>7. DiskEntries' = DiskEntries \cup {w.cell}
      <4> DEFINE c(k) == Content(d_inode', d_data, r, k)
                 old(k) == Content(d_inode, d_data, r, k)
      <4>1. DiskEntries' = {c(k) : k \in (0 .. d_inode[r].size - 1) \cup {size}}
        BY <2>2, <3>6
      <4>2. DiskEntries = {old(k) : k \in 0 .. d_inode[r].size - 1}
        BY EntriesAre
      <4>3. \A k \in 0 .. d_inode[r].size - 1 : c(k) = old(k)
        BY <2>3, <3>4
      <4>4. c(size) = w.cell
        BY <1>3, <3>4, <3>5
      <4> HIDE DEF c, old
      <4>5. QED BY <4>1, <4>2, <4>3, <4>4
    <3>8. QED BY <2>5, <3>1, <3>3, <3>7
  <2>6. QED BY <2>4, <2>5
<1>12. NamesSound(DiskEntries')
  <2>1. NamesSound(DiskEntries)
    BY <1>2 DEF DiskSound
  <2>2. CASE i # INO_ROOTDIR
    BY <1>11, <2>1, <2>2
  <2>3. CASE i = INO_ROOTDIR
    <3> DEFINE cell == w.cell
               entries == DiskEntries'
    <3>1. /\ cell.name # ""
          /\ cell.name \in Names =>
               \A e \in DiskEntries :
                 e.name \in Names => e.name # cell.name /\ e.ino # cell.ino
      BY <1>2, <2>3 DEF UnderWay, EntrySound
    <3>2. entries \subseteq DiskEntries \cup {cell}
      BY <1>11
    <3> HIDE DEF cell, entries
    <3>3. NamesSound(entries)
      BY <2>1, <3>1, <3>2 DEF NamesSound
    <3>4. QED BY <3>3 DEF entries
  <2>4. QED BY <2>2, <2>3
<1>13. DiskSound'
  <2>1. HoldsOwn(d_imap, d_inode, d_data)'
    BY <1>1, <1>2, <1>10 DEF HoldsOwn, Content
  <2>2. NamesSound(DiskEntries)'
    BY <1>12 DEF NamesSound
  <2>3. QED BY <1>1, <1>2, <2>1, <2>2 DEF DiskSound
<1>14. pending' # <<>> => UnderWay'
  <2>1. SUFFICES ASSUME pending' # <<>> PROVE UnderWay'
    OBVIOUS
  <2>2. Len(pending) = 2 /\ Head(Tail(pending)) = pending[2]
    <3>1. Len(pending) \in Nat \ {0} /\ Len(pending) <= 2
      BY <1>1, RequestType, RunningFacts DEF TypeOK
    <3>2. Len(pending) # 1
      <4>1. SUFFICES ASSUME Len(pending) = 1 PROVE FALSE
        OBVIOUS
      <4> DEFINE rest == Tail(pending)
      <4>2. rest \in Seq(Request) /\ Len(rest) = 0 /\ rest # <<>>
        BY <1>1, <2>1, <4>1
      <4> HIDE DEF rest
      <4>3. QED BY <4>2, EmptySeq
    <3> DEFINE n == Len(pending)
    <3>3. n \in Nat \ {0} /\ n <= 2 /\ n # 1
      BY <3>1, <3>2
    <3> HIDE DEF n
    <3>4. n = 2
      BY <3>3
    <3>5. QED BY <1>1, <3>4 DEF n
  <2>3. /\ i = INO_ROOTDIR
        /\ pending[2] = NewEntry(INO_ROOTDIR, w.offset + 1, Entry(".", INO_ROOTDIR))
    BY <1>2, <2>2 DEF RequestsOK
  <2>4. w' = NewEntry(INO_ROOTDIR, w.offset + 1, Entry(".", INO_ROOTDIR)) /\ pc' = "write"
    BY <1>1, <2>1, <2>2, <2>3 DEF w
  <2>5. w'.ino = INO_ROOTDIR /\ w'.offset = w.offset + 1 /\ w'.cell.name = "."
    BY <2>4 DEF NewEntry, Entry
  <2>6. "." # "" /\ "." \notin Names
    BY NamesAssumption
  <2>7. w'.offset = inode_tbl'[INO_ROOTDIR].size
    BY <1>11, <2>3, <2>5
  <2>8. EntrySound'
    BY <2>5, <2>6, <2>7 DEF EntrySound
  <2>9. QED BY <2>4, <2>5, <2>8 DEF UnderWay
<1>15. RunSound'
  <2>1. HoldsOwn(imap, inode_tbl, d_data)' /\ HoldsOwn(imap, d_inode, d_data)'
    BY <1>1, <1>9, <1>10 DEF HoldsOwn, Content
  <2>2. QED BY <1>11, <1>14, <2>1 DEF RunSound
<1>16. QED BY <1>11, <1>13, <1>15 DEF SInv

-----------------------------------------------------------------------------
(* The theorems.                                                           *)

\* Every step keeps SInv and loses no entry.
LEMMA NextSound ==
  ASSUME Within, IInv, SInv, [Next]_vars
  PROVE  SInv' /\ DiskEntries \subseteq DiskEntries'
<1>1. CASE UNCHANGED vars
  <2>1. UNCHANGED <<pc, pending, imap, bmap, inode_tbl, d_imap, d_bmap, d_inode, d_data>>
    BY <1>1 DEF vars, memory, disk
  <2>2. w' = w /\ res_off' = res_off /\ DiskEntries' = DiskEntries
    BY <2>1 DEF w, res_off, DiskEntries, Entries
  <2>3. DiskSound' = DiskSound
    BY <2>1, <2>2 DEF DiskSound, HoldsOwn, Content
  <2>4. RunSound' = RunSound
    BY <2>1, <2>2 DEF RunSound, UnderWay, EntrySound, HoldsOwn, Content
  <2>5. QED BY <2>1, <2>2, <2>3, <2>4 DEF SInv
<1>2. CASE Mount
  <2>1. CASE NeedsRoot
    <3>1. d_inode[INO_ROOTDIR].size = 0
      BY <2>1 DEF SInv, DiskSound, NeedsRoot
    <3>2. DiskEntries = {}
      BY <3>1, EntriesAre
    <3>3. QED BY <1>2, <2>1, <3>2, MountNewSound
  <2>2. CASE ~NeedsRoot
    <3>1. DiskEntries' = DiskEntries
      BY <1>2, <2>2 DEF Mount, DiskEntries, Entries
    <3>2. QED BY <1>2, <2>2, <3>1, MountOldSound
  <2>3. QED BY <2>1, <2>2
<1>3. CASE SyncBitmap
  <2>1. DiskEntries' = DiskEntries
    BY <1>3 DEF SyncBitmap, DiskEntries, Entries
  <2>2. QED BY <1>3, <2>1, SyncBitmapSound
<1>4. CASE inode_write
  <2>1. CASE WriteAlloc
    <3>1. DiskEntries' = DiskEntries
      BY <2>1 DEF WriteAlloc, DiskEntries, Entries
    <3>2. QED BY <2>1, <3>1, WriteAllocSound
  <2>2. CASE WriteData
    BY <2>2, WriteDataSound
  <2>3. CASE WriteInode
    BY <2>3, WriteInodeSound
  <2>4. QED BY <1>4, <2>1, <2>2, <2>3 DEF inode_write
<1>5. CASE PowerOff
  <2>1. DiskEntries' = DiskEntries
    BY <1>5 DEF PowerOff, disk, DiskEntries, Entries
  <2>2. QED BY <1>5, <2>1, PowerOffSound
<1>6. ASSUME NEW name \in Names, OpenNew(name)
      PROVE  SInv' /\ DiskEntries \subseteq DiskEntries'
  BY <1>6, OpenNewSound
<1>7. ASSUME NEW file \in Files, OpenTrunc(file)
      PROVE  SInv' /\ DiskEntries \subseteq DiskEntries'
  <2>1. DiskEntries' = DiskEntries
    BY <1>7 DEF OpenTrunc, disk, DiskEntries, Entries
  <2>2. QED BY <1>7, <2>1, OpenTruncSound
<1>8. ASSUME NEW file \in Files, NEW offset, NEW len, Write(file, offset, len)
      PROVE  SInv' /\ DiskEntries \subseteq DiskEntries'
  <2>1. DiskEntries' = DiskEntries
    BY <1>8 DEF Write, disk, DiskEntries, Entries
  <2>2. QED BY <1>8, <2>1, WriteSound
<1>9. QED BY <1>1, <1>2, <1>3, <1>4, <1>5, <1>6, <1>7, <1>8 DEF Next

\* The files and the directory are sound, on the disk and in memory, whenever
\* no write crosses blocks: what open(), write() and a mount rely on.
THEOREM FilesInvariance == Within => (Spec => [](IInv /\ SInv))
<1> SUFFICES ASSUME Within PROVE Spec => [](IInv /\ SInv)
  OBVIOUS
<1>1. Init => IInv /\ SInv
  BY InitInv, InitSound
<1>2. (IInv /\ SInv) /\ [Next]_vars => (IInv /\ SInv)'
  BY NextInv, NextSound
<1>3. QED BY <1>1, <1>2, PTL DEF Spec

\* Wherever power fails, each name in the root directory is there once, with
\* an inode in use that no other name has (open(), inode_create()).
THEOREM DirectoryValid == Within => (Spec => []EntriesValid)
<1> SUFFICES ASSUME Within PROVE Spec => []EntriesValid
  OBVIOUS
<1>1. IInv /\ SInv => EntriesValid
  <2> SUFFICES ASSUME IInv, SInv, INO_ROOTDIR \in d_imap,
                      NEW e \in DiskEntries, e.name \notin {".", ".."}
               PROVE  /\ e.name \in Names /\ e.ino \in d_imap \ {INO_ROOTDIR}
                      /\ \A f \in DiskEntries :
                           f.name \notin {".", ".."} /\ (e.name = f.name \/ e.ino = f.ino) => e = f
    BY DEF EntriesValid
  <2>1. DiskOK /\ TypeOK /\ NamesSound(DiskEntries)
    BY DEF IInv, SInv, DiskSound
  <2>2. \A f \in DiskEntries : f.name \notin {".", ".."} => f.name \in Names
    BY <2>1, EntryInode DEF NamesSound, CellType
  <2>3. e.ino \in d_imap \ {INO_ROOTDIR}
    BY <2>1, <2>2, EntryInode
  <2>4. QED BY <2>1, <2>2, <2>3 DEF NamesSound
<1>2. QED BY <1>1, FilesInvariance, PTL

\* Wherever power fails, a file shows only what was written to it, although
\* a truncated file keeps its blocks and the disk its old size (inode_write(),
\* the O_TRUNC of open()).
THEOREM FilesHoldTheirOwn == Within => (Spec => []FilesHoldOwnData)
<1> SUFFICES ASSUME Within PROVE Spec => []FilesHoldOwnData
  OBVIOUS
<1>1. IInv /\ SInv => FilesHoldOwnData
  <2> SUFFICES ASSUME IInv, SInv, INO_ROOTDIR \in d_imap,
                      NEW e \in DiskEntries, e.name \in Names,
                      NEW k \in 0 .. d_inode[e.ino].size - 1
               PROVE  Content(d_inode, d_data, e.ino, k) = Piece(e.ino)
    BY DEF FilesHoldOwnData, Content
  <2>1. DiskOK /\ TypeOK /\ HoldsOwn(d_imap, d_inode, d_data)
    BY DEF IInv, SInv, DiskSound
  <2>2. e.ino \in d_imap \ {INO_ROOTDIR}
    BY <2>1, EntryInode
  <2>3. QED BY <2>1, <2>2 DEF HoldsOwn
<1>2. QED BY <1>1, FilesInvariance, PTL

\* No step loses a directory entry: not a write to the directory, not the
\* block-wise sync_inode() of another inode, not a mount.
THEOREM EntriesStay == Within => (Spec => FilesStay)
<1> SUFFICES ASSUME Within PROVE Spec => FilesStay
  OBVIOUS
<1>1. (IInv /\ SInv) /\ [Next]_vars => [DiskEntries \subseteq DiskEntries']_vars
  BY NextSound
<1>2. QED BY <1>1, FilesInvariance, PTL DEF Spec, FilesStay
=============================================================================
