-------------------------------- MODULE SsuFs --------------------------------
(***************************************************************************)
(* File system of the SSUOS_P3 kernel (filesys/fs.c, filesys/inode.c,      *)
(* filesys/file.c) and what a power failure leaves of it.                  *)
(*                                                                         *)
(* The kernel keeps the inode table and the two bitmaps in memory and      *)
(* writes them through: an operation is a sequence of block writes, in a   *)
(* fixed order, each of which is a step here.  Power may fail between any  *)
(* two of them; the next mount starts from the disk alone.  System calls   *)
(* run with interrupts off, so operations never interleave.                *)
(*                                                                         *)
(* Offsets and sizes are counted in cells, BLOCK to a block.  A cell holds *)
(* a directory entry, or a piece of a file, of which only the file it      *)
(* belongs to is recorded.                                                 *)
(***************************************************************************)
EXTENDS Integers, Sequences

CONSTANTS
  NUM_INODE,        \* size of the inode table
  INODE_PER_BLOCK,  \* inodes in a disk block
  NUM_DIRECT,       \* data blocks an inode can name
  BLOCK,            \* cells in a data block
  DATA_BLOCKS,      \* number of data blocks on the disk
  Names,            \* file names
  MaxLen,           \* bound: cells of one write
  MayCross          \* whether a write may go over the end of a block

INO_ROOTDIR == 2

ASSUME SizesAssumption ==
  /\ {INODE_PER_BLOCK, NUM_DIRECT, BLOCK, DATA_BLOCKS, MaxLen} \subseteq Nat \ {0}
  /\ NUM_INODE \in Nat /\ NUM_INODE > INO_ROOTDIR
ASSUME NamesAssumption == {"", ".", ".."} \cap Names = {}
ASSUME CrossAssumption == MayCross \in BOOLEAN
\* The root directory can hold an entry for every inode: 255 against 640.
ASSUME RootAssumption == NUM_INODE - 1 <= NUM_DIRECT * BLOCK

Inodes == INO_ROOTDIR .. NUM_INODE - 1
DataBlocks == 1 .. DATA_BLOCKS
Blocks == {0} \cup DataBlocks   \* 0 is the boot block
Cells == 0 .. BLOCK - 1

VARIABLES
  pc,         \* next step of the operation under way; "idle"; "off"
  pending,    \* calls of inode_write() under way and to come
  imap,       \* inode bitmap: the inodes in use
  bmap,       \* block bitmap: the data blocks in use
  inode_tbl,  \* inode table
  d_imap,     \* the same on the disk
  d_bmap,
  d_inode,
  d_data      \* data blocks on the disk

memory == <<imap, bmap, inode_tbl>>
disk == <<d_imap, d_bmap, d_inode, d_data>>
vars == <<pc, pending, memory, disk>>

NoInode == [size |-> 0, nlink |-> 0, direct |-> [k \in 0 .. NUM_DIRECT - 1 |-> 0]]
BlankTable == [i \in Inodes |-> NoInode]
NoCell == [ino |-> 0, name |-> ""]
Entry(name, i) == [ino |-> i, name |-> name]
Piece(i) == [ino |-> i, name |-> ""]

\* A disk that has never been mounted, or one whose bitmaps are empty.
Init ==
  /\ pc = "off"
  /\ pending = <<>>
  /\ imap = {} /\ bmap = {} /\ inode_tbl = BlankTable
  /\ d_imap = {} /\ d_bmap = {} /\ d_inode = BlankTable
  /\ d_data = [b \in Blocks |-> [c \in Cells |-> NoCell]]

IsFirst(x, S) == x \in S /\ \A y \in S : x <= y

-----------------------------------------------------------------------------
(* inode_create().                                                         *)

FreeInodes == Inodes \ imap

\* Variant: always the first block.
SyncedFirst(i, table) ==
  [j \in Inodes |-> IF j \div INODE_PER_BLOCK = 0 THEN table[j] ELSE d_inode[j]]

\* sync_inode(i) writes the whole block i lies in.
Synced(i, table) ==
  [j \in Inodes |->
     IF j \div INODE_PER_BLOCK = i \div INODE_PER_BLOCK THEN table[j] ELSE d_inode[j]]

\* The block numbers of a reused inode stay; nlink says that none counts.
inode_create(i, table, inUse) ==
  /\ inode_tbl' = [table EXCEPT ![i].size = 0, ![i].nlink = 0]
  /\ imap' = inUse \cup {i}
  /\ d_inode' = Synced(i, inode_tbl')
  /\ pc' = "bitmap"

\* Variant: the inode bitmap waits for the next block to be allocated.
SyncedMapNot == d_imap
SyncedMap == imap

\* The second block write of inode_create().
SyncBitmap ==
  /\ pc = "bitmap"
  /\ d_imap' = SyncedMap
  /\ d_bmap' = bmap
  /\ pc' = "write"
  /\ UNCHANGED <<pending, memory, d_inode, d_data>>

-----------------------------------------------------------------------------
(* inode_write(): w.len cells with content w.cell from w.offset on.        *)

NewEntry(i, offset, cell) ==
  [ino |-> i, offset |-> offset, len |-> 1, cell |-> cell]

w == Head(pending)
blkoff == w.offset \div BLOCK
res_off == w.offset % BLOCK

\* Variant: every write to the start of a block takes a new one.
NeedsBlockAlways(i, offset) == offset % BLOCK = 0
\* Variant: one too late.
NeedsBlockLate(i, offset) ==
  offset % BLOCK = 0 /\ offset \div BLOCK > inode_tbl[i].nlink

\* A write to offset of inode i must allocate a block first.
NeedsBlock(i, offset) ==
  offset % BLOCK = 0 /\ offset \div BLOCK >= inode_tbl[i].nlink

FreeBlocks == DataBlocks \ bmap

\* Variant: the bitmap is not synced.
BitmapAfterAllocNot == d_bmap
BitmapAfterAlloc == bmap'

\* balloc(), and the bitmap goes to the disk.
WriteAlloc ==
  /\ pc = "write" /\ NeedsBlock(w.ino, w.offset)
  /\ \E b \in DataBlocks :
       /\ IsFirst(b, FreeBlocks)
       /\ bmap' = bmap \cup {b}
       /\ inode_tbl' = [inode_tbl EXCEPT ![w.ino].direct[blkoff] = b,
                                         ![w.ino].nlink = @ + 1]
  /\ d_imap' = imap
  /\ d_bmap' = BitmapAfterAlloc
  /\ pc' = "data"
  /\ UNCHANGED <<pending, imap, d_inode, d_data>>

\* Variant: the offset in the block is forgotten.
OverlaidFront(block) == [c \in Cells |-> IF c < w.len THEN w.cell ELSE block[c]]

\* The rest of a write that goes over the end of the block is lost.
Overlaid(block) ==
  [c \in Cells |-> IF res_off <= c /\ c < res_off + w.len THEN w.cell ELSE block[c]]

\* The data block: an old one is read first, a new one was cleared.
WriteData ==
  /\ \/ pc = "data"
     \/ pc = "write" /\ ~NeedsBlock(w.ino, w.offset)
  /\ LET b == inode_tbl[w.ino].direct[blkoff]
         old == IF pc = "data" THEN [c \in Cells |-> NoCell] ELSE d_data[b]
     IN  d_data' = [d_data EXCEPT ![b] = Overlaid(old)]
  /\ pc' = "inode"
  /\ UNCHANGED <<pending, memory, d_imap, d_bmap, d_inode>>

Larger(m, n) == IF m < n THEN n ELSE m

\* The new size, and the inode goes to the disk.
WriteInode ==
  /\ pc = "inode"
  /\ inode_tbl' = [inode_tbl EXCEPT ![w.ino].size = Larger(@, w.offset + w.len)]
  /\ d_inode' = Synced(w.ino, inode_tbl')
  /\ pending' = Tail(pending)
  /\ pc' = IF Tail(pending) = <<>> THEN "idle" ELSE "write"
  /\ UNCHANGED <<imap, bmap, d_imap, d_bmap, d_data>>

inode_write == WriteAlloc \/ WriteData \/ WriteInode

-----------------------------------------------------------------------------
(* fs_mount() and init_inode_table(): a disk without a root directory is   *)
(* given one, by make_dir().                                               *)

\* Variant: at every start.
NeedsRootAlways == TRUE
NeedsRoot == INO_ROOTDIR \notin d_imap

Mount ==
  /\ pc = "off"
  /\ bmap' = d_bmap
  /\ \/ /\ ~NeedsRoot
        /\ imap' = d_imap
        /\ inode_tbl' = d_inode
        /\ pc' = "idle"
        /\ UNCHANGED <<pending, d_inode>>
     \/ /\ NeedsRoot
        /\ inode_create(INO_ROOTDIR, BlankTable, d_imap)
        /\ pending' = <<NewEntry(INO_ROOTDIR, 0, Entry("..", INO_ROOTDIR)),
                        NewEntry(INO_ROOTDIR, 1, Entry(".", INO_ROOTDIR))>>
  /\ UNCHANGED <<d_imap, d_bmap, d_data>>

-----------------------------------------------------------------------------
(* System calls of processes whose directory is the root.                  *)

\* The entries of the root directory of a table, read from the disk.
Entries(table) ==
  LET root == table[INO_ROOTDIR]
  IN  {d_data[root.direct[k \div BLOCK]][k % BLOCK] : k \in 0 .. root.size - 1}

\* Those a mount would find.
DiskEntries == Entries(d_inode)

\* Processes neither create files nor write when there is no inode or block
\* for it.
Room(i, offset) == NeedsBlock(i, offset) => FreeBlocks # {}

Files == {e \in Entries(inode_tbl) : e.name \in Names}

\* open() of a new name.
OpenNew(name) ==
  LET end == inode_tbl[INO_ROOTDIR].size
  IN  /\ pc = "idle"
      /\ \A e \in Files : e.name # name
      /\ Room(INO_ROOTDIR, end)
      /\ \E i \in Inodes :
           /\ IsFirst(i, FreeInodes)
           /\ inode_create(i, inode_tbl, imap)
           /\ pending' = <<NewEntry(INO_ROOTDIR, end, Entry(name, i))>>
      /\ UNCHANGED <<bmap, d_imap, d_bmap, d_data>>

\* open() of a file that exists, with O_TRUNC: nothing goes to the disk.
OpenTrunc(file) ==
  /\ pc = "idle"
  /\ inode_tbl[file.ino].size > 0
  /\ inode_tbl' = [inode_tbl EXCEPT ![file.ino].size = 0]
  /\ UNCHANGED <<pc, pending, imap, bmap, disk>>

\* write(): the position is 0, which every write resets it to, or the end of
\* the file, with O_APPEND.
Write(file, offset, len) ==
  /\ pc = "idle"
  /\ offset \in {0, inode_tbl[file.ino].size}
  /\ offset + len <= NUM_DIRECT * BLOCK
  /\ ~MayCross => (offset % BLOCK) + len <= BLOCK
  /\ Room(file.ino, offset)
  /\ pending' = <<[ino |-> file.ino, offset |-> offset, len |-> len,
                   cell |-> Piece(file.ino)]>>
  /\ pc' = "write"
  /\ UNCHANGED <<memory, disk>>

\* Power fails, or the machine is shut down.
PowerOff ==
  /\ pc # "off"
  /\ pc' = "off"
  /\ pending' = <<>>
  /\ imap' = {} /\ bmap' = {} /\ inode_tbl' = BlankTable
  /\ UNCHANGED disk

Next ==
  \/ Mount \/ SyncBitmap \/ inode_write \/ PowerOff
  \/ \E name \in Names : OpenNew(name)
  \/ \E file \in Files :
       \/ OpenTrunc(file)
       \/ \E offset \in 0 .. NUM_DIRECT * BLOCK, len \in 1 .. MaxLen : Write(file, offset, len)

Spec == Init /\ [][Next]_vars

-----------------------------------------------------------------------------
(* Properties.                                                             *)

InodeType == [size : 0 .. NUM_DIRECT * BLOCK, nlink : 0 .. NUM_DIRECT,
              direct : [0 .. NUM_DIRECT - 1 -> Blocks]]
CellType == [ino : {0} \cup Inodes, name : {"", ".", ".."} \cup Names]

\* Type invariant; in particular no inode uses more blocks than it can name.
TypeOK ==
  /\ pc \in {"off", "idle", "bitmap", "write", "data", "inode"}
  /\ Len(pending) <= 2
  /\ imap \subseteq Inodes /\ d_imap \subseteq Inodes
  /\ bmap \subseteq DataBlocks /\ d_bmap \subseteq DataBlocks
  /\ inode_tbl \in [Inodes -> InodeType] /\ d_inode \in [Inodes -> InodeType]
  /\ d_data \in [Blocks -> [Cells -> CellType]]

\* The data blocks in use by inode i.
Used(table, i) == {table[i].direct[k] : k \in 0 .. table[i].nlink - 1}

\* Wherever power fails, on the disk no block belongs to two inodes or twice
\* to one, and no block of an inode in use is free in the block bitmap: the
\* next mount cannot give it to another file.
DiskBlocksOwned ==
  /\ \A i \in d_imap :
       /\ Used(d_inode, i) \subseteq d_bmap
       /\ \A k, l \in 0 .. d_inode[i].nlink - 1 :
            d_inode[i].direct[k] = d_inode[i].direct[l] => k = l
  /\ \A i, j \in d_imap : i # j => Used(d_inode, i) \cap Used(d_inode, j) = {}

\* "Number of using direct block": a file's bytes lie in blocks it uses.
SizeWithinBlocks ==
  \A i \in d_imap : d_inode[i].size <= d_inode[i].nlink * BLOCK

\* Wherever power fails, the root directory lists names once, each with an
\* inode of its own that is in use.
EntriesValid ==
  INO_ROOTDIR \in d_imap =>
    LET entries == {e \in DiskEntries : e.name \notin {".", ".."}}
    IN  \A e \in entries :
          /\ e.name \in Names /\ e.ino \in d_imap \ {INO_ROOTDIR}
          /\ \A f \in entries : e.name = f.name \/ e.ino = f.ino => e = f

\* Wherever power fails, a file shows only what was written to it, never an
\* unwritten cell or a piece of another file.
FilesHoldOwnData ==
  INO_ROOTDIR \in d_imap =>
    \A e \in DiskEntries : e.name \in Names =>
      \A k \in 0 .. d_inode[e.ino].size - 1 :
        d_data[d_inode[e.ino].direct[k \div BLOCK]][k % BLOCK] = Piece(e.ino)

\* When a system call has returned, all it did is on the disk, but for the
\* truncation of files, which open() leaves to the next write.
WrittenThrough ==
  pc = "idle" =>
    /\ d_imap = imap /\ d_bmap = bmap
    /\ \A i \in imap :
         \/ d_inode[i] = inode_tbl[i]
         \/ inode_tbl[i] = [d_inode[i] EXCEPT !.size = 0]

\* A file that is on the disk stays there, under its name, over any number of
\* power failures.
FilesStay ==
  [][DiskEntries \subseteq DiskEntries']_vars
=============================================================================
