SPECIFICATION Spec
CONSTANTS
  NUM_INODE = 5
  INODE_PER_BLOCK = 4
  NUM_DIRECT = 2
  BLOCK = 2
  DATA_BLOCKS = 5
  Names <- TwoNames
  MaxLen = 2
  MayCross = FALSE
INVARIANTS
  TypeOK
  DiskBlocksOwned
  SizeWithinBlocks
  EntriesValid
  FilesHoldOwnData
  WrittenThrough
PROPERTIES
  FilesStay
