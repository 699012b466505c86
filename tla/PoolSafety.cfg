SPECIFICATION Spec
CONSTANTS
  h1 = h1
  h2 = h2
  h3 = h3
  h4 = h4
  Holders <- FourHolders
  KERNEL_PAGES = 5
  USER_PAGES = 6
  MaxCount = 3
  MayRunOut = FALSE
SYMMETRY Interchangeable
INVARIANTS
  NoPageTwice
  BitsMatchHolders
PROPERTIES
  PoolsAllocate
