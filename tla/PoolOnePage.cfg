SPECIFICATION Spec
CONSTANTS
  h1 = h1
  h2 = h2
  h3 = h3
  h4 = h4
  Holders <- FourHolders
  KERNEL_PAGES = 3
  USER_PAGES = 3
  MaxCount = 1
  MayRunOut = TRUE
INVARIANTS
  BitmapsSurvive
