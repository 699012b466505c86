SPECIFICATION Spec
CONSTANTS
  a = a
  b = b
  c = c
  d = d
  junk = junk
  Keys <- FourKeys
  Values = {1, 2}
  Items <- FiveItems
  NoValue = 0
  JunkKey = junk
  F_HASH <- FirstHash
  S_HASH <- SecondHash
  ASSOC_NUM = 1
  InitLevelSize = 2
  MinLevelSize = 2
  MaxLevelSize = 3
  FreshTokens = {0, 2}
  WORD = 64
INVARIANTS
  
  QueriesFind

  
CHECK_DEADLOCK FALSE
