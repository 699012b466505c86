SPECIFICATION Spec
CONSTANTS
  PROC_NUM_MAX = 6
  Commands = {"returns", "exits"}
  MaxCuts = 1
  Windows = {}
INVARIANTS
  ListsSound
PROPERTIES
  QueueKept
CHECK_DEADLOCK FALSE
