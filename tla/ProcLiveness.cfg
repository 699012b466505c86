SPECIFICATION FairSpec
CONSTANTS
  PROC_NUM_MAX = 6
  TIMER_MAX = 1
  MaxPid = 6
  Commands <- AllCommands
  Windows <- NoWindow
INVARIANTS
  ForkFindsSlot
PROPERTIES
  FifoService
  CommandCompletes
  ZombiesReaped
CHECK_DEADLOCK FALSE
