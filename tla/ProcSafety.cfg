SPECIFICATION Spec
CONSTANTS
  PROC_NUM_MAX = 6
  TIMER_MAX = 2
  MaxPid = 6
  Commands <- AllCommands
  Windows <- HarmlessTicks
INVARIANTS
  TypeOK
  ListsMatchState
  CurrentIsRunning
  StacksIntact
  IntrOnInProcessCode
  UnreachableCode
  ShellWaitsForCommand
  
PROPERTIES
  FifoOrder
CHECK_DEADLOCK FALSE
