SPECIFICATION Spec
CONSTANTS
  PROC_NUM_MAX = 6
  TIMER_MAX = 2
  MaxPid = 5
  Commands <- AllCommands
  Windows <- SwitchTicks
INVARIANTS
  StacksIntact
CHECK_DEADLOCK FALSE
