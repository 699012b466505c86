SPECIFICATION FairSpec
CONSTANTS
  WORKERS = 2
  Priority0 <- BothFifty
  End <- TwoEnds
  SleepAt <- TwoSleeps
  SLEEP = 60
  TIMER_MAX = 60
  ADJUST = 30
  WEIGHT = 10
  RQ_NQS = 25
  RQ_PPQ = 4
  LOWEST = 99
  Windows <- EndedTicks
INVARIANTS
  TypeOK
  QueuedByPriority
  SleepersListed
PROPERTIES
  WokenWhenDue
  BestFirst
  WorkersEnd
