SPECIFICATION Spec
CONSTANTS
  SLOT_NUM = 2
  CAPACITY = 6
  PAGE_SIZE = 2
  VKERNEL_HEAP_START = 1
  MaxPages = 7
  MaxCount = 2
  Returns = {"exact", "joint", "split"}
INVARIANTS
  PagesPartitioned
  RecordedOnce
CHECK_DEADLOCK FALSE
