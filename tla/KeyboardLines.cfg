SPECIFICATION Spec
CONSTANTS
  BUFSIZ = 4
  MaxLine = 2
INVARIANTS
  LineIsTyped
PROPERTIES
  KeysKept
  LinesEnd
CHECK_DEADLOCK FALSE
