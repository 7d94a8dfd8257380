SPECIFICATION Spec
CHECK_DEADLOCK FALSE
CONSTANTS
  Capacity = 1
  MaxLines = 3
INVARIANTS AllSeen
PROPERTIES CallReturns
