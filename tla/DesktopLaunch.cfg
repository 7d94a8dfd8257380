SPECIFICATION Spec
CHECK_DEADLOCK FALSE
CONSTANTS
  MaxLaunches = 2
PROPERTIES SessionStarts
