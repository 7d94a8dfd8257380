SPECIFICATION Spec
CHECK_DEADLOCK FALSE
CONSTANTS
  MaxLaunches = 1
PROPERTIES LeftoverIgnored
