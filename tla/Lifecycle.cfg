SPECIFICATION FairSpec
CHECK_DEADLOCK FALSE
CONSTANTS
  MaxWindows = 3
  Widths = {2, 4}
  Scales = {1, 2}
  MaxClients = 2
INVARIANTS RedrawChain NewWindowDrawn FirstWindowPointer
PROPERTIES ClientsAccepted
