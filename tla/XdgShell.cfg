SPECIFICATION FairSpec
CONSTANTS
  Surfaces = {s1, s2}
  Sizes = {1, 2}
  MaxValue = 15
  Start = 14
  MaxTaken = 3
INVARIANTS TypeOK ConfiguresOrdered AcksAccepted SizeKept
PROPERTIES FirstMap
