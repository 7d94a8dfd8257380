SPECIFICATION Spec
CONSTANTS
  Depth = 3
  b1 = b1
  b2 = b2
  bad = bad
  Buffers <- MCBuffers
  Unreadable <- MCUnreadable
  MaxRequests <- MCMaxRequests
SYMMETRY Symmetry
INVARIANTS TypeOK CallbacksConserved BuffersAccounted
PROPERTIES NoTearing AppliedTogether
