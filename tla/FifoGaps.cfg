CONSTANTS
  p1 = p1
  p2 = p2
  Proc <- TwoProcs
  Count <- OneSource
SPECIFICATION Spec
INVARIANTS
  Contiguous
CHECK_DEADLOCK FALSE
