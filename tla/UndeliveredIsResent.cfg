CONSTANTS
  p1 = p1
  p2 = p2
  Proc <- TwoProcs
  Value = {1}
  Rounds = 2
  Proposal <- SameValue
  MaxCrashes = 0
  MaxAcks = 0
  MaxStrays = 1
SPECIFICATION LinkSpec
ACTION_CONSTRAINTS EarlyAcks FewStrays
INVARIANTS
  UndeliveredIsResent
CHECK_DEADLOCK FALSE
