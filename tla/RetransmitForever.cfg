CONSTANTS
  p1 = p1
  p2 = p2
  Proc <- TwoProcs
  Value = {1}
  Rounds = 2
  Proposal <- SameValue
  MaxCrashes = 0
  MaxAcks = 0
  MaxStrays = 0
SPECIFICATION LinkSpec
ACTION_CONSTRAINTS FewAcks FewStrays
INVARIANTS
  RetransmitForever
CHECK_DEADLOCK FALSE
