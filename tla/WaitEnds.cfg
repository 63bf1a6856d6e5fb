CONSTANTS
  p1 = p1
  p2 = p2
  p3 = p3
  Proc <- ThreeProcs
  Value <- ThreeProcs
  Rounds = 1
  Proposal <- SameName
  MaxCrashes = 0
SPECIFICATION PhasedSpec
PROPERTIES
  WaitEnds
CHECK_DEADLOCK FALSE
