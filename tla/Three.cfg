CONSTANTS
  p1 = p1
  p2 = p2
  p3 = p3
  Proc <- ThreeProcs
  Value <- ThreeProcs
  Rounds = 1
  Proposal <- OwnName
  MaxCrashes = 1
SPECIFICATION CrashSpec
INVARIANTS
  Consistency
  DecidedWasAccepted
  ProposalsGrow
PROPERTIES
  MajorityDecides
CHECK_DEADLOCK FALSE
