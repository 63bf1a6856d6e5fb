CONSTANTS
  p1 = p1
  p2 = p2
  Proc <- TwoProcs
  Value <- TwoProcs
  Rounds = 2
  Proposal <- OwnNameFirst
  MaxCrashes = 1
  MaxAcks = 1
  MaxStrays = 1
SPECIFICATION LinkFairSpec
CONSTRAINTS CrashAlone LastRoundOpen
ACTION_CONSTRAINTS FewAcks FewStrays AnsweredOnce
INVARIANTS
  ResentUntilReached
PROPERTIES
  MajorityDecides
CHECK_DEADLOCK FALSE
