CONSTANTS
  p1 = p1
  p2 = p2
  p3 = p3
  Proc <- TwoProcs
  Value <- TwoProcs
  Rounds = 3
  Proposal <- OwnNameOnce
  MaxCrashes = 1
SPECIFICATION Spec
SYMMETRY Permuted
INVARIANTS
  TypeOK
  IInv
  OutputOrder
  Validity
  NoAnswerBeforeProposal
  RoundBarrier
  VerifierVerdict
PROPERTIES
  RefinesLatticeSpec
  AcceptedGrows
CHECK_DEADLOCK FALSE
