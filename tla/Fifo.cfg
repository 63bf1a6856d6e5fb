CONSTANTS
  p1 = p1
  p2 = p2
  Proc <- TwoProcs
  Count <- OneMore
SPECIFICATION Spec
INVARIANTS
  TypeOK
  NoCreation
  FifoOrder
  CarriesOwnPast
CHECK_DEADLOCK FALSE
