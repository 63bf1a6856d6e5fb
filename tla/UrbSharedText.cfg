CONSTANTS
  p1 = p1
  p2 = p2
  p3 = p3
  t1 = t1
  Proc <- ThreeProcs
  Text = {t1}
  Broadcasts <- SameText
  MaxCrashes = 0
  MaxAcks = 0
SPECIFICATION Spec
CHECK_DEADLOCK FALSE
INVARIANTS
  DeliveredIsHeld
