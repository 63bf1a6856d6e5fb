CONSTANTS
  p1 = p1
  p2 = p2
  p3 = p3
  t1 = t1
  Proc <- ThreeProcs
  Text = {t1}
  Broadcasts <- OneSource
  MaxCrashes = 1
  MaxAcks = 1
SPECIFICATION FairSpec
ACTION_CONSTRAINTS FewAcks
INVARIANTS
  UrbInv
  NoCreationOrDuplication
  DeliveredIsHeld
PROPERTIES
  UniformAgreement
  BroadcastDelivered
  RefinesUniformBroadcast
CHECK_DEADLOCK FALSE
