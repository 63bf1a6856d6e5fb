CONSTANTS
  MaxLine = 11
  Data <- AllData
SPECIFICATION Spec
INVARIANTS
  ReadAsSent
  CutIsRefused
  ResentUntilRead
CHECK_DEADLOCK FALSE
