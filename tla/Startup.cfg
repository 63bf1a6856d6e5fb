CONSTANTS
  l1 = l1
  l2 = l2
  Junk = Junk
  NoFile = NoFile
  Proc <- TwoProcs
  Start <- Starts
  IntRange = 8
  LongRange = 16
  Anything <- Indeterminate
  HostsFiles <- Hosts
SPECIFICATION Spec
SYMMETRY Permuted
INVARIANTS
  ReadersAgree
  UndefinedOnlyIf
  HostsIndexed
  UniqueSender
  LinesInOrder
CHECK_DEADLOCK FALSE
