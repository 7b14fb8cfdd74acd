SPECIFICATION Spec
CONSTANTS
  Addr = {2, 4, 5}
  NLoc = 5
  MaxWrites = 2
  MaxReclaims = 1
  Runlist <- ApartMFT
  Versions = 4
  Attributed = FALSE
  READ_AHEAD = TRUE
  MaxScans = 1
CONSTRAINT FewChanges
VIEW ScanView
INVARIANTS
  PhaseKept
  WalksInOrder
  UntaggedReadsCurrent
  RecoverReadsRetained
CHECK_DEADLOCK FALSE
