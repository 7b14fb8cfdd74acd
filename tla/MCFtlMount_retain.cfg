SPECIFICATION MountSpec
CONSTANTS
  Addr = {a1, a2}
  Data = {d1, d2}
  NBlock = 4
  PPB = 3
  Tags = {"none", "ransom"}
  StackValues <- MCStackValues
  NoData = NoData
  Cluster <- MCCluster
  PMT_CACHE_COUNT = 1
  THRESHOLD = 2
  MaxLosses = 2
SYMMETRY Symmetry
VIEW MountView
CONSTRAINT OneWritten
INVARIANTS
  MountEnds
  RetainedSurvives
  BackupCountExact
CHECK_DEADLOCK FALSE
