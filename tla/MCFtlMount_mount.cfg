SPECIFICATION MountSpec
CONSTANTS
  Addr = {a1, a2}
  Data = {d1, d2}
  NBlock = 4
  PPB = 3
  Tags = {"none"}
  StackValues <- MCStackValues
  NoData = NoData
  Cluster <- MCCluster
  PMT_CACHE_COUNT = 1
  THRESHOLD = 9
  MaxLosses = 1
SYMMETRY Symmetry
VIEW MountView
CONSTRAINT NotStarved
INVARIANTS
  NeverStarved
  WritesSurvive
  AssertsHoldAfterMount
CHECK_DEADLOCK FALSE
