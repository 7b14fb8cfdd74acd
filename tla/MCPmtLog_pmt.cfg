SPECIFICATION Spec
CONSTANTS
  PMT_BLOCK_COUNT = 3
  PPB = 4
  PMT_CACHE_COUNT = 2
  MaxLosses = 1
VIEW TablesView
CONSTRAINT RiskFree
INVARIANTS
  ClustersFound
  CommitSurvives
  DirtyCountsExact
  AssertsHold
