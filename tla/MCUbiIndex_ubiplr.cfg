CONSTANTS
  l1 = l1 l2 = l2 b1 = b1 b2 = b2 b3 = b3 b4 = b4 f1 = f1 f2 = f2 f3 = f3
  FreeBlocks = {f1, f2}
  LogBlock <- MCLogBlock
  PhyBlock <- MCPhyBlock
  Formatted <- MCFormatted
  Area0 = b3
  Index0 = b4
  NoBlock = NoBlock
  Worn0 = {}
  PPB = 2
  AnchorCount = 2
  MaxOps = 2
  MaxCrash = 2
  MaxFail = 3
SPECIFICATION Spec
SYMMETRY Symmetry
CONSTRAINT TablesInOrder
CHECK_DEADLOCK FALSE
INVARIANTS MappingSurvives BlocksAccounted MountSucceeds
