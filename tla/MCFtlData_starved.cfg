SPECIFICATION Spec
CONSTANTS
  Addr = {a1, a2}
  Data = {d1, d2}
  NBlock = 3
  PPB = 3
  Tags = {"none", "ransom", "mft"}
  StackValues <- MCStackValues
  NoData = NoData
SYMMETRY Symmetry
VIEW ReadableView
INVARIANTS
  TypeOK
  IInv
PROPERTIES
  PinnedPagesKept
CHECK_DEADLOCK FALSE
