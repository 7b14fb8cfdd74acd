SPECIFICATION Spec
CONSTANTS
  Addr = {a1, a2, a3}
  Data = {d1, d2}
  NBlock = 4
  PPB = 3
  Tags = {"none", "ransom"}
  StackValues <- MCStackValues
  NoData = NoData
SYMMETRY Symmetry
VIEW ReadableView
CONSTRAINT NotStarved
INVARIANTS
  CurrentReadable
  BenignRetained
  AssertsHold
PROPERTIES
  RetentionSpec
CHECK_DEADLOCK FALSE
