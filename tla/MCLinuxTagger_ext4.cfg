SPECIFICATION Spec
CONSTANTS
  NBlock = 9
  Groups <- TwoGroups
  ItableBlocks = 1
  Flagged = 2
  DIRS = 2
  DirBlock = {5, 7, 8}
  Lookalikes <- InodeImages
  MaxWrites = 2
  MaxAborts = 1
  MaxKills = 1
PROPERTIES
  MetadataTagged
  FilesProtected
  SessionsApart
CHECK_DEADLOCK FALSE
