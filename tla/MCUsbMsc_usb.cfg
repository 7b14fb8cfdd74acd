\* The front end without resets.
CONSTANTS
  SECTOR_PER_MPP = 2
  NPage = 2
  BUFFER_COUNT = 4
  Commands <- MixedCommands
  MaxCommands = 3
  MaxResets = 0
  PromptISR = TRUE
SPECIFICATION FairSpec
CHECK_DEADLOCK FALSE
INVARIANTS TypeOK ReadsSeeWrites BuffersAccounted TagsArrive
PROPERTIES CommandsEnd WritesReachFlash
