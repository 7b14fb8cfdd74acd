CONSTANTS
  SECTOR_PER_MPP = 2
  NPage = 2
  BUFFER_COUNT = 4
  Commands <- ResetCommands
  MaxCommands = 3
  MaxResets = 2
  PromptISR = FALSE
SPECIFICATION Spec
CHECK_DEADLOCK FALSE
INVARIANTS NoBufferUsedTwice LateReadsSeeWrites
