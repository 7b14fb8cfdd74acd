CONSTANTS
  LogBlock <- MCLogBlock
  NFree = 2
  PPB = 2
  STATIC_WL_THRESHOLD = 100
  MaxFail = 2
  MaxErase = 1
SPECIFICATION Spec
CHECK_DEADLOCK FALSE
INVARIANTS WrittenOrHeld RetainedLocationKept OneRole BuffersReleased
PROPERTIES CallsReturn
