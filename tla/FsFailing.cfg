SPECIFICATION FairSpec
CONSTANTS
  r1 = r1 r2 = r2 r3 = r3 r4 = r4
  NULL = NULL Garbage = Garbage
  Reads <- R12
  Writes <- R3
  Compressed <- R123
  Failures <- EveryFailure
  CallerHeap = "fs"
  CallerFrees = "instead"
  DestroyEarly = FALSE
  MaxInFlight = 3
  QueueLength = 1
  HalfRange = 64
  LZ4_MAX_INPUT_SIZE = 40
INVARIANTS NoBadFree NoCircularWait
PROPERTIES Settles
CHECK_DEADLOCK FALSE
