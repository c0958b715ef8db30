SPECIFICATION FairSpec
CONSTANTS
  r1 = r1 r2 = r2 r3 = r3 r4 = r4
  NULL = NULL Garbage = Garbage
  Reads <- None
  Writes <- R123
  Compressed <- R123
  Failures <- None
  CallerHeap = "fs"
  CallerFrees = "never"
  DestroyEarly = TRUE
  MaxInFlight = 4
  QueueLength = 1
  HalfRange = 64
  LZ4_MAX_INPUT_SIZE = 40
INVARIANTS QueuesAlive DestroyDrains
PROPERTIES DestroyReturns
CHECK_DEADLOCK FALSE
