SPECIFICATION FairSpec
CONSTANTS
  r1 = r1 r2 = r2 r3 = r3 r4 = r4
  NULL = NULL Garbage = Garbage
  Reads <- R124
  Writes <- R3
  Compressed <- R24
  Failures <- None
  CallerHeap = "fs"
  CallerFrees = "never"
  DestroyEarly = FALSE
  MaxInFlight = 4
  QueueLength = 2
  HalfRange = 64
  LZ4_MAX_INPUT_SIZE = 40
INVARIANTS TypeOK WorkersHoldLiveWork OnePlace NoBadFree NoLeak ReadDelivers KindOrder
PROPERTIES ImplementsAsyncWork
CHECK_DEADLOCK FALSE
