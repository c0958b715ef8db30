SPECIFICATION Spec
CONSTANTS
  MAX_COMPONENT_TYPES = 2
  MAX_ENTITIES_ALLOWED = 4
  Words = 2
  Masks <- TwoMasks
  LeftInts <- AnyInt
  LeftMasks <- AnyMask
  LeftData <- AnyData
INVARIANTS OneEntity SeenAfterUpdate
PROPERTIES QueriesEnd
CHECK_DEADLOCK FALSE
