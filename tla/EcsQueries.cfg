SPECIFICATION Spec
CONSTANTS
  MAX_COMPONENT_TYPES = 4
  MAX_ENTITIES_ALLOWED = 6
  Words = 6
  Masks <- SceneMasks
  LeftInts <- Fresh
  LeftMasks <- EmptyMask
  LeftData <- NoData
INVARIANTS QueryMatches
CHECK_DEADLOCK FALSE
