SPECIFICATION Spec
CONSTANTS
  shader = shader pipeline = pipeline mesh = mesh uniform = uniform set1 = set1 set2 = set2
  Objects <- TheObjects
  Kind <- TheKinds
  Needs <- TheNeeds
  frame_count = 3
  maxSets = 1
INVARIANTS HandlesAlive OnlyForgottenLeft
CHECK_DEADLOCK FALSE
