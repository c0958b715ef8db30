SPECIFICATION Spec
CONSTANTS
  e1 = e1 e2 = e2 cube = cube s1 = s1 s2 = s2
  Models <- TwoModels
  None = None Garbage = Garbage
  QueueLength = 3
  gpu_frame_count = 2
  MaxDraw = 2
  Failures <- AnyFailure
  MaxPushes = 6
INVARIANTS CachesOwnLive PendingIntact BoundAsWanted
 
CHECK_DEADLOCK FALSE
