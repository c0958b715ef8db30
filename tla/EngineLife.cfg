SPECIFICATION Spec
CONSTANTS
  main = main file = file render = render
  Workers <- TheWorkers
  Threads <- AllThreads
  NULL = NULL
  grow_increment <- TwoMB
  Sizes <- TheSizes
  MaxRegions = 3
  Failures = 1
  RenderQueue = 3
  FrameCommands = 2
INVARIANTS AllListed PoolInside LateIsRender
 
CHECK_DEADLOCK FALSE
