SPECIFICATION FairSpec
CONSTANTS
  main = main worker = worker d1 = d1 d2 = d2 d3 = d3
  Tracers <- Two
  Main = main
  Nobody = Nobody Garbage = Garbage
  Durations <- ThreeDurations
  Capacity = 3
  Failures <- Everywhere
  Orderly = TRUE
  MaxCaptures = 2
INVARIANTS TypeOK NothingLost Matched NoFreedUse
PROPERTIES CallsReturn
CHECK_DEADLOCK FALSE
