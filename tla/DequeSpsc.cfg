SPECIFICATION FairSpec
CONSTANTS
  p1 = p1 p2 = p2 c1 = c1 c2 = c2 a = a b = b junk = junk
  Producers <- One
  Consumers <- Reader
  PushOps <- Back
  PopOps <- FromFront
  Items <- AB
  Garbage = junk
  Length = 2
  IntMax = 100
  MaxPushes = 5
INVARIANTS TypeOK FIFO NoSlotRace FifoInv
PROPERTIES ImplementsBoundedQueue Delivered
CHECK_DEADLOCK FALSE
