SPECIFICATION Spec
CONSTANTS
  p1 = p1 p2 = p2 c1 = c1 c2 = c2 a = a b = b junk = junk
  Producers <- One
  Consumers <- Reader
  PushOps <- Back
  PopOps <- FromBack
  Items <- OnlyA
  Garbage = junk
  Length = 2
  IntMax = 100
  MaxPushes = 3
INVARIANTS PoppedWasPushed
CHECK_DEADLOCK FALSE
