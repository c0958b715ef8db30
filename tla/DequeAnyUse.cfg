SPECIFICATION Spec
CONSTANTS
  p1 = p1 p2 = p2 c1 = c1 c2 = c2 a = a b = b junk = junk
  Producers <- Two
  Consumers <- Readers
  PushOps <- AnyPush
  PopOps <- AnyPop
  Items <- OnlyA
  Garbage = junk
  Length = 2
  IntMax = 100
  MaxPushes = 3
SYMMETRY Interchangeable
INVARIANTS SemConservation IndexWindow
CHECK_DEADLOCK FALSE
