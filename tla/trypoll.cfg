SPECIFICATION Spec
CONSTANTS
  f1 = f1
  f2 = f2
  NoFiber = NoFiber
  Fibers <- MCFibers
  Root = f1
  Entries = 8
  OpErrors <- MCOpErrors
  LostTimer <- MCLostTimer
  BatchSize = 2
  Polls = {"one"}
  MaxAttempts = 3
INVARIANTS
  NeverStarved
PROPERTIES
  DeliveredOrDropped
CHECK_DEADLOCK FALSE
