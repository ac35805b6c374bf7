SPECIFICATION FairSpec
CONSTANTS
  f1 = f1
  f2 = f2
  NoFiber = NoFiber
  Fibers <- MCFibers
  Root = f1
  Entries = 4
  OpErrors <- MCOpErrors
  LostTimer <- MCLostTimer
  BatchSize = 2
  Polls = {"many"}
  MaxAttempts = 1
INVARIANTS
  FrameLive
  NoLostWakeup
  AwaitedResults
  PendingExact
  StopsOnlyWhenDone
  NoGridlock
PROPERTIES
  KeepsPromise
  SqeGranted
