SPECIFICATION FairEchoSpec
CONSTANTS
  f0 = f0
  f1 = f1
  f2 = f2
  NoFiber = NoFiber
  Fibers <- MCFibers
  Root = f0
  Entries = 2
  OpErrors <- MCOpErrors
  LostTimer <- MCNone
  BatchSize = 2
  Polls = {"many"}
  MaxAttempts = 1
  c1 = c1
  c2 = c2
  c3 = c3
  Server = Server
  Clients <- MCClients
  InboxSize = 1
  MayLose = TRUE
  MayDuplicate = FALSE
  Requests <- MCRequests
  Unwritten <- MCUnwritten
  LongPayloads <- MCLong
PROPERTIES
  KeepsService
  TakenIsAnswered
