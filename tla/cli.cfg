SPECIFICATION FairSpec
CONSTANTS
  t1 = t1
  t2 = t2
  s1 = s1
  s2 = s2
  Server = Server
  Socket = Socket
  Clients <- MCClients
  Threads <- MCThreads
  SFibers <- MCSFibers
  InboxSize = 2
  MayLose = TRUE
  MayDuplicate = FALSE
  LongPayloads <- MCNoneLong
  ServerMayFail = FALSE
  PerThread = 2
  Cut = 3
  CliMayFail = TRUE
INVARIANTS
  NobodysReply
  SummaryComplete
PROPERTIES
  CliEnds
CHECK_DEADLOCK FALSE
