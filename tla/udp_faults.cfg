SPECIFICATION FairSpec
CONSTANTS
  c1 = c1
  c2 = c2
  s1 = s1
  s2 = s2
  Server = Server
  Clients <- MCClients
  SFibers <- MCOneSFiber
  InboxSize = 1
  MayLose = TRUE
  MayDuplicate = TRUE
  LongPayloads <- MCOneLong
  ServerMayFail = TRUE
  Count = 2
  Cut = 1
  ClientMayFail = TRUE
INVARIANTS
  NoBadResponse
  BadSummaryMeansAllDead
PROPERTIES
  ClientEnds
