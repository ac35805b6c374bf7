SPECIFICATION FairSpec
CONSTANTS
  c1 = c1
  c2 = c2
  s1 = s1
  s2 = s2
  Server = Server
  Clients <- MCClients
  SFibers <- MCSFibers
  InboxSize = 2
  MayLose = TRUE
  MayDuplicate = FALSE
  LongPayloads <- MCNoneLong
  ServerMayFail = FALSE
  Count = 4
  Cut = 1
  ClientMayFail = FALSE
INVARIANTS
  NoBadResponse
  BacklogBound
  EachReplyOnce
  LateOnlyAfterDead
PROPERTIES
  ClientEnds
