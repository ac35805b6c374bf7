SPECIFICATION FairSpec
CONSTANTS
  k1 = k1
  k2 = k2
  k3 = k3
  Conns <- ThreeConns
  FdLimit = 3
  Backlog = 2
  MaxBytes <- MCMaxBytes
  ReplySize = 2
  ReplyRoom = 3
INVARIANTS
  TypeOK
  OneReplyPerReceive
  CutOnlyIfUnread
  DeathsExplained
PROPERTIES
  Served
CHECK_DEADLOCK FALSE
