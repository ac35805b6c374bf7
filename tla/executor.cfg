SPECIFICATION FairSpec
CONSTANTS
  p1 = p1
  p2 = p2
  Nobody = Nobody
  Peers <- MCPeers
  Size <- MCSize
  BufLen <- MCBufLen
  MaxRequests = 4
INVARIANTS
  CookiesLive
  BuffersExclusive
  PoolsExact
  SqeNeverNull
  OwnReply
  ShortOnlyAfterShort
PROPERTIES
  AllAnswered
CHECK_DEADLOCK FALSE
