CONSTANTS
  Producers = {p1, p2}
  Writers = {w1, w2}
  Nobody = nobody
  Envelope <- SmallEnvelope
  Malformed <- BrokenOnly
  Lax <- None
  Legacy <- OldFiles
  Clock = {0, 9}
  Tears = {"torn"}
  Direct = FALSE
  MaxPublished = 4
  MaxCrashes = 1
SPECIFICATION FairSpec
INVARIANTS
  TypeOK
  ChainIntact
  NothingLost
  QuarantineJustified
  OrderFollowsPublication
PROPERTIES
  AppendOnly
  ImplementsLog
  
CHECK_DEADLOCK FALSE
