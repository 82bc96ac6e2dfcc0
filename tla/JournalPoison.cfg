CONSTANTS
  Producers = {p1}
  Writers = {w1}
  Nobody = nobody
  Envelope <- PoisonEnvelope
  Malformed <- None
  Lax <- LaxOnly
  Legacy <- NoFiles
  Clock = {0}
  Tears = {}
  Direct = FALSE
  MaxPublished = 2
  MaxCrashes = 0
SPECIFICATION FairSpec
PROPERTIES
  EveryFileSettles
CHECK_DEADLOCK FALSE
