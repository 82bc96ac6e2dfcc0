CONSTANTS
  Producers = {p1}
  Writers = {w1}
  Nobody = nobody
  Envelope <- FaultEnvelope
  Malformed <- None
  Lax <- LaxOnly
  Legacy <- NoFiles
  Clock = {0}
  Tears = {"bare"}
  Direct = FALSE
  MaxPublished = 3
  MaxCrashes = 1
SPECIFICATION Spec
INVARIANTS
  JournalReadable
CHECK_DEADLOCK FALSE
