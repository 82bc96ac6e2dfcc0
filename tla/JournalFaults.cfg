CONSTANTS
  Producers = {p1, p2}
  Writers = {w1, w2}
  Nobody = nobody
  Envelope <- FaultEnvelope
  Malformed <- None
  Lax <- LaxOnly
  Legacy <- NoFiles
  Clock = {0, 9}
  Tears = {"torn", "bare", "raised"}
  Direct = TRUE
  MaxPublished = 3
  MaxCrashes = 2
SPECIFICATION Spec
SYMMETRY Processes
INVARIANTS
  
  OrdinalsIncrease
  
  NoFragmentLost
CHECK_DEADLOCK FALSE
