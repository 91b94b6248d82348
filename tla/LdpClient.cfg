SPECIFICATION Spec
CONSTANTS
  Reader = {r1}
  SendsETag = TRUE
  MaxVersion = 3
  MaxActivations = 1
  MaxHttpFaults = 2
  MaxStoreFaults = 1
  Null = Null
INVARIANTS TypeOK UpToDateUnlessStoreFails
PROPERTY CatchesUp
CHECK_DEADLOCK FALSE
