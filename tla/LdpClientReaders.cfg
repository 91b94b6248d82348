SPECIFICATION Spec
CONSTANTS
  Reader = {r1, r2}
  SendsETag = TRUE
  MaxVersion = 2
  MaxActivations = 1
  MaxHttpFaults = 0
  MaxStoreFaults = 0
  Null = Null
INVARIANT UpToDateWhenNotNeeded
CHECK_DEADLOCK FALSE
