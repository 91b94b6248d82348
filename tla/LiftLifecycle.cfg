SPECIFICATION Spec
CONSTANTS
  r1 = r1
  r2 = r2
  m1 = m1
  m2 = m2
  Request <- MCRequest
  Bundle <- MCBundle
  Deployable <- MCDeployable
  StartLevel <- MCStartLevel
  MaxTrackers = 2
  MaxDeploys = 1
INVARIANTS TypeOK BootedOnce ServesAfterBoot ShutDownOnce
PROPERTY RestartsOnChange
CHECK_DEADLOCK FALSE
