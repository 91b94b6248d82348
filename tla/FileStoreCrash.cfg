SPECIFICATION Spec
CONSTANTS
  Thread = {t1}
  k1 = k1
  k2 = k2
  k3 = k3
  Key <- MCKeys
  DirOf <- MCDirOf
  DirLevels = 2
  MaxOps = 2
  MaxFaults = 1
  Null = Null
PROPERTY ExistingIsIdentical
CHECK_DEADLOCK FALSE
