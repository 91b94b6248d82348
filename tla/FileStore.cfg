SPECIFICATION Spec
CONSTANTS
  Thread = {t1, t2, t3}
  k1 = k1
  k2 = k2
  k3 = k3
  Key <- MCKeys
  DirOf <- MCDirOf
  DirLevels = 2
  MaxOps = 4
  MaxFaults = 1
  Null = Null
SYMMETRY Symmetry
INVARIANTS TypeOK CompleteWhenQuiet NoEmptyDirWhenQuiet StoreFailsOnlyIfDisturbed
CHECK_DEADLOCK FALSE
