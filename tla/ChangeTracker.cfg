SPECIFICATION Spec
CONSTANTS
  Model = {m1, m2}
  User = {u1, u2}
  Lists <- MCLists
  MaxMade = 3
  MaxToggles = 1
  MaxFaults = 1
  Null = Null
INVARIANTS TypeOK AuditComplete NoneStranded
PROPERTY ComesToRest
CHECK_DEADLOCK FALSE
