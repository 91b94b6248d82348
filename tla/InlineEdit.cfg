SPECIFICATION Spec
CONSTANTS
  v1 = v1
  v2 = v2
  v3 = v3
  Value = {v1, v2, v3}
  Page0 <- MCPage0
  AddControl = {add, incomplete}
  Incomplete = {incomplete}
  Select = {1}
  MaxCalls = 2
  MaxRequests = 3
  None = None
INVARIANTS TypeOK SavingHasRequest PageAgreesWithStore FinishedSettles RemovedHasNoForm
PROPERTIES ClosesOnlyWhenSaved SavesEnd
CHECK_DEADLOCK FALSE
