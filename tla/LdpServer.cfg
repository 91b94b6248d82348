SPECIFICATION Spec
CONSTANTS
  c1 = c1
  c2 = c2
  Client <- MCClient
  Slug = {doc}
  Size = {1, 2}
  Keyed = {FALSE}
  MaxRequests = 3
  MaxSlot = 1
  None = None
SYMMETRY Symmetry
PROPERTY NoMidAirCollision
CHECK_DEADLOCK FALSE
