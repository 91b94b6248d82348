SPECIFICATION Spec
CONSTANTS
  Named <- MCNamed
  Blank <- MCBlank
  Literal = {lit}
  Null = Null
  NoOp = NoOp
  user = user
  mine = mine
  other = other
  acl = acl
  b1 = b1
  b2 = b2
  b3 = b3
  lit = lit
  ModeControl = ModeControl
  ModeWrite = ModeWrite
  ModeAppend = ModeAppend
  InitStores <- BareStores
  Batches <- GrantBatches
  MaxOps = 3
INVARIANT NamedChangeIsGranted
