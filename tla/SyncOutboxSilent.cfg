CONSTANTS
  MaxId = 1
  Priority <- ConstNone
  Poison <- ConstNone
  Invalid <- ConstNone
  PageSize = 2
  BatchSize = 2
  MaxQuarantines = 1
  MaxGen = 2
  MaxDevice = 2
  Events <- ConstCheck
  MaxEvents = 4
SPECIFICATION Spec
INVARIANTS NotSilentlyDead
CHECK_DEADLOCK FALSE
