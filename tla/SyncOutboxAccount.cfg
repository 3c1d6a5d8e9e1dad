CONSTANTS
  MaxId = 2
  Priority <- ConstPriority
  Poison <- ConstNone
  Invalid <- ConstNone
  PageSize = 2
  BatchSize = 2
  MaxQuarantines = 1
  MaxGen = 2
  MaxDevice = 2
  Events <- ConstAccount
  MaxEvents = 3
SPECIFICATION Spec
INVARIANTS NoFalseGap 
CHECK_DEADLOCK FALSE
