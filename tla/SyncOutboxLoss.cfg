CONSTANTS
  MaxId = 1
  Priority <- ConstNone
  Poison <- ConstNone
  Invalid <- ConstNone
  PageSize = 2
  BatchSize = 2
  MaxQuarantines = 1
  MaxGen = 2
  MaxDevice = 1
  Events <- ConstInsert
  MaxEvents = 1
SPECIFICATION Spec
INVARIANTS NothingLost
CHECK_DEADLOCK FALSE
