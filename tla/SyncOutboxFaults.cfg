CONSTANTS
  MaxId = 4
  Priority <- ConstPriority
  Poison <- ConstPoison
  Invalid <- ConstInvalid
  PageSize = 3
  BatchSize = 2
  MaxQuarantines = 1
  MaxGen = 2
  MaxDevice = 1
  Events <- ConstFaults
  MaxEvents = 2
SPECIFICATION FairSpec
PROPERTY QueueDrains
INVARIANTS AckedIsHandled NoFalseGap 
CHECK_DEADLOCK FALSE
