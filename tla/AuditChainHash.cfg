CONSTANTS
  Replica = {r1, r2}
  Handler = {h1, h2}
  Background = {b1}
  Capacity = 1
  MaxFaults = 2
  None = None
SPECIFICATION Spec
INVARIANT HashCoversSeq
CHECK_DEADLOCK FALSE
