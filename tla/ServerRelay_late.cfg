SPECIFICATION Spec
CONSTANTS
  b1 = b1
  b2 = b2
  Bridges = {b1, b2}
  Silent <- MCSilent
  Burst = 3
  Sizes = {2}
  MaxReads = 4
  MaxIdle = 1
  MaxFaults = 1
INVARIANT RateKept
CHECK_DEADLOCK FALSE
