CONSTANTS
  None = None
  Worker = {w1, w2}
  Window = {1, 2, 3, 4}
  Second = 1
  Hour = 2
  Limit = 3
SPECIFICATION FairSpec
INVARIANTS
  HourlyBound
PROPERTIES
  
  WindowsTreated
