SPECIFICATION Spec
CONSTANTS
  c1 = c1  c2 = c2  d = d
  Camera = {c1, c2}
  Dir = {d}
  DirOf <- MCDirOf
  Delays = 2
  Retention = 1
  MaxTime = 3
  MaxFaults = 2
INVARIANTS
  OldFramesGo
PROPERTIES
  
  StartReturns
