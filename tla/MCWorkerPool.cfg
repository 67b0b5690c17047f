CONSTANTS
  d1 = d1
  d2 = d2
  f1 = f1
  f2 = f2
  m1 = m1
  m2 = m2
  m3 = m3
  m4 = m4
  m5 = m5
  None = None
  Malformed = Malformed
  Worker = {w1, w2}
  Device = {d1, d2}
  Field = {f1, f2}
  Message = {m1, m2, m3, m4}
  DeviceOf <- MCDeviceOf
  Body <- MCBody
  KnownDevice = {d1}
  LateDevice = {d2}
  KnownType <- MCKnownType
  Backfill = FALSE
SPECIFICATION FairSpec
INVARIANTS
  EveryFieldTreated
  TagsExist
  DropsOnlyOnTypeConflict
PROPERTIES
  ShutdownReturns
