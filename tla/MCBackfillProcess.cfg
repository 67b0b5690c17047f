CONSTANTS
  d1 = d1
  d2 = d2
  f1 = f1
  m1 = m1
  m2 = m2
  m3 = m3
  m4 = m4
  m5 = m5
  iss = iss
  indoor = indoor
  None = None
  Malformed = Malformed
  Other = Other
  Worker = {w1, w2}
  Device = {d1, d2}
  Field = {f1}
  Message = {m1, m2, m3, m4, m5}
  DeviceOf <- MCDeviceOf
  Body <- MCBody
  KnownDevice = {d1}
  LateDevice = {}
  KnownType <- MCKnownType
  Backfill = TRUE
  Topic = {iss, indoor}
  Log <- MCLog
  EndOffset = 2
  MetadataLog <- MCMetadataLog
  MaxFaults = 1
SPECIFICATION FairProcessSpec
INVARIANTS
  ParseErrorsKept
  ExitedIsComplete
  NothingLeftInBatches
  
PROPERTIES
  BackfillImplementsStore
  ProcessEnds
