CONSTANTS
  n1 = n1
  n2 = n2
  t1 = t1
  n3 = n3
  Worker = {w1, w2}
  Flusher = Flusher
  Closer = Closer
  Free = Free
  Record <- MCRecord
  Row <- MCRow
  RowOf <- MCRowOf
  KindOf <- MCKindOf
  FlushSize = 2
SPECIFICATION FairSpec
INVARIANTS
  LossIsReported
  BatchesBounded
  CloseLeavesNothing
PROPERTIES
  ImplementsStore
  RecordsSettle
  CloseReturns
