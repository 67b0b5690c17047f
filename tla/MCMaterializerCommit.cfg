CONSTANTS
  Topic = {temp}
  Worker = {w1}
  None = None
  NoOffset = NoOffset
  MaxMessages = 2
  MaxRuns = 1
  MaxRejoins = 0
SPECIFICATION Spec
INVARIANTS
  CommitAfterProcess
