CONSTANTS
  Topic = {temp}
  Worker = {w1}
  None = None
  NoOffset = NoOffset
  MaxMessages = 4
  MaxRuns = 2
  MaxRejoins = 1
SPECIFICATION FairSpec
INVARIANTS
  CommittedIsKept
  StopLosesNothing
PROPERTIES
  SignalStops
  MessagesEnd
