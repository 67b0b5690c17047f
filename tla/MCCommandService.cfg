CONSTANTS
  None = None
  Conn = {k1, k2, k3}
  Length = 3
  Valid = {1, 2}
  MaxPings = 1
  MaxFaults = 1
SPECIFICATION FairSpec
CHECK_DEADLOCK FALSE
INVARIANTS
  AtMostTwice
  SuccessIsExecuted
  CommittedIsTreated
  NoStrayConnection
PROPERTIES
  CommandsFinish
