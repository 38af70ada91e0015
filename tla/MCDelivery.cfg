SPECIFICATION Spec
CONSTANTS
  MaxSends = 2
  Attempts = 2
  MaxStalls = 0
  MaxFaults = 2
  Reports = {"READ"}
INVARIANTS
  NoPhantomRow
  ResendNeedsFault
  OperatorIsKnown
  QueuedForeverNeedsFault
PROPERTY JobEnds
CHECK_DEADLOCK FALSE
