SPECIFICATION Spec
CONSTANTS
  r1 = r1
  r2 = r2
  None = None
  Events <- MCOneEvent
  Replicas = {r1, r2}
  Enabled = {r1}
  BatchSize = 1
  MaxAttempts = 2
  MaxStalls = 1
  MaxFaults = 3
INVARIANTS
  ProcessedWasHandled
  ReexecutionNeedsFault
PROPERTIES
  ReopenedByLeaseHolder
  
  KeepsPromise
CHECK_DEADLOCK FALSE
