SPECIFICATION Spec
CONSTANTS
  MaxMsgs = 2
  MaxAttempts = 0
  MaxDepth = 0
  MaxUpsets = 0
INVARIANT EveryMessageIsRead
CHECK_DEADLOCK FALSE
