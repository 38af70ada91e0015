SPECIFICATION Spec
CONSTANTS
  MaxMsgs = 1
  MaxAttempts = 1
  MaxDepth = 1
  MaxUpsets = 1
PROPERTY EndsAnsweredOrStuck
CHECK_DEADLOCK FALSE
