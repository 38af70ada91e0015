SPECIFICATION Spec
CONSTANTS
  d1 = d1
  d2 = d2
  m1 = m1
  m2 = m2
  Deliveries = {d1}
  Msgs = {m1, m2}
  Carries <- MCBatch
  EchoMsgs = {m2}
  AnonMsgs = {m1}
  Convs <- MCOneConv
  MaxAttempts = 2
  MaxStalls = 1
  MaxExpiries = 0

  
  
PROPERTY AckedIsDecided
CHECK_DEADLOCK FALSE
