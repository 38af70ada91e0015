SPECIFICATION Spec
CONSTANTS
  d1 = d1
  d2 = d2
  m1 = m1
  m2 = m2
  Deliveries = {d1, d2}
  Msgs = {m1}
  Carries <- MCRedelivered
  EchoMsgs = {}
  AnonMsgs = {}
  Convs <- MCConvs
  MaxAttempts = 2
  MaxStalls = 1
  MaxExpiries = 1
INVARIANTS
  OneWorkerPerMessage
  DispatchedOnce
  OneRowPerMessage
CHECK_DEADLOCK FALSE
