SPECIFICATION Spec
CONSTANTS
  Autos <- MCAutos
  Trigger <- GreetTrigger
  Actions <- GreetActions
  Users = {"u1", "u2"}
  MaxDepth = 1
  MaxFailures = 2
  MaxAttempts = 2
  MaxStalls = 0
  MaxInputs = 2
INVARIANTS
  SectionIsLocked
  RepeatedSendNeedsRetry
CHECK_DEADLOCK FALSE
