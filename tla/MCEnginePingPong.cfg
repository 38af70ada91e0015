SPECIFICATION Spec
CONSTANTS
  Autos <- MCAutos
  Trigger <- PingPongTrigger
  Actions <- PingPongActions
  Users = {"u1", "u2"}
  MaxDepth = 1
  MaxFailures = 2
  MaxAttempts = 2
  MaxStalls = 1
  MaxInputs = 1
INVARIANTS
  CascadeBounded
  LadderPauses
 
CHECK_DEADLOCK FALSE
