SPECIFICATION Spec
CONSTANTS
  MaxSends = 2
  Attempts = 2
  MaxStalls = 0
  MaxFaults = 0
  Reports = {"DELIVERED", "READ"}
PROPERTY NeverRegress
CHECK_DEADLOCK FALSE
