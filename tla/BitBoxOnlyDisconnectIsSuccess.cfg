SPECIFICATION Spec
CONSTANTS
  MaxCalls = 4
  MaxFaults = 2
INVARIANT
  OnlyDisconnectIsSuccess
CHECK_DEADLOCK FALSE
