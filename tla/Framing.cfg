SPECIFICATION Spec
CONSTANTS
  Links <- AllLinks
  Lengths = {1, 2, 4}
  MaxPackets = 3
  MaxCalls = 4
  MaxFaults = 2
INVARIANTS
  TypeOK
  OwnFrame
PROPERTIES
  CallReturns
CHECK_DEADLOCK FALSE
