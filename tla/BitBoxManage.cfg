SPECIFICATION Spec
CONSTANTS
  MaxCalls = 4
  MaxFaults = 2
INVARIANTS
  TypeOK
  ReportedDone
PROPERTIES
  WalletUntouched
CHECK_DEADLOCK FALSE
