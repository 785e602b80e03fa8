SPECIFICATION Spec
CONSTANTS
  p1 = p1
  p2 = p2
  Docs <- MCDocs
  Backup = backup
  Length <- MCLength
  MaxChunk = 2
  MaxCalls = 4
  MaxFaults = 2
  MaxPolls = 1
INVARIANTS
  TypeOK
  KeysAgree
  OwnAnswer
  FailsForAReason
PROPERTIES
  CallReturns
CHECK_DEADLOCK FALSE
