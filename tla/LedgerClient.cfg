SPECIFICATION Spec
CONSTANTS
  MaxData = 8
  HashLen = 2
  VarLen = 1
  MaxProof = 2
  MaxMore = 6
  Psbt <- MCPsbt
  Wallet <- MCWallet
  Chunks <- MCChunks
  Jobs <- MCJobs
  MaxCalls = 3
  MaxFaults = 2
INVARIANTS
  TypeOK
  OwnAnswer
  DeviceSees
  FailsForAReason
PROPERTIES
  CallReturns
CHECK_DEADLOCK FALSE
