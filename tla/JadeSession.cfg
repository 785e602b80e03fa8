SPECIFICATION Spec
CONSTANTS
  Psbts = {"small", "large"}
  Fragments <- MCFragments
  Multisig <- MCMultisig
  Jobs <- MCJobs
  Browsers = {TRUE, FALSE}
  MaxCalls = 3
  MaxFaults = 2
  ReadMax = 2
INVARIANTS
  TypeOK
  OwnAnswer
  SignedWhole
  FailsForAReason
PROPERTIES
  CallReturns
CHECK_DEADLOCK FALSE
