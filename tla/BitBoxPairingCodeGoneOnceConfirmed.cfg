SPECIFICATION Spec
CONSTANTS
  k1 = k1
  k2 = k2
  NoKey = NoKey
  Keys <- MCKeys
  Contexts <- MCContexts
  MaxCalls = 3
  MaxFaults = 2
  MaxWaits = 1
INVARIANT PairingCodeGoneOnceConfirmed
CHECK_DEADLOCK FALSE
