SPECIFICATION Spec
CONSTANTS
  Transactions <- MCTransactions
  MaxCalls = 6
  MaxFaults = 5
INVARIANTS
  TypeOK
  SignaturesInPlace
  EcdsaIsOwn
PROPERTIES
  RevealedOnce
  SigningEnds
CHECK_DEADLOCK FALSE
