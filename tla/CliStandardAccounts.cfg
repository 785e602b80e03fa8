SPECIFICATION Spec
CONSTANTS
  Catalogue <- MCCatalogue
  Scenarios <- MCScenarios
  Requests <- LedgerRequests
  MaxRuns = 1
  MaxFaults = 0
INVARIANT StandardAccountIsSigned
CHECK_DEADLOCK FALSE
