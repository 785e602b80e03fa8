SPECIFICATION Spec
CONSTANTS
  Catalogue <- MCCatalogue
  Scenarios <- MCScenarios
  Requests <- MCRequests
  MaxRuns = 2
  MaxFaults = 1
INVARIANTS TypeOK RightDevice FailsForAReason ReportIsTrue LedgerPolicyFits
CHECK_DEADLOCK FALSE
