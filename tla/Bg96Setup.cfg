SPECIFICATION FairSpec
CONSTANTS
  HTTP_ATTEMPTS = 2
  DATA_CALL_ATTEMPTS = 1
  Increments = {1}
  MaxReports = 2
  ServesClosed = TRUE
  Budget <- SetupBudget
INVARIANTS
  IInv
PROPERTIES
  DataCallRetried
  ReprovisionedAfterReboot
  ReadingsArrive
