SPECIFICATION FairSpec
CONSTANTS
  HTTP_ATTEMPTS = 4
  DATA_CALL_ATTEMPTS = 2
  Increments = {1}
  MaxReports = 2
  ServesClosed = FALSE
  Budget <- LossBudget
PROPERTIES
  DataCallRetried
