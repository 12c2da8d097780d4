SPECIFICATION Spec
CONSTANTS
  HTTP_ATTEMPTS = 2
  DATA_CALL_ATTEMPTS = 2
  Increments = {0, 1}
  MaxReports = 2
  ServesClosed = FALSE
  Budget <- TransportBudget
INVARIANTS
  NoStaleAnswer
  WaitsEnd
  ProvisionedInOrder
  AcknowledgedIsStored
  ReadingsInOrder
  CopiesBounded
PROPERTIES
  FeedSpec
  OnlyRacesForget
