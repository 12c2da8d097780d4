SPECIFICATION Spec
CONSTANTS
  Meters = {"m1", "m2"}
  Notifications = {n1, n2, n3}
  ofOther = noReading
  MeterOf <- ReadingsOf
  Downloads = 0
  Kills = 0
  IoErrors = 0
INVARIANTS
  RecordedStays
CHECK_DEADLOCK FALSE
