SPECIFICATION Spec
CONSTANTS
  Meters = {"m1", "m2"}
  Notifications = {n1, n2, n3, n4}
  ofOther = n4
  MeterOf <- ReadingsOf
  Downloads = 1
  Kills = 1
  IoErrors = 1
SYMMETRY Alike
INVARIANTS
  FileIsSound
  FileStaysReadable
  RecordIsKept
PROPERTIES
  LogSpec
CHECK_DEADLOCK FALSE
