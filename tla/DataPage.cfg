SPECIFICATION PageFairSpec
CONSTANTS
  Meters = {m1}
  Days <- ReportDays
  Readings = {1}
  Documents = 2
  resourceName = m1
  Choices <- Chosen
  NoDate = NoDate
  Limits = {1, 2}
  Default = 2
  Polls = 2
  Names = {u}
  Passwords = {p}
  NoLogin = NoLogin
  Accounts = 1
  Faults = 1
INVARIANTS
  MixedOnlyAtMonthEnds
  ChartIsOfChosenDate
  OnlyLoggedInSee
PROPERTIES
  ChartCatchesUp
CHECK_DEADLOCK FALSE
