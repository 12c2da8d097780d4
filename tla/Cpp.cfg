SPECIFICATION FairSpec
CONSTANTS
  contName = "DATA"
  runtime = 1
  secondsToDelay = 61
  Increments = {1, 2}
  Pings = 1
  Errors = 1
  Boots = 1
INVARIANTS
  ReportsCoverRuntime
  ReplyIsFresh
  OnlyRacesBreakTheHeap
PROPERTIES
  FeedSpec
  PingsAreAnswered
CHECK_DEADLOCK FALSE
