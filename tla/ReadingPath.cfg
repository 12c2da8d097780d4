SPECIFICATION PathFairSpec
CONSTANTS
  Meters = {"m1"}
  Notifications = {1, 2}
  MeterOf <- OneMeter
  Downloads = 1
  Kills = 1
  IoErrors = 0
  Policies = {}
  Subscribes = {s1, s2}
  Deletes = {d1}
  ListenerOf <- OneListener
  ResourceOf <- DeletesIt
  NoOne = NoOne
  AtOnce = 1
  Errors = 0
INVARIANTS
  PromisedIsKept
PROPERTIES
  ShownIsRecorded
CHECK_DEADLOCK FALSE
