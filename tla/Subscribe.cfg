SPECIFICATION FairSpec
CONSTANTS
  AEs = {a1, a2}
  Policies = {"acp_admin"}
  Subscribes = {s1, s2}
  Deletes = {d1}
  ListenerOf <- OwnListener
  ResourceOf <- FirstAe
  NoOne = NoOne
  AtOnce = 2
  Errors = 1
  Kills = 1
INVARIANTS
  TypeOK
  SuccessIsSubscribed
  ListedIsSubscribed
  DeletedIsGone
PROPERTIES
  EveryCallIsAnswered
CHECK_DEADLOCK FALSE
