SPECIFICATION Spec
CONSTANTS
  NReqs = 3
  Anonymous = {1}
  Settings <- MCSettings
  HasUser = TRUE
  MAX_DNS_CHILDREN = 2
INVARIANTS
  TypeOK
  WaitsForOneThing
  ToldOnce
  NoSocketLost
  CleanHandover
  QueueServed
CHECK_DEADLOCK FALSE
