SPECIFICATION Spec
CONSTANTS
  Wishes <- MCWishes
  Buddies = {"b"}
  Email = {TRUE, FALSE}
  MaxActs = 2
  MaxFails = 1
  MaxConns = 6
INVARIANTS
  TypeOK
  WatchesLive
  OwnCookieFirst
  ConnectFindsConn
  FramesAwaitConnect
  NothingStranded
CHECK_DEADLOCK FALSE
