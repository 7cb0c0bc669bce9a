SPECIFICATION FairSpec
CONSTANTS
  Buddies = {"b1", "b2"}
  HasPassword = TRUE
  Statuses = {0}
  SeqSpace = 3
  Conns = {1, 2}
  MaxNet = 1
INVARIANTS
  TypeOK
  WatchedWhileUp
  StaleUseNeedsFailure
  Announced
  OnlyAfterLogin
PROPERTIES
  SeqConsecutive
  EventuallyLoggedIn
CHECK_DEADLOCK FALSE
