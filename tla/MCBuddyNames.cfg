SPECIFICATION Spec
CONSTANTS
  Uins <- MCUins
  Digits = {"1", "2"}
  Aliases <- MCAliases
  Fold <- MCFold
  Clip <- MCClip
  Modes = {1243}
  OFFLINE = 1243
  Reporters = {}
  Pairs <- MCShared
  Files <- MCSharedFiles
  MaxBuddies = 3
  MaxQueries = 0
INVARIANTS
  RoundTrip
  NothingForgotten
CHECK_DEADLOCK FALSE
