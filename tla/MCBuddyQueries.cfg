SPECIFICATION Spec
CONSTANTS
  Uins <- MCFewUins
  Digits = {"1", "2"}
  Aliases <- MCFewAliases
  Fold <- MCFewFold
  Clip <- MCFewClip
  Modes = {1243}
  OFFLINE = 1243
  Reporters = {"1"}
  Pairs <- MCFewPairs
  Files <- MCFewFiles
  MaxBuddies = 2
  MaxQueries = 2
INVARIANTS
  NeverMisdelivered
  TopicNamesPeer
CHECK_DEADLOCK FALSE
