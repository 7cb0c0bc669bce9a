SPECIFICATION Spec
CONSTANTS
  Names <- MCNames
  Fold <- MCFold
  Buddies = {"a", "b"}
  Groups = {"G", "H"}
  Aliases = {"x"}
  Private <- MCPrivate
  PermDenies = {1}
  Icons = {"c"}
  Orphans = "orphans"
  IconName = "1"
  IconBid = 99
  Starts <- MCStray
  Foreign = {}
  Refusable = {}
  Splits = {1}
  MaxRefused = 1
  MaxTurns = 0
INVARIANT
  NoOrphans
CHECK_DEADLOCK FALSE
