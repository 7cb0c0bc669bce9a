SPECIFICATION FairSpec
CONSTANTS
  Names <- MCNames
  Fold <- MCFold
  Buddies = {"a"}
  Groups = {"G", "H"}
  Aliases = {"x"}
  Private <- MCPrivate
  PermDenies = {1}
  Icons = {"c"}
  Orphans = "orphans"
  IconName = "1"
  IconBid = 99
  Starts <- MCStarts
  Foreign <- MCForeign
  Refusable = {"add", "mod", "del"}
  Splits = {1}
  MaxRefused = 1
  MaxTurns = 2
INVARIANTS
  TypeOK
  ExactUnlessDisturbed
  AckAwaited
  LocalWellFormed
  NothingUnsent
PROPERTIES
  Settles
CHECK_DEADLOCK FALSE
