SPECIFICATION Spec
CONSTANTS
  Uins <- MCUins
  Digits <- MCUins
  Aliases <- MCAliases
  Fold <- MCFold
  Clip <- MCClip
  Modes = {19, 256, 1243}
  OFFLINE = 1243
  Reporters = {"1001", "1002"}
  Pairs <- MCPairs
  Files <- MCFiles
  Numerals <- MCNumerals
  Number <- MCNumber
  MaxBuddies = 2
  MaxQueries = 0
INVARIANTS
  TypeOK
  IpOfItsOwner
  ToldTheStoredMode
  WhoisListsEveryone
  
CHECK_DEADLOCK FALSE
