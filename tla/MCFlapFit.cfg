SPECIFICATION FairSpec
CONSTANTS
  HdrLen = 2
  BufSize = 6
  NPackets = 4
  PayLen <- MCExactFit
  Start <- MCExactFitStart
  Malformed = {}
  Redir = 1
  LoginLast = 1
INVARIANTS
  TypeOK
  Aligned
  OversizedNeverDelivered
PROPERTIES
  EventuallyDelivered
CHECK_DEADLOCK FALSE
