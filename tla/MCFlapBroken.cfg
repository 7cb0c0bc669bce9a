SPECIFICATION Spec
CONSTANTS
  HdrLen = 2
  BufSize = 6
  NPackets = 5
  PayLen <- MCOversized
  Start <- MCOversizedStart
  Malformed = {3}
  Redir = 1
  LoginLast = 2
INVARIANTS
  OutOfSyncOnlyIfMalformed
PROPERTIES
  ImplementsPacketStream
CHECK_DEADLOCK FALSE
