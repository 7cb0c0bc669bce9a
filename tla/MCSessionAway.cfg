SPECIFICATION Spec
CONSTANTS
  Buddies = {"b1"}
  HasPassword = TRUE
  Statuses = {0, 5}
  SeqSpace = 2
  Conns = {1, 2}
  MaxNet = 1
INVARIANTS
  AwaySetsStatus
CHECK_DEADLOCK FALSE
