SPECIFICATION FairSpec
CONSTANTS
  Device = {a}
  NoDevice = NoDevice
  Cmd = {1, 2}
  MaxConn = 2
  MaxSent = 2
  MaxPending = 1
  MaxReplies = 1
  Coalesce = TRUE
INVARIANTS TypeOK CommandInOnePlace 
 
CHECK_DEADLOCK FALSE
