SPECIFICATION FairSpec
CONSTANTS
  Device = {a}
  NoDevice = NoDevice
  Cmd = {1, 2}
  MaxConn = 2
  MaxThread = 2
  MaxReply = 2
  Coalesce = TRUE
  Careful = TRUE
INVARIANTS  OpenIsCurrent 
PROPERTIES AttemptEnds 
CHECK_DEADLOCK FALSE
