SPECIFICATION FairSpec
CONSTANTS
  Device = {a, b}
  NoDevice = NoDevice
  Cmd = {"request", "accept", "refuse", "hangup"}
  Caller = {a}
  Dialler = {a}
  MaxConn = 1
  MaxThread = 1
  MaxPending = 1
  MaxStops = 2
  Coalesce = FALSE
  Paced = TRUE
  Lossy = TRUE
PROPERTIES  AnswerStartsCaller  
CHECK_DEADLOCK FALSE
