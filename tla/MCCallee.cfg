SPECIFICATION DialledSpec
CONSTANTS
  Device = {a, b}
  NoDevice = NoDevice
  Cmd = {"request", "accept", "refuse", "hangup"}
  Caller = {a}
  Dialler = {}
  MaxConn = 1
  MaxThread = 1
  MaxPending = 1
  MaxStops = 1
  Coalesce = FALSE
  Paced = TRUE
  Lossy = FALSE
PROPERTY HangUpStopsVideo
CHECK_DEADLOCK FALSE
