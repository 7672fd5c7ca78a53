SPECIFICATION DialledSpec
CONSTANTS
  Device = {a, b}
  NoDevice = NoDevice
  Cmd = {"request", "accept", "refuse", "hangup"}
  Caller = {a}
  Dialler = {}
  MaxConn = 2
  MaxThread = 2
  MaxPending = 1
  MaxStops = 1
  Coalesce = TRUE
  Paced = FALSE
  Lossy = FALSE
INVARIANTS TypeOK CausalChain
CHECK_DEADLOCK FALSE
