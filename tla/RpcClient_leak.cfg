SPECIFICATION FairSpec
CONSTANTS
  r1 = r1
  r2 = r2
  r3 = r3
  w1 = w1
  Req = {r1}
  Timed = {}
  Large = {}
  IdSpace = 4
  MaxCalls = 0
  MaxConnects = 3
  Waiters = {w1}
  QuietReconnect = FALSE
  CallConnected = TRUE
  InitMayFail = TRUE
  ConnTimed = TRUE
CHECK_DEADLOCK FALSE
PROPERTIES
  ConnectReturns
