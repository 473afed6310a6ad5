SPECIFICATION Spec
CONSTANTS
  r1 = r1
  r2 = r2
  r3 = r3
  w1 = w1
  Req = {r1}
  Timed = {}
  Large = {}
  IdSpace = 4
  MaxCalls = 1
  MaxConnects = 2
  Waiters = {}
  QuietReconnect = FALSE
  CallConnected = TRUE
  InitMayFail = FALSE
  ConnTimed = FALSE
CHECK_DEADLOCK FALSE
INVARIANTS
  ConnectedStaysOpen
