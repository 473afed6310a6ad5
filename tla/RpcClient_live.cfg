SPECIFICATION FairSpec
CONSTANTS
  r1 = r1
  r2 = r2
  r3 = r3
  w1 = w1
  Req = {r1, r2}
  Timed = {r1}
  Large = {}
  IdSpace = 4
  MaxCalls = 2
  MaxConnects = 2
  Waiters = {}
  QuietReconnect = TRUE
  CallConnected = TRUE
  InitMayFail = TRUE
  ConnTimed = TRUE
CHECK_DEADLOCK FALSE
INVARIANTS
  ConnectedStaysOpen
  SingleReceiver
PROPERTIES
  TimedCallReturns
