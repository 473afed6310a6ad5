SPECIFICATION Spec
CONSTANTS
  r1 = r1
  r2 = r2
  r3 = r3
  w1 = w1
  Req = {r1, r2, r3}
  Timed = {}
  Large = {r3}
  IdSpace = 2
  MaxCalls = 3
  MaxConnects = 1
  Waiters = {w1}
  QuietReconnect = FALSE
  CallConnected = FALSE
  InitMayFail = FALSE
  ConnTimed = FALSE
CHECK_DEADLOCK FALSE
SYMMETRY ReqSymmetry
INVARIANTS
  TypeOK
  OwnResponse
  OneWriter
  NoLostWakeup
