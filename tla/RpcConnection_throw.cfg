SPECIFICATION Spec
CONSTANTS
  r1 = r1
  r2 = r2
  r3 = r3
  Req = {r1, r2}
  Coro = {}
  Callback = {r1}
  Throwing = {r1}
  Dropping = {}
  Copies = {1, 2}
  KeepAlive = TRUE
  CntSpace = 8
CHECK_DEADLOCK FALSE
INVARIANTS
  AnsweredOnce
