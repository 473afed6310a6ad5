SPECIFICATION FairSpec
CONSTANTS
  r1 = r1
  r2 = r2
  r3 = r3
  Req = {r1, r2, r3}
  Coro = {r1}
  Callback = {r2}
  Throwing = {}
  Dropping = {r2}
  Copies = {1, 2}
  KeepAlive = TRUE
  CntSpace = 8
CHECK_DEADLOCK FALSE
INVARIANTS
  TypeOK
  QueueServed
  CountExact
  TimerOnlyWhenIdle
  AnswersOwnRequest
  AnsweredOnce
PROPERTIES
  SilentClientClosed
