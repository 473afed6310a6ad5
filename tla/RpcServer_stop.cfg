SPECIFICATION FairSpec
CONSTANTS
  k1 = k1
  k2 = k2
  t1 = t1
  t2 = t2
  Acceptors = 2
  Contexts = 2
  Conn = {k1, k2}
  Stopper = {t1, t2}
  ListenMayFail = TRUE
  Reconsider = TRUE
CHECK_DEADLOCK FALSE
INVARIANTS
  TypeOK
  SweptAll
PROPERTIES
  StopReturns
  ImplementsLifecycle
