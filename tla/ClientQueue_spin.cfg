SPECIFICATION FairSpec
CONSTANTS
  Thread = {t1}
  Client = {k1, k2}
  Own = {k1}
  SizeSpace = 4
  ReuseAt = 1
  MaxPending = 1
  MaxClear = 1
  MaxFail = 0
CHECK_DEADLOCK FALSE
PROPERTIES CollectorRests
