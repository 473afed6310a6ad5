SPECIFICATION Spec
CONSTANTS
  Thread = {t1, t2}
  Client = {k1, k2}
  Own = {}
  SizeSpace = 4
  ReuseAt = 1
  MaxPending = 1
  MaxClear = 2
  MaxFail = 1
SYMMETRY Symmetry
INVARIANTS TypeOK FreshSurvives SizeCounts CollectorStarted
CHECK_DEADLOCK FALSE
