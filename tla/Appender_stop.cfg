SPECIFICATION AppenderSpec
CONSTANTS
  Logger = {l1}
  Records = 2
  MaxSize = 0
  MaxFiles = 2
CHECK_DEADLOCK FALSE
INVARIANTS
  AllWritten
