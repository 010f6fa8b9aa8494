SPECIFICATION FairSpec
CONSTANTS
  MAX_LINE = 3
  MAX_HISTORY = 2
  Vectors = {1, 2, 3}
  Drivers = {1, 2}
  QueueSize = 2
  BufSize = 2
  Workloads <- Mixes
INVARIANTS ScancodesInOrder KeyboardReturns SavedLine
PROPERTIES AsksEnd
CHECK_DEADLOCK FALSE
