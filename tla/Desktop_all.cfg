SPECIFICATION DesktopFairSpec
CONSTANTS
  Clients = {1, 2, 3}
  MAX_WINDOWS = 2
  Capacity = 1
  TagSpan = 8
  Sessions <- Mixes
INVARIANTS FocusIsTop
 
CHECK_DEADLOCK FALSE
