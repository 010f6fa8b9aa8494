SPECIFICATION DesktopFairSpec
CONSTANTS
  Clients = {1, 2}
  MAX_WINDOWS = 2
  Capacity = 1
  TagSpan = 8
  Sessions <- Demo
PROPERTIES DamagePainted
CHECK_DEADLOCK FALSE
