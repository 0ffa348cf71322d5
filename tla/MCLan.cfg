CONSTANTS
  n1 = n1
  n2 = n2
  other = other
  k1 = k1
  k2 = k2
  u1 = u1
  Nodes = {n1, n2}
  Addresses = {n1, n2, other}
  Keys = {k1, k2}
  LocalCaches <- MCCaches
  SizeOf <- MCSizeOf
  MaxTimeDiff = 1
  Settings <- MCSettings
  UrlAt <- MCUrlAt
  Bounds <- MCBounds
SPECIFICATION LanSpec
INVARIANTS
  LanTypeOK
  Authentic
  NoGhosts
  TimeWindow
CHECK_DEADLOCK FALSE
