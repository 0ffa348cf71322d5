CONSTANTS
  a = a
  b = b
  c = c
  h1 = h1
  h2 = h2
  Urls = {a}
  Priorities = {0}
  Ips = {h1}
  Advertises <- MCOneHost
  BinaryCaches <- MCNoCaches
  LocalStrategy <- MCRemove
  BatchDelay = 1
  Durations = {1}
  RefreshTime = 1
  LagBound = 0
SPECIFICATION FairSpec
PROPERTIES
  BatchLands
  KeepsAsking
