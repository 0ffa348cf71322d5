CONSTANTS
  a = a
  h1 = h1
  me = me
  Urls = {a}
  Priorities = {0}
  Ips = {h1, me}
  OwnIps = {me}
  Advertises <- MCOneHost
  BinaryCaches <- MCNoCaches
  LocalStrategy <- MCRemove
  BatchDelay = 1
  Durations = {1}
  RefreshTime = 1
  LagBound = 0
  Outside <- MCAny
SPECIFICATION ProgramSpec
INVARIANT ProgramTypeOK
PROPERTIES
  ManagerSpec
  CircularWaitIsFinal
  GoodbyeAfterDrain
CHECK_DEADLOCK FALSE
