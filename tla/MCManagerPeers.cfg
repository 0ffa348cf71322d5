CONSTANTS
  a = a
  b = b
  c = c
  h1 = h1
  h2 = h2
  Urls = {a, c}
  Priorities = {0, 30, 40}
  Ips = {h1, h2}
  Advertises <- MCOneEach
  BinaryCaches <- MCBinaryCaches
  LocalStrategy <- MCRemove
  BatchDelay = 1
  Durations = {1}
  RefreshTime = 1
  LagBound = 1
SPECIFICATION Spec
INVARIANTS
  TypeOK
  TableConsistent
  Ownership
  Provenance
  NoLostWakeup
PROPERTIES
  ConfiguredSurvive
  NetworkChangeForgetsPeers
  KeepsPeerList
