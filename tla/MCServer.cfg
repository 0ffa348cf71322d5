CONSTANTS
  a = a
  c = c
  h1 = h1
  Urls = {a, c}
  Priorities = {0, 40}
  Ips = {h1}
  Advertises <- MCOneHost
  BinaryCaches <- MCOneCache
  LocalStrategy <- MCRemove
  BatchDelay = 1
  Durations = {1}
  RefreshTime = 1
  LagBound = 0
  Requests = {1}
  PriorityTimeout <- MCTimeouts
  DefaultTimeout = 1
SPECIFICATION ServerSpec
PROPERTIES
  ManagerSpec
  RequestsSpec
