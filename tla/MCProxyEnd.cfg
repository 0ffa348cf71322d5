CONSTANTS
  a = a
  c = c
  d = d
  r1 = r1
  r2 = r2
  Urls = {a, d}
  Priorities = {0, 40}
  Requests = {r1, r2}
  PriorityTimeout <- MCTimeouts
  DefaultTimeout = 2
  InitTable <- MCTwoBuckets
  LocalStrategy <- MCRemove
SPECIFICATION FairProxySpec
PROPERTY RequestsEnd
