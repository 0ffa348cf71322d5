CONSTANTS
  a = a
  c = c
  d = d
  r1 = r1
  r2 = r2
  Urls = {a, c, d}
  Priorities = {0, 40}
  Requests = {r1, r2}
  PriorityTimeout <- MCTimeouts
  DefaultTimeout = 2
  InitTable <- MCTable
  LocalStrategy <- MCRemove
SYMMETRY MCSymmetry
SPECIFICATION ProxySpec
INVARIANTS
  ProxyTypeOK
  LateIsSilent
PROPERTY HitIsBest
