CONSTANTS
  Values = {v1, v2, v3}
  Urls = {1, 2, 3}
  Priorities = {0, 30, 40}
  Durations = {1, 3}
  QuietTime = 5
  SinceCap = 6
SPECIFICATION MCSpec
INVARIANTS
  TimerTypeOK
  DebounceTypeOK
  QuietBeforeTick
  TableConsistent
  OneEntryPerUrl
  InsertKeepsTheRest
  BatchRemoveIsLoop
PROPERTIES
  TimerCoalesces
  SleepsForLastTimeout
  TickAfterQuiet
  DebounceCoalesces
  LastChangeDelivered
