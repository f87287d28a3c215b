CONSTANTS
  Workers = {w1, w2}
  Triggers = {t1, t2}
  Rare = {t2}
  TTL = 3
  Period = 3
  MaxAge = 1
  MaxFaults = 3
SPECIFICATION GSSpec
INVARIANTS
  LeaseExclusive
  OccurrenceOnce
PROPERTIES
  DueServed
