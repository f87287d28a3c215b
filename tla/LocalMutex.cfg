CONSTANTS
  t1 = t1
  t2 = t2
  t3 = t3
  Tasks = {t1, t2, t3}
  NoTask = NoTask
  Timeout = 2
  MaxTime = 4
SPECIFICATION Spec
INVARIANTS MutualExclusion QueueExact NoLostWakeup
PROPERTIES WaitersServed ImplementsNamedLock
