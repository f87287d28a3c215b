SPECIFICATION Spec
CONSTANTS
  NoNode = NoNode
  Nodes = {n1, n2}
  Forked = FALSE
  Period = 2
  MaxTime = 3
  MaxFaults = 1
  MaxReads = 1
CHECK_DEADLOCK FALSE
INVARIANTS OneScheduler NeverStopped OncePerLeader
PROPERTIES SchedulerRuns DueTaken
