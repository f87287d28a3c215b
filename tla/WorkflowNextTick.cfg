SPECIFICATION Spec
CONSTANTS
  r1 = r1
  r2 = r2
  primary = primary
  worker = worker
  NoRow = NoRow
  Runs = {r1}
  Program <- NextTick
  Procs = {primary}
  Primary = primary
  RequestProcs = {primary}
  Slots = {c1}
  SchedSlot = sched
  Users = {TRUE}
  TriggerRuns = {}
  LateAnswers = FALSE
  CanDelete = FALSE
  MaxCrashes = 0
CHECK_DEADLOCK FALSE
INVARIANTS
  StepsRun
