SPECIFICATION Spec
CONSTANTS
  r1 = r1
  r2 = r2
  primary = primary
  worker = worker
  NoRow = NoRow
  Runs = {r1, r2}
  Program <- Unattended
  Procs = {primary, worker}
  Primary = primary
  RequestProcs = {primary, worker}
  Slots = {c1}
  SchedSlot = sched
  Users = {TRUE}
  TriggerRuns = {r2}
  LateAnswers = FALSE
  CanDelete = TRUE
  MaxCrashes = 1
CHECK_DEADLOCK FALSE
INVARIANTS
  TypeOK
  UntilReached
  SingleExecutor
PROPERTIES
  EndIsFinal
  ScheduledResumes
