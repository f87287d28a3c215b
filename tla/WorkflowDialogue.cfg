SPECIFICATION Spec
CONSTANTS
  r1 = r1
  r2 = r2
  primary = primary
  worker = worker
  NoRow = NoRow
  Runs = {r1}
  Program <- Dialogue
  Procs = {primary, worker}
  Primary = primary
  RequestProcs = {worker}
  Slots = {c1}
  SchedSlot = sched
  Users = {TRUE}
  TriggerRuns = {}
  LateAnswers = FALSE
  CanDelete = TRUE
  MaxCrashes = 1
CHECK_DEADLOCK FALSE
INVARIANTS
  FormsAnswered
  AtMostOnce
PROPERTIES
  AnswersTaken
