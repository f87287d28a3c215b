CONSTANTS
  Main = {m1}
  Waiters = {w1}
  MaxWrites = 2
  None = None
SPECIFICATION Spec
INVARIANTS
  WritesFollow
  CallbacksFollow
CHECK_DEADLOCK FALSE
