SPECIFICATION Spec
CONSTANTS
  p1 = p1
  p2 = p2
  p3 = p3
  p4 = p4
  p5 = p5
  k3 = k3
  k1 = k1
  k2 = k2
  r1 = r1
  r2 = r2
  b1 = b1
  b2 = b2
  NoBody = NoBody
  Requests = {p1, p2}
  Records = {r1}
  Keys = {k1, k2}
  Bodies = {b1}
  KeyOf <- OwnKeys
  RecOf <- OneRecord
  BodyOf <- OneBody
  MaxTries = 2
  Workers = {w1}
  Batch = 1
  MaxAttempts = 2
  MaxFaults = 0
CHECK_DEADLOCK FALSE
INVARIANTS
  ConflictMeansReuse
