SPECIFICATION Spec
CONSTANTS
  p1 = p1
  p2 = p2
  p3 = p3
  p4 = p4
  p5 = p5
  k3 = k3
  k1 = k1
  k2 = k2
  r1 = r1
  r2 = r2
  b1 = b1
  b2 = b2
  NoBody = NoBody
  Requests = {p1, p2, p3, p4, p5}
  Records = {r1, r2}
  Keys = {k1, k2, k3}
  Bodies = {b1, b2}
  KeyOf <- Reused
  RecOf <- TwoRecords
  BodyOf <- TwoBodies
  MaxTries = 2
  Workers = {w1, w2}
  Batch = 2
  MaxAttempts = 2
  MaxFaults = 2
CHECK_DEADLOCK FALSE
INVARIANTS
  AnswersAgree
  EffectOnce
  SendsAccounted
PROPERTIES
  Settles
