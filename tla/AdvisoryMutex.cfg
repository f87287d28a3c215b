CONSTANTS
  c1 = c1
  c2 = c2
  c3 = c3
  c4 = c4
  c5 = c5
  t1 = t1
  t2 = t2
  t3 = t3
  a = a
  b = b
  x = x
  y = y
  i1 = i1
  i2 = i2
  i3 = i3
  NoTask = NoTask
  NoConn = NoConn
  Tasks = {t1, t2}
  Instances = {i1, i2}
  InstOf <- OwnInstances
  After <- NoContinuation
  InTx = {t1}
  Names = {a, b}
  Keys = {x, y}
  Key <- Distinct
  Conns = {c1, c2, c3, c4, c5}
  Bounded = TRUE
  MaxFaults = 1
SPECIFICATION SpecFirstOut
INVARIANTS TypeOK MutualExclusion HeldIsLocked ConnInOnePlace IdleOwnsReported
PROPERTIES AcquireEnds ImplementsNamedLock
CHECK_DEADLOCK FALSE
