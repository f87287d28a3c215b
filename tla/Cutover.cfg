CONSTANTS
  Units = {u1, u2, u3, u4, u5}
  Switchers = {s1}
SPECIFICATION Spec
INVARIANTS
  SingleWriter
  OpenAgrees
PROPERTIES
  SwitchReturns
  ImplementsRouteOwner
