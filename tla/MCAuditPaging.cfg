SPECIFICATION Spec
CONSTANTS
  None = None
  Events = {e1, e2, e3}
  Tenants = {o1, o2}
  Reader = o1
  Limits = {1, 2}
  MaxTime = 2
INVARIANTS
  WalkShowsEachOnce
  WalkShowsThePast
PROPERTIES
  WalkEnds
CHECK_DEADLOCK FALSE
