SPECIFICATION Spec
CONSTANTS
  None = None
  Orgs = {o1}
  Users = {u1}
  Requests = {r1, r2, r3}
  RefreshTTL = 1
SYMMETRY Symmetry
INVARIANT
  CompletedRotationLinked
CHECK_DEADLOCK FALSE
