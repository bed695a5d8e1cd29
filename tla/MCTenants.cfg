SPECIFICATION Spec
CONSTANTS
  None = None
  Orgs = {o1, o2}
  Users = {u1}
  Requests = {r1, r2}
  RefreshTTL = 1
SYMMETRY Symmetry
INVARIANTS
  RotationKeepsPrincipal
  ClaimsAreCurrent
PROPERTIES
  TokenSpec
CHECK_DEADLOCK FALSE
