SPECIFICATION Spec
CONSTANTS
  None = None
  Orgs = {o1}
  Users = {u1, u2}
  Requests = {r1, r2}
SYMMETRY Symmetry
INVARIANT
  RoleIdNamesTheRole
CHECK_DEADLOCK FALSE
