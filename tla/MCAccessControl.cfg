SPECIFICATION Spec
CONSTANTS
  None = None
  Orgs = {o1, o2}
  Users = {u1}
  Tokens = {t1, t2}
  AccessTTL = 2
  MaxDelay = 1
INVARIANTS
  AuthorityIsBounded
PROPERTIES
  TakenRolesRunOut
CHECK_DEADLOCK FALSE
