SPECIFICATION Spec
CONSTANTS
  None = None
  Orgs = {o1, o2}
  Names = {n1, n2}
  Existing = {p1}
  Requests = {r1, r2, r3}
SYMMETRY Symmetry
INVARIANTS
  TypeOK
  AnswersStayInTenant
  DeletionIsOnceAndFinal
  AnswersAreTrue
  CreationsAndDeletionsAreTraced
PROPERTIES
  TenantOwnsItsProjects
CHECK_DEADLOCK FALSE
