SPECIFICATION Spec
CONSTANTS
  None = None
  Requests = {r1, r2}
  Users = {u1, u2}
  Residents = {u2}
  Names = {n1, n2}
  MaxChanges = 1
SYMMETRY Symmetry
INVARIANTS
  TypeOK
  EnsuredMeansEquipped
  ReferencesExist
  SuccessIsWhole
  RemnantsHaveACause
  RefusalHasACause
  OneRegistrationPerEmail
CHECK_DEADLOCK FALSE
