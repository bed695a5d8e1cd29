SPECIFICATION Spec
CONSTANTS
  None = None
  Keys = {k1, k2}
  Invocations = {i1, i2}
  MaxAttempts = 2
  Window = 2
INVARIANTS
  BurstIsBounded
  RefusalIsDeserved
  OnlyReadyServersServe
PROPERTIES
  NoLockout
  InvocationsEnd
