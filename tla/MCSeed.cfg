SPECIFICATION Spec
CONSTANTS
  None = None
  MaxRuns = 2
  MaxChanges = 1
INVARIANTS
  SeededIsWhole
PROPERTIES
  SeedCompletes
CHECK_DEADLOCK FALSE
