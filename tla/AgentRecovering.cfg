SPECIFICATION Spec
CONSTANTS
  Calls = {c1, c2}
  None = None
  MaxCrashes = 1
INVARIANTS
  NameIsNotBlocked
CHECK_DEADLOCK FALSE
