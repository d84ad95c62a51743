SPECIFICATION Spec
SYMMETRY Symmetry
CONSTANTS
  Calls = {c1, c2, c3}
  None = None
  MaxCrashes = 1
INVARIANTS
  RunIsUndisturbed
  PidIsOfExecution
  RunFinalizedAlone
  NameIsNotBlockedByFailures
  PreparationKeepsItsRow
CHECK_DEADLOCK FALSE
