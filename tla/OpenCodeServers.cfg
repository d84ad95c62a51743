\* Three calls of ensure(), one of a process that died before, two roots and
\* two ports; one more process is killed.
SPECIFICATION Spec
CONSTANTS
  Calls = {a, b, o}
  Old = {o}
  Roots = {r, s}
  Ports = {p, q}
  None = None
  Nobody = Nobody
  MaxCrashes = 1
INVARIANTS OneHolder LiveServersAreReferenced FilesAreReleased
PROPERTY DeadLocksGo
CHECK_DEADLOCK FALSE
