SPECIFICATION FairSpec
CONSTANTS
  Commands = {c1, c2}
  Old = old
  None = none
  MaxKills = 1
INVARIANTS
  ServingIsFound
  MarkerIsPending
  ExitLeavesNoRecord
PROPERTY FailedStartEnds
CHECK_DEADLOCK FALSE
