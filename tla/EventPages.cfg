SPECIFICATION FairSpec
CONSTANTS
  Sessions = {s1, s2}
  Agents = {s2}
  Contents = {0, 1}
  Streams = {c1, c2}
  Gone = gone
  None = none
  MaxViewers = 2
  MaxChanges = 2
  MaxTroubles = 2
INVARIANTS RefreshIsOwed OneStream
PROPERTY PagesConverge
CHECK_DEADLOCK FALSE
