\* Two panes; two sockets, so that one may linger while the next one opens.
SPECIFICATION FairSpec
CONSTANTS
  Panes = {p1, p2}
  Sockets = {s1, s2}
  None = None
  MaxFaults = 1
INVARIANTS OneConnection InputReachesItsPane
  ClosedStaysClosed StatusIsHonest
PROPERTY Connected
CHECK_DEADLOCK FALSE
