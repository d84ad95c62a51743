SPECIFICATION FairSpec
CONSTANTS
  Desktops = {d1}
  OwnFlag = {}
  Panes = {p1, p2}
  Shapes = {s1, s2}
  Sizes = {1, 2}
  UserPolicy = "latest"
  UserMouse = "off"
  UserZoomed = TRUE
  None = none
  MaxFailures = 0
  Events = {"claim", "focus", "hook", "reshape", "resize"}
INVARIANTS HandedBack OwnerSized
PROPERTIES DesktopLayoutStays DesktopFollowed
CHECK_DEADLOCK FALSE
