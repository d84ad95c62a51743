SPECIFICATION Spec
CONSTANTS
  Desktops = {d1}
  OwnFlag = {}
  Panes = {p1, p2}
  Shapes = {s1}
  Sizes = {1, 2}
  UserPolicy = "latest"
  UserMouse = "off"
  UserZoomed = TRUE
  None = none
  MaxFailures = 0
  Events = {"claim", "hook"}
INVARIANT PolicyRestored
CHECK_DEADLOCK FALSE
