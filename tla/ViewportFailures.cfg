SPECIFICATION Spec
CONSTANTS
  Desktops = {d1}
  OwnFlag = {}
  Panes = {p1, p2}
  Shapes = {s1}
  Sizes = {1, 2}
  UserPolicy = "largest"
  UserMouse = "off"
  UserZoomed = FALSE
  None = none
  MaxFailures = 1
  Events = {"claim", "close", "dispose", "hook", "move"}
INVARIANT TypeOK
PROPERTY LeaseSpec
CHECK_DEADLOCK FALSE
