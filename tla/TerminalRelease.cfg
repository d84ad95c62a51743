SPECIFICATION Spec
CONSTANTS
  Sockets = {c1, c2}
  Targets = {p1, p2}
  Window = w
  Device = d
  NoDevice = nodevice
  None = none
  WindowOf <- OneWindow
  DeviceOf <- SameDevice
  GapMax = 0
  Events = {"claim", "detach", "drop", "exit", "fail", "takeover", "unhook"}
SYMMETRY Symmetry
INVARIANTS NothingIsLeftBehind IntentHonoured ParkedHandsBack ServedIsBound
PROPERTY LeaseSpec
CHECK_DEADLOCK FALSE
