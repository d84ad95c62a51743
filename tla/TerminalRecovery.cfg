SPECIFICATION FairSpec
CONSTANTS
  Sockets = {c1, c2}
  Targets = {p1}
  Window = w
  Device = d
  NoDevice = nodevice
  None = none
  WindowOf <- OneWindow
  DeviceOf <- SameDevice
  GapMax = 1
  Events = {"drop", "exit", "fail", "output"}
INVARIANT NoSilentGap
PROPERTIES AbandonedIsReleased AttachSettles
CHECK_DEADLOCK FALSE
