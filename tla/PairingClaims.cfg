\* Two CLIs and two browsers; the daemon stops once.
SPECIFICATION FairSpec
CONSTANTS
  Clis = {c1, c2}
  Browsers = {b1, b2}
  Nobody = Nobody
  MaxStops = 1
INVARIANTS RegisteredIsConfirmed PendingIsOwned RejectedByItsOwner
  EndsAgree
PROPERTY ClaimReachesUser
CHECK_DEADLOCK FALSE
