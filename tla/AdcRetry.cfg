SPECIFICATION FairSpec
CONSTANTS
  Networks = {ext}
  Floating = {}
  Deletes = {d1, d2}
  Patches = {}
  OwnKey = FALSE
  Faults <- PortFault
  CanCrash = FALSE
  NoNet = NoNet
PROPERTY RetryReclaims
CHECK_DEADLOCK FALSE
