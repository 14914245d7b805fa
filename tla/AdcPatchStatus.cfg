SPECIFICATION Spec
CONSTANTS
  Networks = {ext}
  Floating = {}
  Deletes = {}
  Patches = {p1}
  OwnKey = FALSE
  Faults <- PortFault
  CanCrash = FALSE
  NoNet = NoNet
PROPERTY PatchKeepsStatus
CHECK_DEADLOCK FALSE
