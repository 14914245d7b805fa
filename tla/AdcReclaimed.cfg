SPECIFICATION Spec
CONSTANTS
  Networks = {ext}
  Floating = {}
  Deletes = {d1}
  Patches = {}
  OwnKey = FALSE
  Faults <- AllFaults
  CanCrash = FALSE
  NoNet = NoNet
INVARIANT ReclaimedIsClean
CHECK_DEADLOCK FALSE
