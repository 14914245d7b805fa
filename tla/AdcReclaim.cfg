SPECIFICATION FairSpec
CONSTANTS
  Networks = {ext}
  Floating = {}
  Deletes = {d1, d2}
  Patches = {}
  OwnKey = FALSE
  Faults <- ServedFaults
  CanCrash = FALSE
  NoNet = NoNet
PROPERTY ReclaimCompletes
CHECK_DEADLOCK FALSE
