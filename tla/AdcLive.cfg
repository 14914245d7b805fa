SPECIFICATION FairSpec
CONSTANTS
  Networks = {ext}
  Floating = {}
  Deletes = {d1, d2}
  Patches = {}
  OwnKey = FALSE
  Faults <- StageFaults
  CanCrash = FALSE
  NoNet = NoNet
INVARIANT Attended
PROPERTY Settles
CHECK_DEADLOCK FALSE
