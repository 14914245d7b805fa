SPECIFICATION Spec
CONSTANTS
  Networks = {mgmt, ext}
  Floating = {ext}
  Deletes = {d1}
  Patches = {p1}
  OwnKey = TRUE
  Faults <- AllFaults
  CanCrash = TRUE
  NoNet = NoNet
INVARIANTS InfraInv CalmInv
PROPERTY JobsAdvance
CHECK_DEADLOCK FALSE
