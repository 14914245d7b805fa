SPECIFICATION Spec
CONSTANTS
  Networks = {mgmt, ext}
  Floating = {ext}
  Deletes = {d1, d2}
  Patches = {}
  OwnKey = FALSE
  Faults <- AllFaults
  CanCrash = TRUE
  NoNet = NoNet
SYMMETRY DeleteSymmetry
INVARIANTS TypeOK NothingForgotten NoInfraLeft NothingLeft ActiveIsReal
PROPERTY KeepsLedger
CHECK_DEADLOCK FALSE
