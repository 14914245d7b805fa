SPECIFICATION Spec
CONSTANTS
  Apps = {x1, x2}
  Decls = {d1}
  Requests = {y1, y2}
  None = None
INVARIANT DeploySaysTrue
CHECK_DEADLOCK FALSE
