SPECIFICATION Spec
CONSTANTS
  Projects = {p1, p2}
  Infos = {i1, i2}
  Requests = {q1, q2}
  MaxId = 3
  None = None
INVARIANT NoneSelectedIsPublic
CHECK_DEADLOCK FALSE
