SPECIFICATION PortalSpec
CONSTANTS
  ann = ann  bob = bob  eve = eve  grp = grp
  admin = admin  member = member  q1 = q1
  Users = {ann, bob}
  Outsiders = {eve}
  Groups = {grp}
  Roles = {admin, member}
  AdminRoles = {admin}
  Requests = {q1, q2}
  Here = {q1}
  UserOf <- MCUserOf
  Forms <- MCForms
  Starts <- MCStarts
  None = None
  Off = Off
  Posts = {post1, post2}
  Projects = {p1, p2}
  Infos = {a1, a2}
  MaxId = 3
  MaxRows = 7
  Size = 2
  Threads = {th1, th2, th3}
  Args = {a1, a2}
  MaxCalls = 4
  Ids = {a1, a2}
  Ports = {a1, a2}
  Segments = {p1, p2}
  Names = {n1, n2}
  Apps = {a1, a2}
  Decls = {d1}
  Deployments = {y1, y2, y3}
  Adcs = {v1, v2, v3}
  MaxFips = 3
  Jobs = {post1, post2}
  Tries = 3
  MaxTokens = 3
  MaxValues = 4
  MaxLen = 3
  KeyLen = 1
  Limit = 14
  MaxBase = 15
  t1 = t1  t2 = t2  g1 = g1  g2 = g2
  Tenants = {t1, t2}
  Regions = {g1, g2}
  RegionsOf <- MCRegionsOf
  MaxLogins = 2
  Patches = {y1}
SYMMETRY Symmetry
INVARIANTS
  RoleInv TakesEffect StaysBetween KeepsMembers PartsTypeOK
  EditTakesEffect NotLostSilently LinksAreTrue NothingSkipped
  CalledOnce NothingKept SaidIsDone EveryRowAccounted NoConflict EditsMerge
  AddressesServe RecordedIsBound OutcomeFollowsTask AllAskedFor
  WholeOrNothing SessionCoheres DeviceFindable
PROPERTIES
  KeepsOwnAdmin SparesOthers UsersFipStays
CHECK_DEADLOCK FALSE
