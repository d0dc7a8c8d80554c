CONSTANTS
  Main = main
  Others = {other}
  Contents = {1, 2}
  Polls = {q1, q2}
  MaxVersion = 3
  MaxChanges = 2
  MaxControlRestarts = 1
  MaxCrashes = 1
  None = None
  Partial = Partial
  NotModified = NotModified
  AuthRequests = {q1, q2}
  Orgs = {o1, o2}
  KeyProjects = {p1}
  NoProject = NoProject
  CacheTtl = 1
  MaxKeys = 2
  MaxRevocations = 1
  NumFns = 2
  MaxEdits = 1
  MaxOthers = 1
  MaxPushes = 2
  NoCommit = NoCommit
  LocalTree = LocalTree
SPECIFICATION MCSpec
CHECK_DEADLOCK FALSE
SYMMETRY MCSymmetry
INVARIANTS RuntimeSafe KeysSafe CliSafe
PROPERTIES KeepsServing
