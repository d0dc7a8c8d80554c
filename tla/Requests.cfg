CONSTANTS
  main = main
  other = other
  m1 = m1
  m2 = m2
  o1 = o1
  f = f
  g = g
  v1 = v1
  v2 = v2
  site = site
  Tiers <- MCTiers
  AnonymousKey = ip
  IdentityKey = identity
  ProjectKey = project
  Unit = 2
  Second = 2
  MaxIdle = 2
  Requests = {x1, x2}
  Literals = {"a", "b"}
  NoText = ""
  Named = ":"
  Asterisk = "*"
  RouteTables <- MCTables
  MaxSegments = 3
  MaxPatterns = 2
  Projects = {main, other}
  MainProject = main
  Owner <- MCOwner
  NoRoute = NoRoute
  NoSnapshot = NoSnapshot
  Empty = Empty
  RequestIds = {y1, y2}
  Handlers = {x1, x2}
  CallDepthMax = 2
  MaxChains = 2
  MaxArtifacts = 1
  MaxUpdates = 1
  Minute = 3
  LastMinute = 2
  LastDay = 2
  LastWeekday = 1
  Expressions <- MCExpressions
  MaxLate = 2
  ProcCallers = {x1, x2}
  PoolKeys = {y1, y2}
  Codes = {z1, z2}
  MaxIdleProcesses = 1
  MaxSpawns = 2
  Runs = {x1, x2}
  Bundles <- MCBundles
  MaxWarmInstances = 1
  MaxOps = 1
  GlobalNames = {"x"}
  Invocations = {x1, x2}
  LocalValues = {u}
  NoEntry = NoEntry
  NoWrite = NoWrite
  MaxWrites = 3
  V4Bits = 3
  V6Bits = 6
  MappedPrefix = 3
  Ranges4 <- MCRanges4
  Ranges6 <- MCRanges6
  Names <- MCNames
  AllowedHosts <- MCAllowed
  Connections = {x1, x2}
  MaxConnections = 1
  MaxRegistrations = 2
  DevFns = {y1, y2}
  DevRequests = {d1}
  Reloads = {x1, x2}
  MaxEdits = 2
  MaxPending = 2
  Unset = Unset
SPECIFICATION MCSpec
CHECK_DEADLOCK FALSE
SYMMETRY MCSymmetry
INVARIANTS GatewaySafe TriggersSound ProcessSafe EgressSafe DevSafe
PROPERTIES DispatchSafe LocalSandboxSafe
