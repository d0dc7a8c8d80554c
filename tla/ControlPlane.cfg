CONSTANTS
  f1 = f1
  a1 = a1
  Functions = {f1}
  Artifacts = {a1}
  Settings = {v1}
  Deployers = {d1, d2}
  Rollers = {r1}
  Archive <- ActiveArchive
  MaxTime = 3
  MaxDeletes = 1
  MaxRestores = 1
  MaxRollbacks = 1
  MaxRestarts = 1
  MaxSettings = 1
  MaxEvents = 3
  ClockMayGoBack = TRUE
  PersistMayFail = TRUE
  None = None
  SnapFunctions <- MCFunctions
  SnapRevisions = {v1, v2}
  SnapSettings = {s1}
  Handlers = {r1, r2}
  MaxVersion = 5
  MaxChanges = 2
  MaxDrops = 1
  MaxSnapRestarts = 1
  NoSnapshot = NoSnapshot
  Revs = {v1}
  RevArtifacts = {a1, a2}
  Nothing = Nothing
  NumKeys = 2
  KvContents = {x, y}
  Small = {s1, s2}
  Large = {l1}
  MaxEvolutions = 3
SPECIFICATION MCSpec
CHECK_DEADLOCK FALSE
INVARIANTS SnapshotsFresh
PROPERTIES DeploymentSafe EventuallyDurable ImplementsSource BackupSafe
