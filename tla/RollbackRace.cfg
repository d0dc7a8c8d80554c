CONSTANTS
  Functions = {f1}
  Artifacts = {a1}
  Settings = {v1}
  Deployers = {d1, d2}
  Rollers = {r1}
  Archive = {}
  MaxTime = 3
  MaxDeletes = 1
  MaxRestores = 0
  MaxRollbacks = 1
  MaxRestarts = 0
  MaxSettings = 0
  MaxEvents = 2
  ClockMayGoBack = FALSE
  PersistMayFail = FALSE
  None = None
SPECIFICATION Spec
CHECK_DEADLOCK FALSE
INVARIANT PointersExist

