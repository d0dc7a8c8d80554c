CONSTANTS
  Main = main
  Others = {}
  Contents = {1, 2}
  Polls = {q1, q2}
  MaxVersion = 3
  MaxChanges = 2
  MaxControlRestarts = 0
  MaxCrashes = 0
  None = None
  Partial = Partial
  NotModified = NotModified
  Callers = {c1, c2}
  FailureThreshold = 2
  HalfOpenSuccessThreshold = 2
  Cooldown = 1
  MaxKvErrors = 1
  MaxFailures = 3
  MaxResets = 1
  NoChange = NoChange
  Wrappers = {c1}
  MaxAttempts = 3
  BaseSleep = 1
  SleepCap = 1
SPECIFICATION MCSpec
INVARIANTS BreakerSafe RetriesSafe
PROPERTIES Converges CallsRecover
