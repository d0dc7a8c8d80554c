CONSTANTS
  Main = main
  Others = {}
  Contents = {1, 2}
  Polls = {q1, q2}
  MaxVersion = 4
  MaxChanges = 3
  MaxControlRestarts = 0
  MaxCrashes = 0
  None = None
  Partial = Partial
  NotModified = NotModified
SPECIFICATION Spec
PROPERTY NoDowngrade
