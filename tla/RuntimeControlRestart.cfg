CONSTANTS
  Main = main
  Others = {}
  Contents = {1, 2}
  Polls = {q1, q2}
  MaxVersion = 4
  MaxChanges = 2
  MaxControlRestarts = 1
  MaxCrashes = 0
  None = None
  Partial = Partial
  NotModified = NotModified
SPECIFICATION FairSpec
PROPERTY Converges
