CONSTANTS
  DevFns = {f1}
  DevRequests = {d1}
  Reloads = {q1}
  MaxEdits = 2
  MaxPending = 2
  Unset = Unset
SPECIFICATION DevSpec
CHECK_DEADLOCK FALSE
INVARIANT LoserNeverPoisons
