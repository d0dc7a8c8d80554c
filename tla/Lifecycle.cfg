CONSTANTS
  Workers = {w1, w2}
  MaxCalls = 5
  Servers = {s1}
  Supervisor = supervisor
  CloudMsgs = {m1, m2}
  Consumers = {w1, w2}
  MaxReceives = 2
  MaxLeases = 1
  MaxTries = 2
  Nobody = Nobody
  Callbacks = {b1, b2}
SPECIFICATION MCSpec
CHECK_DEADLOCK FALSE
INVARIANTS LoopsAccounted StopStops CleanMeansIdle CloudQueueSound LoginSound
PROPERTIES EverythingEnds
