CONSTANTS
  Messages = {m1, mBig}
  Oversize = {mBig}
  Delays <- MCDelays
  MaxDelay = 1
  VisibilityTimeout = 1
  MaxReceives = 2
  Horizon = 0
  Supervised = {s1, s2}
  Consumers = {c1}
  ConsumerMaxReceives = 2
  DlqProviders = {"none", "store", "failing", "deadLetter"}
  MaxCrashes = 1
  NoMessage = NoMessage
SPECIFICATION FairSpec
INVARIANTS TypeOK NoMessageLost DeliveriesSound ConsumersDeadLetterFailures
PROPERTIES DlqIsFinal Settles
