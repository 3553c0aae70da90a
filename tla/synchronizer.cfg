SPECIFICATION FairSpec
CONSTANTS
  Producers = {p1, p2}
  Consumers = {c1}
  BUFFSIZE = 2
  Incarnations = 2
  Values = 2
  Launch = "orderly"
  Interrupted = {p1, c1}
INVARIANTS TypeOK MutualExclusion SlotsAccounted
PROPERTIES ImplementsBuffers NobodyLeftBehind ItemsFlow
CHECK_DEADLOCK FALSE
