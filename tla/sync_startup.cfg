SPECIFICATION Spec
CONSTANTS
  Producers = {p1, p2}
  Consumers = {c1}
  BUFFSIZE = 2
  Incarnations = 1
  Values = 2
  Launch = "free"
  Interrupted = {}
INVARIANTS MutualExclusion
CHECK_DEADLOCK FALSE
