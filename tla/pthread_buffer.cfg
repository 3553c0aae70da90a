SPECIFICATION FairSpec
CONSTANTS
  Producers = {p1, p2}
  Consumers = {c1, c2}
  BUF_SIZE = 2
  Rounds = 2
  NoThread = NoThread
INVARIANTS NoOverflow NoLostWakeup
PROPERTIES ImplementsBuffer EverythingConsumed
