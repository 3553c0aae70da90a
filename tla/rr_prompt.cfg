SPECIFICATION Spec
CONSTANTS
  N = 4
  MsgqCap = 3
  Timing = "prompt"
  Workloads <- FourthLate
  SchedulerType = 1
  Quantum = 1
  RQSZ = 4
  MaxClk = 8
INVARIANTS NoJobOutlivesScheduler NothingLost NprocExact
CHECK_DEADLOCK FALSE
