SPECIFICATION Spec
CONSTANTS
  N = 2
  MsgqCap = 3
  Timing = "free"
  Workloads <- Degenerate
  SchedulerType = 2
  Quantum = 1
  RQSZ = 2
  MaxClk = 3
INVARIANTS TypeOK FinishAttributed OneChild StartNotBeforeArrival
CHECK_DEADLOCK FALSE
