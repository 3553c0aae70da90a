SPECIFICATION Spec
CONSTANTS
  N = 4
  MsgqCap = 4
  Timing = "prompt"
  Workloads <- PreemptedLate
  SchedulerType = 0
  Quantum = 2
  RQSZ = 4
  MaxClk = 14
INVARIANTS FinishAttributed
CHECK_DEADLOCK FALSE
