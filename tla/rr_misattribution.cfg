SPECIFICATION Spec
CONSTANTS
  N = 3
  MsgqCap = 3
  Timing = "prompt"
  Workloads <- Tiny
  SchedulerType = 1
  Quantum = 1
  RQSZ = 3
  MaxClk = 8
INVARIANTS FinishAttributed
CHECK_DEADLOCK FALSE
