SPECIFICATION InTurnSpec
CONSTANTS
  N = 3
  MsgqCap = 3
  Timing = "prompt"
  Workloads <- Prioritised
  SchedulerType = 2
  Quantum = 2
  RQSZ = 3
  MaxClk = 12
INVARIANTS NoFault SentOnTime
PROPERTIES MostUrgentRunsToCompletion
