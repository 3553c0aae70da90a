SPECIFICATION InTurnSpec
CONSTANTS
  N = 3
  MsgqCap = 3
  Timing = "prompt"
  Workloads <- Small
  SchedulerType = 0
  Quantum = 2
  RQSZ = 3
  MaxClk = 12
INVARIANTS ShortestRuns TurnaroundIsWaitPlusRun BusyTicks WorkConserving OnlyRunningRuns
PROPERTIES ImplementsCPU EverythingEnds
