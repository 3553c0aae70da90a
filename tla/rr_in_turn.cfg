SPECIFICATION InTurnSpec
CONSTANTS
  N = 3
  MsgqCap = 3
  Timing = "prompt"
  Workloads <- Small
  SchedulerType = 1
  Quantum = 2
  RQSZ = 3
  MaxClk = 12
INVARIANTS QueuedHaveWork BoundedWait MemoryHeldWhileWorking
PROPERTIES ImplementsCPU EverythingEnds
