SPECIFICATION Spec
CONSTANTS
  Machines <- BusyMachines
  WorkItems <- MCWork
  ThreadCounts = {0, 1, 2000, 2001, 100000}
  StackSizes = {0, 8, 32}
  HardMaxThreads = 65535
  ManyThreads = 2000
  MaxCalls = 0
INVARIANT MemoryRespected
