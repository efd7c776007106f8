SPECIFICATION Spec
CONSTANTS
  MaxItems = 3
  MaxThreads = 2
  HardMaxThreads = 2
  ProgressEvery = 2
  Configs <- FullConfigs
  Faults <- NoFaults
INVARIANTS
  TypeOK HitsMatchEvents ResultRanked StopFlagSound ScanComplete
  StopBound LateBound EventOrder ProgressSound SkipExplained
