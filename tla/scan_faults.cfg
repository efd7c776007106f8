SPECIFICATION Spec
CONSTANTS
  MaxItems = 2
  MaxThreads = 2
  HardMaxThreads = 2
  ProgressEvery = 2
  Configs <- LiveConfigs
  Faults <- AllFaults
INVARIANTS HitsMatchEvents StopFlagSound ScanComplete
PROPERTIES RunReturns ImplementsContract ImplementsStream
