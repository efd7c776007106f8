SPECIFICATION Spec
CONSTANTS
  Servers <- AllServers
  Lengths <- ReadLengths
  MaxWaits = 40
INVARIANTS ReachableReported SteadyFound WaitsBounded
