SPECIFICATION Spec
CONSTANTS
  Requests <- MCRequests
  Cadence = 1
  LogMax = 3
  Refusals = TRUE
  MaxJobs = 3
INVARIANTS TypeOK StatusSound CancelSound ShownSound
PROPERTIES StopHeeded BusyEnds
CHECK_DEADLOCK FALSE
