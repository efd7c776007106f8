SPECIFICATION Spec
CONSTANTS
  AddrBits = 5
  MaxBlock = 8
  MaxMask = 8
  MaxPort = 11
  AdbPort = 5
  Segments <- MCSegments
  Arguments <- MCArguments
  Edits <- MCEdits
  RangeEdits <- MCRangeEdits
  ThreadEdits = {0, 3, 9}
  Resolutions <- MCResolutions
  Rows <- MCRows
  LinkLocal <- MCLinkLocal
  HardMaxThreads = 4
  MaxArgs = 3
  MaxTouches = 2
INVARIANTS LastWordCounts PrefilledScan WorkExact
