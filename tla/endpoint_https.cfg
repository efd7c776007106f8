SPECIFICATION Spec
CONSTANTS
  Servers <- TlsServers
  Lengths <- ReadLengths
  MaxWaits = 40
INVARIANT TlsIsAdb
