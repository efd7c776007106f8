SPECIFICATION Spec
CONSTANTS
  phone = phone
  old = old
  phoneHost = phoneHost
  oldHost = oldHost
  v4 = v4
  v6 = v6
  linkLocal = linkLocal
  Instances <- MCInstances
  Hosts <- MCHosts
  Ports = {1, 2}
  IPs = {v4, v6, linkLocal}
  AddrPriority <- MCPriority
  Packets <- MCPackets
  MaxPackets = 4
INVARIANTS TypeOK Complete Faithful NoDuplicates
PROPERTY DiscoverReturns
