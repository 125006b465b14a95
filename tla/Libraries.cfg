SPECIFICATION LibSpec
CONSTANTS
  n1 = n1
  n2 = n2
  d0 = d0
  d1 = d1
  d2 = d2
  d3 = d3
  d4 = d4
  i1 = i1
  i2 = i2
  Local = Local
  Remotes <- MCRemotes
  CIDRs <- MCCIDRs
  OwnerOf <- MCOwnerOf
  IPs <- MCIPs
  None = None
  BufSize = 2
  MaxRecords = 5
  MaxStarts = 2
INVARIANTS KnownNodesAreRouted NoStaleRoutes AcceptedIsAccountedFor OnlyRestartPanics
PROPERTIES AcceptedIsProcessed
CHECK_DEADLOCK FALSE
