SPECIFICATION FairSpec
CONSTANTS
  r1 = r1
  r2 = r2
  r3 = r3
  h1 = h1
  h2 = h2
  Replicas <- MCReplicas
  Nobody = Nobody
  Hosts <- TwoHosts
  HostOf <- Apart
  Nodes <- MCNodes
  TotalBlocks = 2
  BlockLen = 4
  BaseIP = 56
  Word = 64
  MaxStops = 3
INVARIANTS LeaderHoldsLock LeadersAgree
PROPERTIES AlwaysLedAgain
