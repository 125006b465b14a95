SPECIFICATION IPAMSpec
CONSTANTS
  p1 = p1
  p2 = p2
  p3 = p3
  p4 = p4
  p5 = p5
  n1 = n1
  n2 = n2
  n3 = n3
  Keys <- MCKeys
  BlockSize = 6
  Nodes <- MCNodes
  TotalBlocks = 4
  BlockLen = 4
  BaseIP = 48
  Word = 64
SYMMETRY Symmetry
INVARIANTS UniqueIPs BitmapMatchesRecords RefusalMeansFull BlocksDisjoint BlockHasOneOwnerEver RefusalMeansAllGiven
PROPERTIES AddressIsSticky ImplementsPool BlocksAreSticky
