SPECIFICATION Spec
CONSTANTS
  c1 = c1
  c2 = c2
  c3 = c3
  la = la
  lb = lb
  n1 = n1
  Clients <- MCClients
  Labels <- MCLabels
  Nodes <- MCNodes
  NoLabels = NoLabels
  IDSpace = 8
  MaxNextID = 5
  MaxTicks = 2
SYMMETRY Symmetry
INVARIANTS HeldIdentityIsLive RefCountIsExact DoomedStaysDead
PROPERTIES IDNeverRelabelled
