SPECIFICATION Spec
CONSTANTS
  t1 = t1
  t2 = t2
  n1 = n1
  n2 = n2
  p1 = p1
  x = x
  y = y
  Threads <- MCThreads
  Names <- MCNames
  Pods <- MCPods
  PodLabels <- MCPodLabels
  Labels <- MCLabels
  Specs <- MCSpecs
  AnyPeer = AnyPeer
  NoRule = NoRule
  NoPolicy = NoPolicy
  Absent = Absent
  NoThread = NoThread
  NoLabels = NoLabels
  IDSpace = 6
  MaxSteps = 3
  MaxVersion = 3
INVARIANTS NothingUnpublished PublishedMatchesStore
PROPERTIES ChangesAreAnnounced
CHECK_DEADLOCK FALSE
