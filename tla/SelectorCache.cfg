SPECIFICATION Spec
CONSTANTS
  t1 = t1
  t2 = t2
  p1 = p1
  p2 = p2
  x = x
  y = y
  Threads <- MCThreads
  Pods <- MCPods
  LabelSets <- MCLabelSets
  Selectors <- MCSelectors
  Absent = Absent
  NotCached = NotCached
SYMMETRY Symmetry
INVARIANTS CacheCoherent NoGhostPods NoPodMissed
