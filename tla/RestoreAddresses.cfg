SPECIFICATION Spec
CONSTANTS
  p1 = p1
  p2 = p2
  p3 = p3
  c1 = c1
  c2 = c2
  c3 = c3
  c4 = c4
  a1 = a1
  a2 = a2
  Pods <- TwoPods
  Sandboxes <- TwoSandboxes
  PodOf <- TwoSandboxesPodOf
  Args <- MCArgs
  ArgsOf <- MCArgsOf
  Gateway = Gateway
  NoLabels = NoLabels
  BlockSize = 5
  IDSpace = 4
  DataPlanes = {"ebpf"}
  Faults = {"drain"}
  Stuck = {}
  MaxRestarts = 1
INVARIANTS RestoreKeepsAddresses
