SPECIFICATION Spec
CONSTANTS
  p1 = p1
  p2 = p2
  p3 = p3
  c1 = c1
  c2 = c2
  c3 = c3
  c4 = c4
  a1 = a1
  a2 = a2
  Pods <- ThreePods
  Sandboxes <- FourSandboxes
  PodOf <- FourSandboxesPodOf
  Args <- MCArgs
  ArgsOf <- MCArgsOf
  Gateway = Gateway
  NoLabels = NoLabels
  BlockSize = 5
  IDSpace = 8
  DataPlanes = {"ebpf", "iptables"}
  Faults = {"netns", "dataplane", "save", "lost"}
  Stuck <- OneStuck
  MaxRestarts = 0
SYMMETRY Symmetry
INVARIANTS UniquePodIPs AddressesMatchEndpoints IdentitiesMatchEndpoints DataPlaneMatchesEndpoints UpMeansConnected NoInterfaceLeftBehind
