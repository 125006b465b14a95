SPECIFICATION Spec
CONSTANTS
  Identities = {1, 2}
  IsolationSpecs <- MCIsolationSpecs
  TenantSpecs <- MCTenantSpecs
  MonitoringPort = 9090
  MaxPolicies = 2
INVARIANTS MapRespectsTiers
CHECK_DEADLOCK FALSE
