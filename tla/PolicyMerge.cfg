SPECIFICATION Spec
CONSTANTS
  Identities = {1, 2}
  IsolationSpecs <- MCIsolationSpecs
  TenantSpecs <- MCTenantSpecs
  MonitoringPort = 9090
  MaxPolicies = 3
INVARIANTS MergeIgnoresOrder FilterKeepsVerdicts
CHECK_DEADLOCK FALSE
