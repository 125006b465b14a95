----------------------------- MODULE MCPolicyMap -----------------------------
(* Up to three policies out of isolation, platform and two tenants' rules,  *)
(* with protocols in both cases and with no ports at all.                   *)
EXTENDS PolicyMap

Port(proto) == <<[proto |-> proto, port |-> 53]>>
Monitoring == [proto |-> "TCP", port |-> MonitoringPort]

MCIsolationSpecs ==
  [name : {1, 2}, ports : {<<>>, Port("ANY"), Port("TCP"), Port("tcp"), <<Monitoring>>},
   action : {"allow", "deny"}]

MCTenantSpecs ==
  [name : {1, 2}, dir : {"ingress", "egress"}, pods : {<<2, 1>>},
   peers : {<<>>, <<IPBlock>>, <<IPBlock, 2>>}, ports : {<<>>, Port("tcp"), Port("TCP") \o Port("udp")}]
==============================================================================
