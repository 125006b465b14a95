------------------------------ MODULE PolicyMap ------------------------------
(***************************************************************************)
(* From policies to verdicts: CompilePolicy, CompileNodeIsolationPolicy,   *)
(* MergeAndPrioritize and FilterRulesForNode (pkg/policy/compiler.go),     *)
(* GenerateRules (platform_rules.go), CompileRulesToMapEntries             *)
(* (ebpf_writer.go) and the lookup of handle_pkt (ebpf/src/cni.c).         *)
(* Selectors are already resolved to identities; a policy's name is its    *)
(* rank in the order of names.                                             *)
(***************************************************************************)
EXTENDS Integers, Sequences, SequencesExt, FiniteSets

CONSTANTS Identities,        \* identities of pods, without 0
          IsolationSpecs,    \* [name, ports, action]
          TenantSpecs,       \* [name, dir, pods, peers, ports]: one rule each
          MonitoringPort,
          MaxPolicies        \* bound on the length of policies

ASSUME IdentitiesAssumption == Identities \subseteq Nat \ {0}
ASSUME MaxPoliciesAssumption == MaxPolicies \in Nat

VARIABLE policies            \* compiled policies, as passed to the merge

TierNodeIsolation == 0
TierPlatformMandated == 1
TierTenant == 2

Rule(src, dst, port, verdict, name, tier) ==
  [src |-> src, dst |-> dst, proto |-> port.proto, port |-> port.port,
   verdict |-> verdict, name |-> name, tier |-> tier]

PortsOrAny(ports) == IF ports = <<>> THEN <<[proto |-> "ANY", port |-> 0]>> ELSE ports

IPBlock == -1                \* a peer given by an address range

\* resolvePeers: no peers at all are identity 0, the wildcard; address ranges
\* are skipped, so that a rule with nothing else has no peers and no effect.
PeersOrAny(peers) ==
  IF peers = <<>> THEN <<0>> ELSE SelectSeq(peers, LAMBDA p : p # IPBlock)

\* The loops over pods, peers and ports of an ingress or egress rule.
CompilePolicy(spec) ==
  LET peers == PeersOrAny(spec.peers)
      ports == PortsOrAny(spec.ports)
      One(pod, peer, port) ==
        IF spec.dir = "ingress" THEN Rule(peer, pod, port, "allow", spec.name, TierTenant)
                                ELSE Rule(pod, peer, port, "allow", spec.name, TierTenant)
  IN  FlattenSeq([i \in DOMAIN spec.pods |->
        FlattenSeq([j \in DOMAIN peers |->
          [k \in DOMAIN ports |-> One(spec.pods[i], peers[j], ports[k])]])])

CompileNodeIsolationPolicy(spec) ==
  LET ports == PortsOrAny(spec.ports) IN
  [k \in DOMAIN ports |-> Rule(0, 0, ports[k], spec.action, spec.name, TierNodeIsolation)]

GenerateRules ==
  LET Platform(proto, port, name) ==
        Rule(0, 0, [proto |-> proto, port |-> port], "allow", name, TierPlatformMandated)
  IN  <<Platform("UDP", 53, 2), Platform("TCP", 53, 1), Platform("TCP", MonitoringPort, 3)>>

-----------------------------------------------------------------------------
(* MergeAndPrioritize.                                                     *)

SpecificityScore(r) == Cardinality({f \in {"src", "dst", "port"} : r[f] # 0})

\* Bug: the names of policies do not decide.
Before_NoName(r, s) ==
  \/ r.tier < s.tier
  \/ r.tier = s.tier /\ SpecificityScore(r) > SpecificityScore(s)

\* less of sort.SliceStable.
Before(r, s) ==
  \/ r.tier < s.tier
  \/ /\ r.tier = s.tier
     /\ \/ SpecificityScore(r) > SpecificityScore(s)
        \/ SpecificityScore(r) = SpecificityScore(s) /\ r.name < s.name

\* Stable: a rule goes behind the last one it does not precede.
SortRules(rules) ==
  FoldLeft(LAMBDA sorted, r :
             InsertAt(sorted, SelectLastInSeq(sorted, LAMBDA s : ~Before(r, s)) + 1, r),
           <<>>, rules)

RuleKey(r) == <<r.src, r.dst, r.proto, r.port>>

\* The first rule of each key is kept.
Deduplicate(rules) ==
  FoldLeft(LAMBDA kept, r : IF \E i \in DOMAIN kept : RuleKey(kept[i]) = RuleKey(r)
                            THEN kept ELSE Append(kept, r),
           <<>>, rules)

MergeAndPrioritize(compiled) == Deduplicate(SortRules(FlattenSeq(compiled)))

\* Bug: rules are looked for at their destination only.
FilterRulesForNode_DstOnly(rules, ids) ==
  SelectSeq(rules, LAMBDA r : r.dst = 0 \/ r.dst \in ids)

FilterRulesForNode(rules, ids) ==
  SelectSeq(rules, LAMBDA r : r.src = 0 \/ r.dst = 0 \/ r.src \in ids \/ r.dst \in ids)

-----------------------------------------------------------------------------
(* The data plane's map.                                                   *)

\* The switch knows lower case names only.
ProtoNumber(proto) ==
  CASE proto = "tcp" -> 6 [] proto = "udp" -> 17 [] proto = "icmp" -> 1 [] OTHER -> 0

MapKey(r) == <<r.src, r.dst, ProtoNumber(r.proto), r.port % 65536>>

\* Rules are written in order, so the last one of a key stays.
CompileRulesToMapEntries(rules) ==
  [k \in {MapKey(rules[i]) : i \in DOMAIN rules} |->
     rules[SelectLastInSeq(rules, LAMBDA r : MapKey(r) = k)].verdict]

\* handle_pkt: one exact lookup, else allow; the flow event says which.
HandlePkt(entries, pkt) ==
  IF pkt \in DOMAIN entries THEN [verdict |-> entries[pkt], policyMatch |-> TRUE]
                            ELSE [verdict |-> "allow", policyMatch |-> FALSE]

\* Source and destination identity, protocol and port of an IP packet, as
\* handle_pkt reads them: only TCP and UDP have a port.
Packets ==
  {<<src, dst>> \o l4 : src \in Identities \cup {0}, dst \in Identities \cup {0},
                       l4 \in ({6, 17} \X {53, MonitoringPort}) \cup ({0, 1} \X {0})}

-----------------------------------------------------------------------------
(* Policies are added in any order.                                        *)

Init == policies = <<>>

AddTo(compiled) == Len(policies) < MaxPolicies /\ policies' = Append(policies, compiled)

AddTenant(spec) == AddTo(CompilePolicy(spec))

\* A NodeIsolationPolicy has no namespace: there is one of a name.
AddIsolation(spec) ==
  /\ \A r \in ToSet(FlattenSeq(policies)) : r.tier = TierNodeIsolation => r.name # spec.name
  /\ AddTo(CompileNodeIsolationPolicy(spec))

AddPlatform == AddTo(GenerateRules)

Next ==
  \/ \E spec \in TenantSpecs : AddTenant(spec)
  \/ \E spec \in IsolationSpecs : AddIsolation(spec)
  \/ AddPlatform

Spec == Init /\ [][Next]_policies

-----------------------------------------------------------------------------
(* Properties.                                                             *)

Merged == MergeAndPrioritize(policies)

\* cni-implementation-tasks.md: "NodeIsolationPolicy > platform-mandated > tenant
\* policy".  An entry of the policy map has the verdict of a rule that no rule of a
\* higher tier contradicts for the same key of the map.
MapRespectsTiers ==
  LET in == ToSet(FlattenSeq(policies))
      entries == CompileRulesToMapEntries(Merged)
  IN  \A k \in DOMAIN entries : \E r \in in :
        /\ MapKey(r) = k /\ r.verdict = entries[k]
        /\ \A s \in in : MapKey(s) = k => r.tier <= s.tier

\* Recompile ranges over a Go map, so it merges the same policies in another
\* order each time.  The policy map is the same when two neighbours change places,
\* hence in every order: where rules of several policies meet in one entry, their
\* tiers and names decide.
MergeIgnoresOrder ==
  \A i \in 1 .. Len(policies) - 1 :
    LET swapped == [policies EXCEPT ![i] = policies[i + 1], ![i + 1] = policies[i]]
    IN  CompileRulesToMapEntries(MergeAndPrioritize(swapped)) = CompileRulesToMapEntries(Merged)

\* A node that gets only the rules of its own identities decides about every
\* packet of its pods, and reports about it, as if it had all rules.
FilterKeepsVerdicts ==
  \A ids \in SUBSET Identities :
    LET all == CompileRulesToMapEntries(Merged)
        own == CompileRulesToMapEntries(FilterRulesForNode(Merged, ids))
    IN  \A pkt \in Packets : (pkt[1] \in ids \/ pkt[2] \in ids) =>
          HandlePkt(own, pkt) = HandlePkt(all, pkt)
=============================================================================
