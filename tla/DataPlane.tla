------------------------------ MODULE DataPlane ------------------------------
(***************************************************************************)
(* The two implementations of dataplane.DataPlane (pkg/dataplane/loader.go)*)
(* and the MapManager of the first (maps.go), as operators on one record;  *)
(* every method is atomic under a mutex.                                   *)
(*                                                                         *)
(*   kind          "ebpf" or "iptables"                                    *)
(*   loaded        loaded, running                                         *)
(*   endpoints     both: address to [id, ifIndex]                          *)
(*   identityMap   eBPF: address to identity, in the agent                 *)
(*   maps          eBPF: the maps that exist                               *)
(*   identity_map, endpoint_map    eBPF: what the programs read            *)
(*   accept        iptables: addresses with an ACCEPT rule in the chain    *)
(*                 COORDINO-FORWARD, however many; nothing removes one     *)
(***************************************************************************)
EXTENDS Integers

CONSTANTS Addresses, NoIdentity

Kinds == {"ebpf", "iptables"}

NoEntry == [id |-> NoIdentity, ifIndex |-> 0]
NoEndpoints == [a \in Addresses |-> NoEntry]
NoIdentities == [a \in Addresses |-> NoIdentity]

DefaultMaps == {"identity_map", "policy_map", "conntrack_map", "endpoint_map"}

\* NewEBPFDataPlane, NewIptablesDataPlane.
NewDataPlane(kind) ==
  [kind |-> kind, loaded |-> FALSE, endpoints |-> NoEndpoints,
   identityMap |-> NoIdentities, maps |-> {},
   identity_map |-> NoIdentities, endpoint_map |-> NoEndpoints, accept |-> {}]

Type(indexes, identities) ==
  LET entries == [id : identities, ifIndex : indexes] IN
  [kind : Kinds, loaded : BOOLEAN, endpoints : [Addresses -> entries],
   identityMap : [Addresses -> identities], maps : SUBSET DefaultMaps,
   identity_map : [Addresses -> identities], endpoint_map : [Addresses -> entries],
   accept : SUBSET Addresses]

\* EnsureMap for every default map keeps what a map holds.
EBPFLoadPrograms(d) == [d EXCEPT !.loaded = TRUE, !.maps = @ \cup DefaultMaps]

\* The chain is emptied.
IptablesLoadPrograms(d) == [d EXCEPT !.loaded = TRUE, !.accept = {}]

LoadPrograms(d) == IF d.kind = "ebpf" THEN EBPFLoadPrograms(d) ELSE IptablesLoadPrograms(d)

\* table with the values of new where new has one.
Overlay(table, new) ==
  [a \in Addresses |-> IF a \in DOMAIN new THEN new[a] ELSE table[a]]

\* UpdateMapEntry for each entry of new; a map that does not exist is an error
\* nobody looks at.
UpdateMapEntries(d, map, table, new) == IF map \in d.maps THEN Overlay(table, new) ELSE table

\* AddPodEndpoint for each of entries, address to [id, ifIndex].
EBPFAddPodEndpoints(d, entries) ==
  LET identities == [a \in DOMAIN entries |-> entries[a].id] IN
  [d EXCEPT
     !.endpoints = Overlay(@, entries),
     !.identityMap = Overlay(@, identities),
     !.identity_map = UpdateMapEntries(d, "identity_map", @, identities),
     !.endpoint_map = UpdateMapEntries(d, "endpoint_map", @, entries)]

IptablesAddPodEndpoints(d, entries) ==
  [d EXCEPT !.endpoints = Overlay(@, entries), !.accept = @ \cup DOMAIN entries]

AddPodEndpoints(d, entries) ==
  IF d.kind = "ebpf" THEN EBPFAddPodEndpoints(d, entries)
                     ELSE IptablesAddPodEndpoints(d, entries)

\* DeleteMapEntry; nothing, too, when there is no such map.
DeleteMapEntry(table, ip, none) == [table EXCEPT ![ip] = none]

\* Bug: the maps the programs read keep the address.
EBPFRemovePodEndpoint_KeepsMaps(d, ip) ==
  [d EXCEPT !.endpoints[ip] = NoEntry, !.identityMap[ip] = NoIdentity]

EBPFRemovePodEndpoint(d, ip) ==
  [d EXCEPT !.endpoints[ip] = NoEntry,
            !.identityMap[ip] = NoIdentity,
            !.identity_map = DeleteMapEntry(@, ip, NoIdentity),
            !.endpoint_map = DeleteMapEntry(@, ip, NoEntry)]

\* The rule stays.
IptablesRemovePodEndpoint(d, ip) == [d EXCEPT !.endpoints[ip] = NoEntry]

RemovePodEndpoint(d, ip) ==
  IF d.kind = "ebpf" THEN EBPFRemovePodEndpoint(d, ip) ELSE IptablesRemovePodEndpoint(d, ip)

Close(d) == [d EXCEPT !.loaded = FALSE]

\* Address ip belongs to identity id in every copy the data plane keeps.
Knows(d, ip, id) ==
  /\ d.endpoints[ip].id = id
  /\ d.kind = "ebpf" =>
       /\ d.identityMap[ip] = id
       /\ d.identity_map[ip] = id
       /\ d.endpoint_map[ip] = d.endpoints[ip]
  /\ d.kind = "iptables" => ip \in d.accept

\* No copy has an entry for ip (an iptables rule may be left).
Forgot(d, ip) ==
  /\ d.endpoints[ip] = NoEntry /\ d.endpoint_map[ip] = NoEntry
  /\ d.identityMap[ip] = NoIdentity /\ d.identity_map[ip] = NoIdentity
==============================================================================
