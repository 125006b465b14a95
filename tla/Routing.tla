------------------------------- MODULE Routing -------------------------------
(***************************************************************************)
(* The routing backends: BGPBackend (pkg/routing/bgp.go) and VXLANBackend  *)
(* (pkg/routing/vxlan.go), which differ in Close, in AdvertiseRoute and in *)
(* VXLAN's forwarding entries.  Every method is atomic under the backend's *)
(* mutex.  The cluster around them is external: nodes join, move and leave,*)
(* and each change is passed on by AddNode, UpdateNode or RemoveNode, or,  *)
(* when the event is missed, by the list of a later SyncRoutes.            *)
(***************************************************************************)
EXTENDS Integers, FiniteSets, FiniteSetsExt

CONSTANTS Local, Remotes,  \* this node, the other nodes
          CIDRs, OwnerOf,  \* OwnerOf[d]: the one node that may ever have d
          IPs,
          None

ASSUME OwnerAssumption ==
  /\ Local \notin Remotes
  /\ OwnerOf \in [CIDRs -> Remotes \cup {Local}]
ASSUME NoneAssumption == None \notin [cidr : CIDRs, ip : IPs]

VARIABLES mode,          \* "bgp" or "vxlan", chosen by NewRoutingBackend
          running,       \* set by Init, cleared by Close
          known,         \* known[n]: NodeInfo of peers (BGP) or nodes (VXLAN)
          routes,        \* routes[d]: [hop, node]
          fdb,           \* fdb[n]: remote IP of VXLAN's forwarding entry
          cluster,       \* cluster[n]: what is true of n now
          missed         \* history: the backend was not told of some change

tables == <<known, routes, fdb>>
vars == <<mode, running, tables, cluster, missed>>

Nodes == Remotes \cup {Local}
Infos(n) == {i \in [cidr : CIDRs, ip : IPs] : OwnerOf[i.cidr] = n}

Init ==
  /\ mode \in {"bgp", "vxlan"}
  /\ running = TRUE
  /\ known = [n \in Nodes |-> None]
  /\ routes = [d \in CIDRs |-> None]
  /\ fdb = [n \in Nodes |-> None]
  /\ cluster \in [Nodes -> {None} \cup UNION {Infos(n) : n \in Nodes}]
  /\ \A n \in Remotes : cluster[n] = None
  /\ cluster[Local] \in Infos(Local)
  /\ missed = FALSE

-----------------------------------------------------------------------------
(* The backend's methods.                                                  *)

RouteTo(n, info) == [hop |-> info.ip, node |-> n]

\* v.fdb[node.Name] = FDBEntry{...}; BGP has none.
FdbEntry(info) == IF mode = "vxlan" THEN info.ip ELSE None

\* AddNode: an error when the backend is not running.
AddNode(n, info) ==
  IF ~running THEN UNCHANGED tables
  ELSE /\ known' = [known EXCEPT ![n] = info]
       /\ routes' = [routes EXCEPT ![info.cidr] = RouteTo(n, info)]
       /\ fdb' = [fdb EXCEPT ![n] = FdbEntry(info)]

\* RemoveNode: nothing for a node that is not known.
RemoveNode(n) ==
  IF known[n] = None THEN UNCHANGED tables
  ELSE /\ routes' = [routes EXCEPT ![known[n].cidr] = None]
       /\ fdb' = [fdb EXCEPT ![n] = None]
       /\ known' = [known EXCEPT ![n] = None]

\* Bugs: the old route is deleted last; it is not deleted.
UpdateNode_DeletesLast(n, info) ==
  /\ known' = [known EXCEPT ![n] = info]
  /\ routes' = [d \in CIDRs |->
       IF known[n] # None /\ d = known[n].cidr THEN None
       ELSE IF d = info.cidr THEN RouteTo(n, info) ELSE routes[d]]
  /\ fdb' = [fdb EXCEPT ![n] = FdbEntry(info)]
UpdateNode_KeepsOld(n, info) ==
  /\ known' = [known EXCEPT ![n] = info]
  /\ routes' = [routes EXCEPT ![info.cidr] = RouteTo(n, info)]
  /\ fdb' = [fdb EXCEPT ![n] = FdbEntry(info)]

\* UpdateNode: delete the old route, add the new one; running or not.
UpdateNode(n, info) ==
  /\ known' = [known EXCEPT ![n] = info]
  /\ routes' = [d \in CIDRs |->
       IF d = info.cidr THEN RouteTo(n, info)
       ELSE IF known[n] # None /\ d = known[n].cidr THEN None ELSE routes[d]]
  /\ fdb' = [fdb EXCEPT ![n] = FdbEntry(info)]

\* SyncRoutes: the local node is skipped; nodes not in the list are removed
\* with the route of the CIDR last known of them; listed ones are written.
\* (Each CIDR has one owner, so the order of the map iterations is immaterial.)
SyncRoutes(list) ==
  LET listed == {n \in Remotes : list[n] # None}
      stale == {n \in Nodes \ listed : known[n] # None}
  IN
  /\ known' = [n \in Nodes |-> IF n \in listed THEN list[n] ELSE None]
  /\ routes' = [d \in CIDRs |->
       IF \E n \in listed : list[n].cidr = d
       THEN RouteTo(OwnerOf[d], list[OwnerOf[d]])
       ELSE IF \E n \in stale : known[n].cidr = d THEN None ELSE routes[d]]
  /\ fdb' = [n \in Nodes |->
       IF n \in listed THEN FdbEntry(list[n])
       ELSE IF n \in stale THEN None ELSE fdb[n]]

-----------------------------------------------------------------------------
(* The cluster and the backend's life.                                     *)

\* The watcher passes a change on, or misses it.
PassOn(call) ==
  \/ call /\ UNCHANGED missed
  \/ missed' = TRUE /\ UNCHANGED tables

Join(n, info) ==
  /\ cluster[n] = None
  /\ cluster' = [cluster EXCEPT ![n] = info]
  /\ PassOn(AddNode(n, info))
  /\ UNCHANGED <<mode, running>>

Move(n, info) ==
  /\ cluster[n] \notin {None, info}
  /\ cluster' = [cluster EXCEPT ![n] = info]
  /\ PassOn(UpdateNode(n, info))
  /\ UNCHANGED <<mode, running>>

Leave(n) ==
  /\ cluster[n] # None
  /\ cluster' = [cluster EXCEPT ![n] = None]
  /\ PassOn(RemoveNode(n))
  /\ UNCHANGED <<mode, running>>

Sync ==
  /\ SyncRoutes(cluster)
  /\ UNCHANGED <<mode, running, cluster, missed>>

\* AdvertiseRoute: BGP, for the local pods.
AdvertiseRoute ==
  /\ mode = "bgp" /\ running
  /\ routes' = [routes EXCEPT ![cluster[Local].cidr] = RouteTo(Local, cluster[Local])]
  /\ UNCHANGED <<mode, running, known, fdb, cluster, missed>>

\* Close: BGP forgets peers and routes, VXLAN keeps its maps.
Close ==
  /\ running' = FALSE
  /\ IF mode = "bgp"
     THEN /\ known' = [n \in Nodes |-> None]
          /\ routes' = [d \in CIDRs |-> None]
          /\ UNCHANGED fdb
     ELSE UNCHANGED tables
  /\ UNCHANGED <<mode, cluster, missed>>

\* Init of a backend that was closed.
Reopen ==
  /\ ~running
  /\ running' = TRUE
  /\ UNCHANGED <<mode, tables, cluster, missed>>

Next ==
  \/ \E n \in Remotes : Leave(n) \/ \E info \in Infos(n) : Join(n, info) \/ Move(n, info)
  \/ Sync \/ AdvertiseRoute \/ Close \/ Reopen

Spec == Init /\ [][Next]_vars

-----------------------------------------------------------------------------
(* Properties.                                                             *)

\* A node the backend knows is routed: the route of its pod CIDR leads to its
\* address, and so does VXLAN's forwarding entry, after any order of events,
\* missed events and SyncRoutes.
KnownNodesAreRouted ==
  \A n \in Remotes : known[n] # None =>
    /\ routes[known[n].cidr] = RouteTo(n, known[n])
    /\ fdb[n] = FdbEntry(known[n])

\* No route leads to a node the backend does not know, or to a pod CIDR that is
\* no longer its node's, as long as the backend was told of every change.  When
\* it was not, SyncRoutes does not make up for it: it overwrites what is known
\* of a listed node and leaves the route of the CIDR the node had.
NoStaleRoutes ==
  ~missed => \A d \in CIDRs : (routes[d] # None /\ routes[d].node # Local) =>
    /\ known[routes[d].node] # None
    /\ known[routes[d].node].cidr = d
=============================================================================
