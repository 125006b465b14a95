---------------------------- MODULE LibraryProofs ----------------------------
(***************************************************************************)
(* Proofs about two libraries that nothing under cmd/ calls yet.           *)
(*                                                                         *)
(* Routing, for any nodes, pod CIDRs and addresses, and both backends.     *)
(* KnownNodesAreRouted is inductive with the types alone: no method of the *)
(* backend touches the route of a node it is not called for, because each  *)
(* pod CIDR has one owner.  NoStaleRoutes is not: it also needs that what  *)
(* the backend knows of a node is what is true of it, as long as it was    *)
(* told of every change, for then a node that joins has no route yet, and  *)
(* SyncRoutes finds no CIDR other than the listed one.                     *)
(*                                                                         *)
(* FlowExporter, in the second half, for any capacity of the channel and   *)
(* any number of records and goroutines.  That every accepted record is in *)
(* one place is inductive once it is said of every place on its own: the   *)
(* buffer has no record twice, no two goroutines have the same record in   *)
(* hand, and buffer, hands and processed records are disjoint.             *)
(***************************************************************************)
EXTENDS Routing, FlowExporter, FiniteSetTheorems, TLAPS

\* Types; every node's entry, and every route, has a CIDR of that node.
TypeOK ==
  /\ mode \in {"bgp", "vxlan"} /\ running \in BOOLEAN /\ missed \in BOOLEAN
  /\ known \in [Nodes -> [cidr : CIDRs, ip : IPs] \cup {None}]
  /\ routes \in [CIDRs -> [hop : IPs, node : Nodes] \cup {None}]
  /\ fdb \in [Nodes -> IPs \cup {None}]
  /\ cluster \in [Nodes -> [cidr : CIDRs, ip : IPs] \cup {None}]
  /\ cluster[Local] # None
  /\ \A n \in Nodes : /\ known[n] # None => OwnerOf[known[n].cidr] = n
                      /\ cluster[n] # None => OwnerOf[cluster[n].cidr] = n
  /\ \A d \in CIDRs : routes[d] # None => routes[d].node = OwnerOf[d]

\* The tables say nothing of the node they are on, and nothing that is not so
\* of a node whose changes the backend was told of.
KnownIsTrue ==
  /\ known[Local] = None
  /\ ~missed => \A n \in Remotes : known[n] # None => known[n] = cluster[n]

\* The inductive invariant.
Inv == TypeOK /\ KnownIsTrue /\ KnownNodesAreRouted /\ NoStaleRoutes

-----------------------------------------------------------------------------
(* Operators.                                                              *)

LEMMA Owners ==
  /\ Local \in Nodes /\ Remotes \subseteq Nodes /\ Local \notin Remotes
  /\ Nodes = Remotes \cup {Local}
  /\ \A d \in CIDRs : OwnerOf[d] \in Nodes
  BY OwnerAssumption DEF Nodes

LEMMA InfoType ==
  ASSUME NEW n, NEW info \in Infos(n)
  PROVE  /\ info \in [cidr : CIDRs, ip : IPs] /\ info # None
         /\ info.cidr \in CIDRs /\ info.ip \in IPs
         /\ OwnerOf[info.cidr] = n
  BY NoneAssumption DEF Infos

LEMMA RouteType ==
  ASSUME NEW n \in Nodes, NEW info \in [cidr : CIDRs, ip : IPs]
  PROVE  /\ RouteTo(n, info) \in [hop : IPs, node : Nodes]
         /\ RouteTo(n, info).node = n
         /\ FdbEntry(info) \in IPs \cup {None}
  BY DEF RouteTo, FdbEntry

\* RouteTo and FdbEntry do not depend on anything that changes.
LEMMA EntriesKept ==
  ASSUME mode' = mode
  PROVE  \A info : FdbEntry(info)' = FdbEntry(info)
  BY DEF FdbEntry

-----------------------------------------------------------------------------
(* Inv is inductive: one lemma per event.                                  *)

LEMMA InitInv == Init => Inv
<1> SUFFICES ASSUME Init PROVE Inv
  OBVIOUS
<1>1. cluster[Local] # None /\ OwnerOf[cluster[Local].cidr] = Local
  BY InfoType DEF Init
<1>2. \A n \in Remotes : cluster[n] = None
  BY DEF Init
<1>3. cluster \in [Nodes -> [cidr : CIDRs, ip : IPs] \cup {None}]
  BY DEF Init, Infos
<1>4. /\ known \in [Nodes -> {None}] /\ fdb \in [Nodes -> {None}]
      /\ routes \in [CIDRs -> {None}]
      /\ mode \in {"bgp", "vxlan"} /\ running = TRUE /\ missed = FALSE
  BY DEF Init
<1>5. TypeOK
  BY <1>1, <1>2, <1>3, <1>4, Owners DEF TypeOK
<1>6. KnownIsTrue /\ KnownNodesAreRouted /\ NoStaleRoutes
  BY <1>4, Owners DEF KnownIsTrue, KnownNodesAreRouted, NoStaleRoutes
<1> QED BY <1>5, <1>6 DEF Inv

LEMMA JoinInv ==
  ASSUME Inv, NEW n \in Remotes, NEW info \in Infos(n), Join(n, info)
  PROVE  Inv'
<1> USE Owners
<1>1. /\ info \in [cidr : CIDRs, ip : IPs] /\ info # None
      /\ info.cidr \in CIDRs /\ OwnerOf[info.cidr] = n
  BY InfoType
<1>2. /\ cluster[n] = None
      /\ cluster' = [cluster EXCEPT ![n] = info]
      /\ mode' = mode /\ running' = running
  BY DEF Join
<1>3. /\ n \in Nodes /\ n # Local
      /\ RouteTo(n, info) \in [hop : IPs, node : Nodes]
      /\ RouteTo(n, info).node = n
      /\ FdbEntry(info) \in IPs \cup {None}
      /\ \A i : FdbEntry(i)' = FdbEntry(i)
  BY <1>1, <1>2, RouteType, EntriesKept
<1>4. CASE UNCHANGED tables /\ (missed' = missed \/ missed' = TRUE)
  <2>1. known' = known /\ routes' = routes /\ fdb' = fdb
    BY <1>4 DEF tables
  <2>2. TypeOK'
    BY <1>1, <1>2, <1>3, <1>4, <2>1 DEF Inv, TypeOK
  <2>3. KnownNodesAreRouted' /\ NoStaleRoutes'
    BY <1>3, <1>4, <2>1 DEF Inv, KnownNodesAreRouted, NoStaleRoutes
  <2>4. KnownIsTrue'
    BY <1>2, <1>4, <2>1 DEF Inv, KnownIsTrue, TypeOK
  <2> QED BY <2>2, <2>3, <2>4 DEF Inv
<1>5. CASE /\ known' = [known EXCEPT ![n] = info]
           /\ routes' = [routes EXCEPT ![info.cidr] = RouteTo(n, info)]
           /\ fdb' = [fdb EXCEPT ![n] = FdbEntry(info)]
           /\ missed' = missed
  <2>1. TypeOK'
    BY <1>1, <1>2, <1>3, <1>5 DEF Inv, TypeOK
  <2>2. KnownNodesAreRouted'
    BY <1>1, <1>3, <1>5 DEF Inv, TypeOK, KnownNodesAreRouted
  <2>3. KnownIsTrue'
    BY <1>2, <1>3, <1>5 DEF Inv, TypeOK, KnownIsTrue
  <2>4. NoStaleRoutes'
    <3> SUFFICES ASSUME ~missed, NEW d \in CIDRs, routes'[d] # None,
                        routes'[d].node # Local
                 PROVE  /\ known'[routes'[d].node] # None
                        /\ known'[routes'[d].node].cidr = d
      BY <1>5 DEF NoStaleRoutes
    <3>1. CASE d = info.cidr
      BY <3>1, <1>1, <1>3, <1>5 DEF Inv, TypeOK
    <3>2. CASE d # info.cidr
      <4>1. routes'[d] = routes[d] /\ routes[d].node \in Nodes
        BY <3>2, <1>1, <1>5 DEF Inv, TypeOK
      <4>2. known[routes[d].node] # None /\ known[routes[d].node].cidr = d
        BY <4>1 DEF Inv, NoStaleRoutes
      <4>3. known[n] = None
        BY <1>2 DEF Inv, KnownIsTrue
      <4> QED BY <4>1, <4>2, <4>3, <1>5 DEF Inv, TypeOK
    <3> QED BY <3>1, <3>2
  <2> QED BY <2>1, <2>2, <2>3, <2>4 DEF Inv
<1> QED BY <1>4, <1>5 DEF Join, PassOn, AddNode, tables
LEMMA MoveInv ==
  ASSUME Inv, NEW n \in Remotes, NEW info \in Infos(n), Move(n, info)
  PROVE  Inv'
<1> USE Owners
<1>1. /\ info \in [cidr : CIDRs, ip : IPs] /\ info # None
      /\ info.cidr \in CIDRs /\ OwnerOf[info.cidr] = n
  BY InfoType
<1>2. /\ cluster' = [cluster EXCEPT ![n] = info]
      /\ mode' = mode /\ running' = running
  BY DEF Move
<1>3. /\ n \in Nodes /\ n # Local
      /\ RouteTo(n, info) \in [hop : IPs, node : Nodes]
      /\ RouteTo(n, info).node = n
      /\ FdbEntry(info) \in IPs \cup {None}
      /\ \A i : FdbEntry(i)' = FdbEntry(i)
  BY <1>1, <1>2, RouteType, EntriesKept
<1>4. CASE UNCHANGED tables /\ missed' = TRUE
  <2>1. known' = known /\ routes' = routes /\ fdb' = fdb
    BY <1>4 DEF tables
  <2>2. TypeOK'
    BY <1>1, <1>2, <1>3, <1>4, <2>1 DEF Inv, TypeOK
  <2>3. KnownNodesAreRouted' /\ NoStaleRoutes' /\ KnownIsTrue'
    BY <1>3, <1>4, <2>1 DEF Inv, KnownNodesAreRouted, NoStaleRoutes, KnownIsTrue
  <2> QED BY <2>2, <2>3 DEF Inv
<1>5. CASE UpdateNode(n, info) /\ missed' = missed
  <2>1. /\ known' = [known EXCEPT ![n] = info]
        /\ routes' = [d \in CIDRs |->
             IF d = info.cidr THEN RouteTo(n, info)
             ELSE IF known[n] # None /\ d = known[n].cidr THEN None ELSE routes[d]]
        /\ fdb' = [fdb EXCEPT ![n] = FdbEntry(info)]
    BY <1>5 DEF UpdateNode
  <2>2. TypeOK'
    BY <1>1, <1>2, <1>3, <1>5, <2>1 DEF Inv, TypeOK
  <2>3. KnownNodesAreRouted'
    <3> SUFFICES ASSUME NEW m \in Remotes, known'[m] # None
                 PROVE  /\ routes'[known'[m].cidr] = RouteTo(m, known'[m])
                        /\ fdb'[m] = FdbEntry(known'[m])
      BY <1>3 DEF KnownNodesAreRouted, RouteTo
    <3>1. CASE m = n
      BY <3>1, <1>1, <1>3, <2>1 DEF Inv, TypeOK
    <3>2. CASE m # n
      <4>1. known'[m] = known[m] /\ fdb'[m] = fdb[m]
        BY <3>2, <2>1 DEF Inv, TypeOK
      <4>2. known[m].cidr \in CIDRs /\ OwnerOf[known[m].cidr] = m
        BY <4>1 DEF Inv, TypeOK
      <4>3. routes'[known[m].cidr] = routes[known[m].cidr]
        BY <3>2, <4>2, <1>1, <1>3, <2>1 DEF Inv, TypeOK
      <4> QED BY <4>1, <4>3 DEF Inv, KnownNodesAreRouted
    <3> QED BY <3>1, <3>2
  <2>4. KnownIsTrue'
    BY <1>2, <1>3, <1>5, <2>1 DEF Inv, TypeOK, KnownIsTrue
  <2>5. NoStaleRoutes'
    <3> SUFFICES ASSUME ~missed, NEW d \in CIDRs, routes'[d] # None,
                        routes'[d].node # Local
                 PROVE  /\ known'[routes'[d].node] # None
                        /\ known'[routes'[d].node].cidr = d
      BY <1>5 DEF NoStaleRoutes
    <3>1. CASE d = info.cidr
      BY <3>1, <1>1, <1>3, <2>1 DEF Inv, TypeOK
    <3>2. CASE d # info.cidr
      <4>1. routes'[d] = routes[d] /\ ~(known[n] # None /\ d = known[n].cidr)
        BY <3>2, <2>1
      <4>2. known[routes[d].node] # None /\ known[routes[d].node].cidr = d
        BY <4>1 DEF Inv, NoStaleRoutes
      <4>3. routes[d].node \in Nodes \ {n}
        BY <4>1, <4>2 DEF Inv, TypeOK
      <4> QED BY <4>1, <4>2, <4>3, <2>1 DEF Inv, TypeOK
    <3> QED BY <3>1, <3>2
  <2> QED BY <2>2, <2>3, <2>4, <2>5 DEF Inv
<1> QED BY <1>4, <1>5 DEF Move, PassOn

LEMMA LeaveInv ==
  ASSUME Inv, NEW n \in Remotes, Leave(n)
  PROVE  Inv'
<1> USE Owners
<1>1. /\ cluster' = [cluster EXCEPT ![n] = None]
      /\ mode' = mode /\ running' = running
      /\ n \in Nodes /\ n # Local
      /\ \A i : FdbEntry(i)' = FdbEntry(i)
  BY EntriesKept DEF Leave
<1>2. CASE UNCHANGED tables /\ (missed' = TRUE \/ (missed' = missed /\ known[n] = None))
  <2>1. known' = known /\ routes' = routes /\ fdb' = fdb
    BY <1>2 DEF tables
  <2>2. TypeOK'
    BY <1>1, <1>2, <2>1 DEF Inv, TypeOK
  <2>3. KnownNodesAreRouted' /\ NoStaleRoutes'
    BY <1>1, <1>2, <2>1 DEF Inv, KnownNodesAreRouted, NoStaleRoutes
  <2>4. KnownIsTrue'
    BY <1>1, <1>2, <2>1 DEF Inv, KnownIsTrue, TypeOK
  <2> QED BY <2>2, <2>3, <2>4 DEF Inv
<1>3. CASE RemoveNode(n) /\ known[n] # None /\ missed' = missed
  <2>1. /\ known' = [known EXCEPT ![n] = None]
        /\ routes' = [routes EXCEPT ![known[n].cidr] = None]
        /\ fdb' = [fdb EXCEPT ![n] = None]
    BY <1>3 DEF RemoveNode
  <2>2. known[n].cidr \in CIDRs /\ OwnerOf[known[n].cidr] = n
    BY <1>1, <1>3 DEF Inv, TypeOK
  <2>3. TypeOK'
    BY <1>1, <1>3, <2>1, <2>2 DEF Inv, TypeOK
  <2>4. KnownNodesAreRouted'
    <3> SUFFICES ASSUME NEW m \in Remotes, known'[m] # None
                 PROVE  /\ routes'[known'[m].cidr] = RouteTo(m, known'[m])
                        /\ fdb'[m] = FdbEntry(known'[m])
      BY <1>1 DEF KnownNodesAreRouted, RouteTo
    <3>1. m # n /\ known'[m] = known[m] /\ fdb'[m] = fdb[m]
      BY <2>1 DEF Inv, TypeOK
    <3>2. known[m].cidr \in CIDRs /\ OwnerOf[known[m].cidr] = m
      BY <3>1 DEF Inv, TypeOK
    <3>3. routes'[known[m].cidr] = routes[known[m].cidr]
      BY <3>1, <3>2, <2>1, <2>2 DEF Inv, TypeOK
    <3> QED BY <3>1, <3>3 DEF Inv, KnownNodesAreRouted
  <2>5. KnownIsTrue'
    BY <1>1, <1>3, <2>1 DEF Inv, TypeOK, KnownIsTrue
  <2>6. NoStaleRoutes'
    <3> SUFFICES ASSUME ~missed, NEW d \in CIDRs, routes'[d] # None,
                        routes'[d].node # Local
                 PROVE  /\ known'[routes'[d].node] # None
                        /\ known'[routes'[d].node].cidr = d
      BY <1>3 DEF NoStaleRoutes
    <3>1. routes'[d] = routes[d] /\ d # known[n].cidr
      BY <2>1, <2>2 DEF Inv, TypeOK
    <3>2. known[routes[d].node] # None /\ known[routes[d].node].cidr = d
      BY <3>1 DEF Inv, NoStaleRoutes
    <3>3. routes[d].node \in Nodes \ {n}
      BY <3>1, <3>2 DEF Inv, TypeOK
    <3> QED BY <3>1, <3>2, <3>3, <2>1 DEF Inv, TypeOK
  <2> QED BY <2>3, <2>4, <2>5, <2>6 DEF Inv
<1>4. (RemoveNode(n) /\ missed' = missed) \/ (missed' = TRUE /\ UNCHANGED tables)
  BY DEF Leave, PassOn
<1>5. known[n] = None /\ RemoveNode(n) => UNCHANGED tables
  BY DEF RemoveNode
<1> QED BY <1>2, <1>3, <1>4, <1>5

LEMMA SyncInv ==
  ASSUME Inv, Sync
  PROVE  Inv'
<1> USE Owners
<1> DEFINE listed == {n \in Remotes : cluster[n] # None}
           stale == {n \in Nodes \ listed : known[n] # None}
<1>1. /\ known' = [n \in Nodes |-> IF n \in listed THEN cluster[n] ELSE None]
      /\ routes' = [d \in CIDRs |->
           IF \E n \in listed : cluster[n].cidr = d
           THEN RouteTo(OwnerOf[d], cluster[OwnerOf[d]])
           ELSE IF \E n \in stale : known[n].cidr = d THEN None ELSE routes[d]]
      /\ fdb' = [n \in Nodes |->
           IF n \in listed THEN FdbEntry(cluster[n])
           ELSE IF n \in stale THEN None ELSE fdb[n]]
      /\ mode' = mode /\ running' = running /\ cluster' = cluster /\ missed' = missed
  BY DEF Sync, SyncRoutes
<1>2. \A n \in listed : /\ cluster[n] \in [cidr : CIDRs, ip : IPs]
                        /\ cluster[n].cidr \in CIDRs
                        /\ OwnerOf[cluster[n].cidr] = n
                        /\ n \in Nodes /\ n # Local /\ n \in Remotes /\ cluster[n] # None
  BY DEF Inv, TypeOK
<1>3. \A n \in stale : /\ n \in Nodes /\ known[n] # None
                       /\ OwnerOf[known[n].cidr] = n
                       /\ n \notin listed
  BY DEF Inv, TypeOK
<1>4. \A n \in Nodes \ listed : known[n] = None \/ n \in stale
  OBVIOUS
<1>5. \A n \in Remotes \ listed : cluster[n] = None
  OBVIOUS
<1>6. listed \subseteq Nodes /\ Local \notin listed
  OBVIOUS
<1> HIDE DEF listed, stale
<1>7. \A i : FdbEntry(i)' = FdbEntry(i)
  BY <1>1, EntriesKept
<1>8. \A n \in listed : /\ known'[n] = cluster[n]
                        /\ fdb'[n] = FdbEntry(cluster[n])
                        /\ routes'[cluster[n].cidr] = RouteTo(n, cluster[n])
  <2> TAKE n \in listed
  <2>1. cluster[n].cidr \in CIDRs /\ OwnerOf[cluster[n].cidr] = n
    BY <1>2
  <2>2. routes'[cluster[n].cidr] = RouteTo(n, cluster[n])
    BY <1>1, <2>1
  <2> QED BY <1>1, <1>6, <2>2
<1>9. \A n \in Nodes \ listed : known'[n] = None
  BY <1>1
<1>10. TypeOK'
  <2>1. known' \in [Nodes -> [cidr : CIDRs, ip : IPs] \cup {None}]
    BY <1>1, <1>2
  <2>2. fdb' \in [Nodes -> IPs \cup {None}]
    BY <1>1, <1>2, RouteType DEF Inv, TypeOK
  <2>3. ASSUME NEW d \in CIDRs
        PROVE  /\ routes'[d] \in [hop : IPs, node : Nodes] \cup {None}
               /\ routes'[d] # None => routes'[d].node = OwnerOf[d]
    <3>1. CASE \E n \in listed : cluster[n].cidr = d
      <4>1. OwnerOf[d] \in listed
        BY <3>1, <1>2
      <4>2. routes'[d] = RouteTo(OwnerOf[d], cluster[OwnerOf[d]])
        BY <3>1, <1>1
      <4> QED BY <4>1, <4>2, <1>2, RouteType
    <3>2. CASE ~\E n \in listed : cluster[n].cidr = d
      <4>1. routes'[d] \in {None, routes[d]}
        BY <3>2, <1>1
      <4> QED BY <4>1 DEF Inv, TypeOK
    <3> QED BY <3>1, <3>2
  <2>4. routes' \in [CIDRs -> [hop : IPs, node : Nodes] \cup {None}]
    BY <1>1, <2>3
  <2>5. \A n \in Nodes : known'[n] # None => OwnerOf[known'[n].cidr] = n
    BY <1>2, <1>8, <1>9
  <2> QED BY <1>1, <2>1, <2>2, <2>3, <2>4, <2>5 DEF Inv, TypeOK
<1>11. KnownNodesAreRouted'
  <2> SUFFICES ASSUME NEW n \in Remotes, known'[n] # None
               PROVE  /\ routes'[known'[n].cidr] = RouteTo(n, known'[n])
                      /\ fdb'[n] = FdbEntry(known'[n])
    BY <1>7 DEF KnownNodesAreRouted, RouteTo
  <2> QED BY <1>8, <1>9
<1>12. KnownIsTrue'
  BY <1>1, <1>6, <1>8, <1>9 DEF KnownIsTrue
<1>13. NoStaleRoutes'
  <2> SUFFICES ASSUME ~missed, NEW d \in CIDRs, routes'[d] # None,
                      routes'[d].node # Local
               PROVE  /\ known'[routes'[d].node] # None
                      /\ known'[routes'[d].node].cidr = d
    BY <1>1 DEF NoStaleRoutes
  <2> DEFINE o == OwnerOf[d]
  <2>1. routes'[d].node = o /\ o \in Remotes
    BY <1>10 DEF TypeOK
  <2>2. CASE \E n \in listed : cluster[n].cidr = d
    <3>1. o \in listed /\ cluster[o].cidr = d
      BY <2>2, <1>2
    <3> QED BY <2>1, <3>1, <1>2, <1>8
  <2>3. CASE ~\E n \in listed : cluster[n].cidr = d
    <3>1. routes'[d] = routes[d] /\ ~\E n \in stale : known[n].cidr = d
      BY <2>3, <1>1
    <3>2. known[o] # None /\ known[o].cidr = d
      BY <2>1, <3>1 DEF Inv, NoStaleRoutes
    <3>3. o \in listed
      BY <2>1, <3>1, <3>2, <1>4
    <3>4. cluster[o].cidr = d
      BY <2>1, <3>2 DEF Inv, KnownIsTrue
    <3> QED BY <2>3, <3>3, <3>4
  <2> QED BY <2>2, <2>3
<1> QED BY <1>10, <1>11, <1>12, <1>13 DEF Inv

LEMMA AdvertiseRouteInv ==
  ASSUME Inv, AdvertiseRoute
  PROVE  Inv'
<1> USE Owners
<1> DEFINE c == cluster[Local]
<1>1. /\ routes' = [routes EXCEPT ![c.cidr] = RouteTo(Local, c)]
      /\ UNCHANGED <<mode, running, known, fdb, cluster, missed>>
  BY DEF AdvertiseRoute
<1>2. c \in [cidr : CIDRs, ip : IPs] /\ c.cidr \in CIDRs /\ OwnerOf[c.cidr] = Local
  BY DEF Inv, TypeOK
<1>3. /\ RouteTo(Local, c) \in [hop : IPs, node : Nodes]
      /\ RouteTo(Local, c).node = Local
  BY <1>2, RouteType
<1> HIDE DEF c
<1>4. TypeOK'
  BY <1>1, <1>2, <1>3 DEF Inv, TypeOK
<1>5. KnownIsTrue'
  BY <1>1 DEF Inv, KnownIsTrue
<1>6. \A d \in CIDRs : OwnerOf[d] # Local => routes'[d] = routes[d]
  BY <1>1, <1>2 DEF Inv, TypeOK
<1>7. KnownNodesAreRouted'
  <2>1. \A n \in Remotes : known[n] # None =>
           known[n].cidr \in CIDRs /\ OwnerOf[known[n].cidr] # Local
    BY DEF Inv, TypeOK
  <2> QED BY <1>1, <1>6, <2>1, EntriesKept DEF Inv, KnownNodesAreRouted, RouteTo
<1>8. NoStaleRoutes'
  BY <1>1, <1>4, <1>6 DEF Inv, TypeOK, NoStaleRoutes
<1> QED BY <1>4, <1>5, <1>7, <1>8 DEF Inv

LEMMA LifeInv ==
  ASSUME Inv, Close \/ Reopen \/ UNCHANGED vars
  PROVE  Inv'
<1>1. /\ mode' = mode /\ cluster' = cluster /\ missed' = missed /\ fdb' = fdb
      /\ running' \in BOOLEAN
      /\ \/ known' = known /\ routes' = routes
         \/ known' = [n \in Nodes |-> None] /\ routes' = [d \in CIDRs |-> None]
  BY DEF Close, Reopen, vars, tables, Inv, TypeOK
<1>2. \A i : FdbEntry(i)' = FdbEntry(i)
  BY <1>1, EntriesKept
<1>3. TypeOK'
  BY <1>1 DEF Inv, TypeOK
<1>4. KnownIsTrue'
  BY <1>1, Owners DEF Inv, KnownIsTrue
<1>5. KnownNodesAreRouted'
  BY <1>1, <1>2, Owners DEF Inv, KnownNodesAreRouted
<1>6. NoStaleRoutes'
  BY <1>1 DEF Inv, NoStaleRoutes
<1> QED BY <1>3, <1>4, <1>5, <1>6 DEF Inv

-----------------------------------------------------------------------------
(* Theorems.                                                               *)

\* The backend's tables are consistent in every reachable state.
THEOREM RoutingInvariant == Spec => []Inv
<1>1. Inv /\ [Next]_vars => Inv'
  <2> SUFFICES ASSUME Inv, [Next]_vars PROVE Inv'
    OBVIOUS
  <2>1. CASE \E n \in Remotes : Leave(n)
    BY <2>1, LeaveInv
  <2>2. CASE \E n \in Remotes : \E info \in Infos(n) : Join(n, info)
    BY <2>2, JoinInv
  <2>3. CASE \E n \in Remotes : \E info \in Infos(n) : Move(n, info)
    BY <2>3, MoveInv
  <2>4. CASE Sync
    BY <2>4, SyncInv
  <2>5. CASE AdvertiseRoute
    BY <2>5, AdvertiseRouteInv
  <2>6. CASE Close \/ Reopen \/ UNCHANGED vars
    BY <2>6, LifeInv
  <2> QED BY <2>1, <2>2, <2>3, <2>4, <2>5, <2>6 DEF Next
<1> QED BY <1>1, InitInv, PTL DEF Spec

\* A node the backend knows is routed, after any joins, moves and departures,
\* told or missed, synchronisations, Close and Init.
THEOREM KnownNodesRouted == Spec => []KnownNodesAreRouted
<1>1. Inv => KnownNodesAreRouted
  BY DEF Inv
<1> QED BY <1>1, RoutingInvariant, PTL

\* As long as no change was missed, no route outlives its node or its CIDR.
THEOREM RoutesAreFresh == Spec => []NoStaleRoutes
<1>1. Inv => NoStaleRoutes
  BY DEF Inv
<1> QED BY <1>1, RoutingInvariant, PTL

-----------------------------------------------------------------------------
(* The flow exporter.                                                      *)

Buffered == {records[i] : i \in DOMAIN records}
Taken == {accepted[i] : i \in DOMAIN accepted}

\* A record is a number given out by Export; it is in one place of the buffer, or
\* in one goroutine's hand, or processed.
RecordInv ==
  /\ exported \in Nat
  /\ records \in Seq(1 .. exported) /\ accepted \in Seq(1 .. exported)
  /\ processed \subseteq 1 .. exported
  /\ inHand \in [Goroutines -> 0 .. exported]
  /\ readers \in [Goroutines -> ReaderStates]
  /\ \A g \in Goroutines : inHand[g] # NoRecord <=> readers[g] = "busy"
  /\ \A i, j \in DOMAIN records : records[i] = records[j] => i = j
  /\ \A g, h \in Goroutines : (inHand[g] = inHand[h] /\ inHand[g] # NoRecord) => g = h
  /\ Buffered \cap InHand = {} /\ Buffered \cap processed = {} /\ InHand \cap processed = {}

CountInv ==
  /\ Taken = Buffered \cup InHand \cup processed
  /\ Len(accepted) = Len(records) + Cardinality(InHand) + Cardinality(processed)

Started(g) == readers[g] # "none"

\* The channel is closed by a Stop, hence after a Start; an exporter that runs on a
\* closed channel was started again.
PanicInv ==
  /\ (flowRunning \/ closed) => \E g \in Goroutines : Started(g)
  /\ ((flowRunning /\ closed) \/ panicked) =>
       \E g, h \in Goroutines : g # h /\ Started(g) /\ Started(h)

\* The inductive invariant.
FlowInv == RecordInv /\ CountInv /\ PanicInv

LEMMA AppendFacts ==
  ASSUME NEW T, NEW s \in Seq(T), NEW x \in T
  PROVE  LET t == Append(s, x)
         IN  /\ t \in Seq(T) /\ Len(t) = Len(s) + 1
             /\ DOMAIN t = 1 .. Len(s) + 1 /\ DOMAIN s = 1 .. Len(s) /\ Len(s) \in Nat
             /\ t[Len(s) + 1] = x /\ \A i \in DOMAIN s : t[i] = s[i]
             /\ {t[i] : i \in DOMAIN t} = {s[i] : i \in DOMAIN s} \cup {x}
<1> DEFINE t == Append(s, x)
<1>1. /\ t \in Seq(T) /\ Len(t) = Len(s) + 1
      /\ DOMAIN t = 1 .. Len(s) + 1 /\ DOMAIN s = 1 .. Len(s) /\ Len(s) \in Nat
      /\ t[Len(s) + 1] = x /\ \A i \in DOMAIN s : t[i] = s[i]
  OBVIOUS
<1> HIDE DEF t
<1>2. DOMAIN t = DOMAIN s \cup {Len(s) + 1}
  BY <1>1
<1>3. {t[i] : i \in DOMAIN t} = {s[i] : i \in DOMAIN s} \cup {x}
  BY <1>1, <1>2
<1> QED BY <1>1, <1>3 DEF t

LEMMA TailFacts ==
  ASSUME NEW T, NEW s \in Seq(T), s # <<>>
  PROVE  LET t == Tail(s)
         IN  /\ Head(s) \in T /\ Head(s) = s[1] /\ t \in Seq(T)
             /\ Len(s) \in Nat \ {0} /\ Len(t) = Len(s) - 1
             /\ DOMAIN s = 1 .. Len(s) /\ DOMAIN t = 1 .. Len(s) - 1
             /\ \A i \in DOMAIN t : t[i] = s[i + 1]
             /\ {s[i] : i \in DOMAIN s} = {t[i] : i \in DOMAIN t} \cup {Head(s)}
<1> DEFINE t == Tail(s)
<1>1. /\ Head(s) \in T /\ Head(s) = s[1] /\ t \in Seq(T)
      /\ Len(s) \in Nat \ {0} /\ Len(t) = Len(s) - 1
      /\ DOMAIN s = 1 .. Len(s) /\ DOMAIN t = 1 .. Len(s) - 1
      /\ \A i \in DOMAIN t : t[i] = s[i + 1]
  OBVIOUS
<1> HIDE DEF t
<1>2. \A i \in DOMAIN s : i = 1 \/ (i - 1 \in DOMAIN t /\ (i - 1) + 1 = i)
  BY <1>1
<1>3. \A i \in DOMAIN s : s[i] = Head(s) \/ \E j \in DOMAIN t : s[i] = t[j]
  BY <1>1, <1>2
<1>4. \A j \in DOMAIN t : j + 1 \in DOMAIN s /\ 1 \in DOMAIN s
  BY <1>1
<1>5. 1 \in DOMAIN s
  BY <1>1
<1>6. {s[i] : i \in DOMAIN s} = {t[i] : i \in DOMAIN t} \cup {Head(s)}
  BY <1>1, <1>3, <1>4, <1>5
<1> QED BY <1>1, <1>6 DEF t

LEMMA FlowSets ==
  ASSUME RecordInv
  PROVE  /\ IsFiniteSet(InHand) /\ Cardinality(InHand) \in Nat
         /\ IsFiniteSet(processed) /\ Cardinality(processed) \in Nat
         /\ InHand = {r \in 1 .. exported : \E g \in Goroutines : r = inHand[g]}
         /\ Len(records) \in Nat /\ Len(accepted) \in Nat
<1>1. InHand = {r \in 1 .. exported : \E g \in Goroutines : r = inHand[g]}
  BY DEF RecordInv, InHand, NoRecord
<1>2. IsFiniteSet(1 .. exported)
  BY FS_Interval DEF RecordInv
<1>3. InHand \in SUBSET (1 .. exported) /\ processed \in SUBSET (1 .. exported)
  BY <1>1 DEF RecordInv
<1>4. IsFiniteSet(InHand) /\ IsFiniteSet(processed)
  BY <1>2, <1>3, FS_Subset
<1>5. Cardinality(InHand) \in Nat /\ Cardinality(processed) \in Nat
  BY <1>4, FS_CardinalityType
<1>6. Len(records) \in Nat /\ Len(accepted) \in Nat
  BY DEF RecordInv
<1> QED BY <1>1, <1>4, <1>5, <1>6

LEMMA FlowInitInv == FlowInit => FlowInv
<1> SUFFICES ASSUME FlowInit PROVE FlowInv
  OBVIOUS
<1>1. /\ records = <<>> /\ accepted = <<>> /\ processed = {} /\ exported = 0
      /\ readers = [g \in Goroutines |-> "none"] /\ inHand = [g \in Goroutines |-> 0]
      /\ ~flowRunning /\ ~closed /\ ~panicked
  BY DEF FlowInit, NoRecord
<1>2. Buffered = {} /\ Taken = {} /\ InHand = {} /\ Len(records) = 0 /\ Len(accepted) = 0
  BY <1>1 DEF Buffered, Taken, InHand, NoRecord
<1>3. RecordInv
  BY <1>1, <1>2 DEF RecordInv, ReaderStates, NoRecord
<1>4. CountInv
  BY <1>1, <1>2, FS_EmptySet DEF CountInv
<1> QED BY <1>1, <1>3, <1>4 DEF FlowInv, PanicInv

\* Start and Stop, and a goroutine that returns, move no record.
LEMMA FlowIdle ==
  ASSUME RecordInv, CountInv, UNCHANGED <<records, inHand, exported, accepted, processed>>,
         readers' \in [Goroutines -> ReaderStates],
         \A g \in Goroutines : readers'[g] = "busy" <=> readers[g] = "busy"
  PROVE  RecordInv' /\ CountInv'
<1>1. Buffered' = Buffered /\ Taken' = Taken /\ InHand' = InHand
  BY DEF Buffered, Taken, InHand
<1>2. RecordInv'
  BY <1>1 DEF RecordInv
<1> QED BY <1>1, <1>2 DEF CountInv

LEMMA StartInv ==
  ASSUME FlowInv, Start
  PROVE  FlowInv'
<1>1. PICK g \in Goroutines :
        readers[g] = "none" /\ readers' = [readers EXCEPT ![g] = "receiving"]
  BY DEF Start
<1>2. /\ UNCHANGED <<records, inHand, exported, accepted, processed, closed, panicked>>
      /\ ~flowRunning /\ ~panicked
  BY DEF Start
<1>3. /\ readers' \in [Goroutines -> ReaderStates] /\ readers'[g] = "receiving"
      /\ \A h \in Goroutines \ {g} : readers'[h] = readers[h]
  BY <1>1 DEF FlowInv, RecordInv, ReaderStates
<1>4. RecordInv' /\ CountInv'
  <2>1. \A h \in Goroutines : readers'[h] = "busy" <=> readers[h] = "busy"
    BY <1>1, <1>3
  <2> QED BY <1>2, <1>3, <2>1, FlowIdle DEF FlowInv
<1>5. PanicInv'
  <2>1. Started(g)' /\ \A h \in Goroutines : Started(h) => Started(h)' /\ h # g
    BY <1>1, <1>3 DEF Started
  <2>2. closed' => \E h \in Goroutines : Started(h)
    BY <1>2 DEF FlowInv, PanicInv
  <2> QED BY <1>2, <2>1, <2>2 DEF PanicInv
<1> QED BY <1>4, <1>5 DEF FlowInv

LEMMA StopInv ==
  ASSUME FlowInv, Stop
  PROVE  FlowInv'
<1>1. /\ UNCHANGED <<records, readers, inHand, exported, accepted, processed>>
      /\ flowRunning /\ ~flowRunning' /\ (panicked' => closed)
  BY DEF Stop
<1>2. RecordInv' /\ CountInv'
  BY <1>1, FlowIdle DEF FlowInv, RecordInv
<1>3. PanicInv'
  BY <1>1 DEF FlowInv, PanicInv, Started
<1> QED BY <1>2, <1>3 DEF FlowInv

LEMMA ExportInv ==
  ASSUME FlowInv, Export
  PROVE  FlowInv'
<1> DEFINE r == exported + 1
<1>1. /\ UNCHANGED <<flowRunning, closed, readers, inHand, processed>>
      /\ exported' = r /\ ~panicked
      /\ panicked' => (flowRunning /\ closed)
      /\ \/ UNCHANGED <<records, accepted>>
         \/ records' = Append(records, r) /\ accepted' = Append(accepted, r)
  BY DEF Export
<1>2. PanicInv'
  BY <1>1 DEF FlowInv, PanicInv, Started
<1>3. /\ exported \in Nat /\ r \in Nat /\ 1 .. exported \subseteq 1 .. r /\ r \in 1 .. r
      /\ r \notin 1 .. exported /\ 0 .. exported \subseteq 0 .. r
  BY DEF FlowInv, RecordInv
<1>4. /\ records \in Seq(1 .. r) /\ accepted \in Seq(1 .. r)
      /\ processed \subseteq 1 .. r /\ inHand \in [Goroutines -> 0 .. r]
  BY <1>3 DEF FlowInv, RecordInv
<1> HIDE DEF r
<1>5. InHand' = InHand /\ readers' = readers /\ inHand' = inHand /\ processed' = processed
  BY <1>1 DEF InHand
<1>6. CASE UNCHANGED <<records, accepted>>
  <2>1. Buffered' = Buffered /\ Taken' = Taken
    BY <1>6 DEF Buffered, Taken
  <2>2. RecordInv'
    BY <1>1, <1>3, <1>4, <1>5, <1>6, <2>1 DEF FlowInv, RecordInv
  <2>3. CountInv'
    BY <1>5, <1>6, <2>1 DEF FlowInv, CountInv
  <2> QED BY <1>2, <2>2, <2>3 DEF FlowInv
<1>7. CASE records' = Append(records, r) /\ accepted' = Append(accepted, r)
  <2>1. /\ records' \in Seq(1 .. r) /\ Len(records') = Len(records) + 1
        /\ DOMAIN records' = 1 .. Len(records) + 1 /\ DOMAIN records = 1 .. Len(records)
        /\ Len(records) \in Nat
        /\ records'[Len(records) + 1] = r /\ \A i \in DOMAIN records : records'[i] = records[i]
        /\ Buffered' = Buffered \cup {r}
    <3> DEFINE T == 1 .. r
    <3>1. records \in Seq(T) /\ r \in T
      BY <1>3, <1>4
    <3> HIDE DEF T
    <3>2. /\ records' \in Seq(T) /\ Len(records') = Len(records) + 1
          /\ DOMAIN records' = 1 .. Len(records) + 1 /\ DOMAIN records = 1 .. Len(records)
          /\ Len(records) \in Nat
          /\ records'[Len(records) + 1] = r /\ \A i \in DOMAIN records : records'[i] = records[i]
          /\ {records'[i] : i \in DOMAIN records'} = {records[i] : i \in DOMAIN records} \cup {r}
      BY <1>7, <3>1, AppendFacts
    <3> QED BY <3>2 DEF T, Buffered
  <2>2. /\ accepted' \in Seq(1 .. r) /\ Len(accepted') = Len(accepted) + 1
        /\ Len(accepted) \in Nat /\ Taken' = Taken \cup {r}
    <3> DEFINE T == 1 .. r
    <3>1. accepted \in Seq(T) /\ r \in T
      BY <1>3, <1>4
    <3> HIDE DEF T
    <3>2. /\ accepted' \in Seq(T) /\ Len(accepted') = Len(accepted) + 1 /\ Len(accepted) \in Nat
          /\ {accepted'[i] : i \in DOMAIN accepted'} = {accepted[i] : i \in DOMAIN accepted} \cup {r}
      BY <1>7, <3>1, AppendFacts
    <3> QED BY <3>2 DEF T, Taken
  <2>3. \A i \in DOMAIN records : records[i] \in 1 .. exported
    BY DEF FlowInv, RecordInv
  <2>4. \A i, j \in DOMAIN records' : records'[i] = records'[j] => i = j
    <3>1. \A i \in DOMAIN records' : i \in DOMAIN records \/ i = Len(records) + 1
      BY <2>1
    <3>2. \A i, j \in DOMAIN records : records[i] = records[j] => i = j
      BY DEF FlowInv, RecordInv
    <3>3. \A i \in DOMAIN records : records[i] # r
      BY <1>3, <2>3
    <3> QED BY <2>1, <3>1, <3>2, <3>3
  <2>5. r \notin InHand /\ r \notin processed
    <3>1. InHand \subseteq 1 .. exported
      BY FlowSets DEF FlowInv
    <3> QED BY <1>3, <3>1 DEF FlowInv, RecordInv
  <2>6. RecordInv'
    <3>1. Buffered' \cap InHand' = {} /\ Buffered' \cap processed' = {} /\ InHand' \cap processed' = {}
      BY <1>5, <2>1, <2>5 DEF FlowInv, RecordInv
    <3> QED BY <1>1, <1>3, <1>4, <1>5, <2>1, <2>2, <2>4, <3>1 DEF FlowInv, RecordInv
  <2>7. CountInv'
    <3>1. Taken' = Buffered' \cup InHand' \cup processed'
      BY <1>5, <2>1, <2>2 DEF FlowInv, CountInv
    <3>2. Len(accepted') = Len(records') + Cardinality(InHand') + Cardinality(processed')
      BY <1>5, <2>1, <2>2, FlowSets DEF FlowInv, CountInv
    <3> QED BY <3>1, <3>2 DEF CountInv
  <2> QED BY <1>2, <2>6, <2>7 DEF FlowInv
<1> QED BY <1>1, <1>6, <1>7

LEMMA ReceiveInv ==
  ASSUME FlowInv, NEW g \in Goroutines, Receive(g)
  PROVE  FlowInv'
<1> DEFINE r == Head(records)
<1>1. /\ UNCHANGED <<flowRunning, closed, exported, accepted, processed, panicked>>
      /\ readers[g] = "receiving" /\ records # <<>>
      /\ readers' = [readers EXCEPT ![g] = "busy"]
      /\ inHand' = [inHand EXCEPT ![g] = r] /\ records' = Tail(records)
  BY DEF Receive
<1>2. records \in Seq(1 .. exported) /\ exported \in Nat
  BY DEF FlowInv, RecordInv
<1>3. /\ r \in 1 .. exported /\ r = records[1] /\ records' \in Seq(1 .. exported)
      /\ Len(records) \in Nat \ {0} /\ Len(records') = Len(records) - 1
      /\ DOMAIN records = 1 .. Len(records) /\ DOMAIN records' = 1 .. Len(records) - 1
      /\ \A i \in DOMAIN records' : records'[i] = records[i + 1]
      /\ Buffered = Buffered' \cup {r}
  <2> DEFINE T == 1 .. exported
  <2>1. records \in Seq(T) /\ records # <<>> /\ records' = Tail(records)
    BY <1>1, <1>2
  <2> HIDE DEF T
  <2>2. /\ r \in T /\ r = records[1] /\ records' \in Seq(T)
        /\ Len(records) \in Nat \ {0} /\ Len(records') = Len(records) - 1
        /\ DOMAIN records = 1 .. Len(records) /\ DOMAIN records' = 1 .. Len(records) - 1
        /\ \A i \in DOMAIN records' : records'[i] = records[i + 1]
        /\ {records[i] : i \in DOMAIN records} = {records'[i] : i \in DOMAIN records'} \cup {r}
    <3> DEFINE t == Tail(records)
    <3>1. /\ Head(records) \in T /\ Head(records) = records[1] /\ t \in Seq(T)
          /\ Len(records) \in Nat \ {0} /\ Len(t) = Len(records) - 1
          /\ DOMAIN records = 1 .. Len(records) /\ DOMAIN t = 1 .. Len(records) - 1
          /\ \A i \in DOMAIN t : t[i] = records[i + 1]
          /\ {records[i] : i \in DOMAIN records} = {t[i] : i \in DOMAIN t} \cup {Head(records)}
      BY <2>1, TailFacts, Zenon
    <3>2. records' = t
      BY <2>1
    <3> HIDE DEF t
    <3> QED BY <3>1, <3>2, Zenon
  <2> HIDE DEF r
  <2> QED BY <2>2 DEF T, Buffered
<1> HIDE DEF r
<1>4. /\ readers' \in [Goroutines -> ReaderStates] /\ readers'[g] = "busy"
      /\ \A h \in Goroutines \ {g} : readers'[h] = readers[h]
  BY <1>1 DEF FlowInv, RecordInv, ReaderStates
<1>5. /\ inHand' \in [Goroutines -> 0 .. exported] /\ inHand'[g] = r
      /\ \A h \in Goroutines \ {g} : inHand'[h] = inHand[h]
  <2>1. inHand \in [Goroutines -> 0 .. exported] /\ r \in 0 .. exported
    BY <1>2, <1>3 DEF FlowInv, RecordInv
  <2> QED BY <1>1, <2>1
<1>6. inHand[g] = NoRecord /\ r # NoRecord
  BY <1>1, <1>2, <1>3 DEF FlowInv, RecordInv, NoRecord
<1>7. \A i, j \in DOMAIN records' : /\ records'[i] = records'[j] => i = j
                                    /\ records'[i] # r
  <2>1. \A i \in DOMAIN records' : i + 1 \in DOMAIN records /\ i + 1 # 1 /\ 1 \in DOMAIN records
    BY <1>3
  <2>2. \A i, j \in DOMAIN records' : i + 1 = j + 1 => i = j
    BY <1>3
  <2>3. \A i, j \in DOMAIN records : records[i] = records[j] => i = j
    BY DEF FlowInv, RecordInv
  <2> QED BY <1>3, <2>1, <2>2, <2>3
<1>8. r \notin Buffered' /\ r \notin InHand /\ r \notin processed
  <2>1. r \in Buffered
    BY <1>3
  <2>2. r \notin Buffered'
    BY <1>7 DEF Buffered
  <2> QED BY <2>1, <2>2 DEF FlowInv, RecordInv
<1>9. InHand' = InHand \cup {r}
  BY <1>5, <1>6 DEF InHand
<1>10. \A h, i \in Goroutines : (inHand'[h] = inHand'[i] /\ inHand'[h] # NoRecord) => h = i
  <2>1. \A h \in Goroutines : inHand[h] # r
    BY <1>6, <1>8 DEF InHand
  <2> QED BY <1>5, <2>1 DEF FlowInv, RecordInv
<1>11. RecordInv'
  <2>1. Buffered' \cap InHand' = {} /\ Buffered' \cap processed' = {} /\ InHand' \cap processed' = {}
    BY <1>1, <1>3, <1>8, <1>9 DEF FlowInv, RecordInv
  <2>2. \A h \in Goroutines : inHand'[h] # NoRecord <=> readers'[h] = "busy"
    BY <1>4, <1>5, <1>6 DEF FlowInv, RecordInv
  <2> QED BY <1>1, <1>2, <1>3, <1>4, <1>5, <1>7, <1>10, <2>1, <2>2 DEF FlowInv, RecordInv
<1>12. CountInv'
  <2>1. Taken' = Taken /\ processed' = processed /\ accepted' = accepted
    BY <1>1 DEF Taken
  <2>2. Taken' = Buffered' \cup InHand' \cup processed'
    BY <1>3, <1>9, <2>1 DEF FlowInv, CountInv
  <2>3. Cardinality(InHand') = Cardinality(InHand) + 1
    BY <1>8, <1>9, FlowSets, FS_AddElement DEF FlowInv
  <2>4. Len(accepted') = Len(records') + Cardinality(InHand') + Cardinality(processed')
    BY <1>3, <2>1, <2>3, FlowSets DEF FlowInv, CountInv
  <2> QED BY <2>2, <2>4 DEF CountInv
<1>13. PanicInv'
  <2>1. \A h \in Goroutines : Started(h) => Started(h)'
    BY <1>4 DEF Started
  <2> QED BY <1>1, <2>1 DEF FlowInv, PanicInv
<1> QED BY <1>11, <1>12, <1>13 DEF FlowInv

LEMMA ProcessInv ==
  ASSUME FlowInv, NEW g \in Goroutines, Process(g)
  PROVE  FlowInv'
<1> DEFINE r == inHand[g]
<1>1. /\ UNCHANGED <<flowRunning, records, closed, exported, accepted, panicked>>
      /\ readers[g] = "busy"
      /\ readers' = [readers EXCEPT ![g] = "receiving"]
      /\ inHand' = [inHand EXCEPT ![g] = NoRecord] /\ processed' = processed \cup {r}
  BY DEF Process
<1>2. r # NoRecord /\ r \in 1 .. exported /\ r \in InHand /\ exported \in Nat
  BY <1>1 DEF FlowInv, RecordInv, InHand, NoRecord
<1>3. /\ readers' \in [Goroutines -> ReaderStates] /\ readers'[g] = "receiving"
      /\ \A h \in Goroutines \ {g} : readers'[h] = readers[h]
  BY <1>1 DEF FlowInv, RecordInv, ReaderStates
<1>4. /\ inHand' \in [Goroutines -> 0 .. exported] /\ inHand'[g] = NoRecord
      /\ \A h \in Goroutines \ {g} : inHand'[h] = inHand[h] /\ inHand[h] # r
  <2>1. inHand \in [Goroutines -> 0 .. exported] /\ NoRecord \in 0 .. exported
    BY <1>2 DEF FlowInv, RecordInv, NoRecord
  <2>2. \A h \in Goroutines \ {g} : inHand[h] # r
    BY <1>2 DEF FlowInv, RecordInv
  <2> QED BY <1>1, <2>1, <2>2
<1> HIDE DEF r
<1>5. InHand' = InHand \ {r}
  BY <1>4 DEF InHand, r
<1>6. Buffered' = Buffered /\ Taken' = Taken
  BY <1>1 DEF Buffered, Taken
<1>7. r \notin processed /\ r \notin Buffered
  BY <1>2 DEF FlowInv, RecordInv
<1>8. RecordInv'
  <2>1. Buffered' \cap InHand' = {} /\ Buffered' \cap processed' = {} /\ InHand' \cap processed' = {}
    BY <1>1, <1>5, <1>6, <1>7 DEF FlowInv, RecordInv
  <2>2. \A h \in Goroutines : inHand'[h] # NoRecord <=> readers'[h] = "busy"
    BY <1>3, <1>4 DEF FlowInv, RecordInv
  <2>3. \A h, i \in Goroutines : (inHand'[h] = inHand'[i] /\ inHand'[h] # NoRecord) => h = i
    BY <1>4 DEF FlowInv, RecordInv
  <2>4. processed' \subseteq 1 .. exported
    BY <1>1, <1>2 DEF FlowInv, RecordInv
  <2> QED BY <1>1, <1>3, <1>4, <2>1, <2>2, <2>3, <2>4 DEF FlowInv, RecordInv
<1>9. CountInv'
  <2>1. Taken' = Buffered' \cup InHand' \cup processed'
    BY <1>1, <1>2, <1>5, <1>6 DEF FlowInv, CountInv
  <2>2. Cardinality(InHand') = Cardinality(InHand) - 1
    BY <1>2, <1>5, FlowSets, FS_RemoveElement DEF FlowInv
  <2>3. Cardinality(processed') = Cardinality(processed) + 1
    BY <1>1, <1>7, FlowSets, FS_AddElement DEF FlowInv
  <2>4. Len(accepted') = Len(records') + Cardinality(InHand') + Cardinality(processed')
    BY <1>1, <2>2, <2>3, FlowSets DEF FlowInv, CountInv
  <2> QED BY <2>1, <2>4 DEF CountInv
<1>10. PanicInv'
  <2>1. \A h \in Goroutines : Started(h) => Started(h)'
    BY <1>3 DEF Started
  <2> QED BY <1>1, <2>1 DEF FlowInv, PanicInv
<1> QED BY <1>8, <1>9, <1>10 DEF FlowInv

LEMMA ReturnInv ==
  ASSUME FlowInv, NEW g \in Goroutines, Return(g)
  PROVE  FlowInv'
<1>1. /\ UNCHANGED <<flowRunning, records, closed, inHand, exported, accepted, processed, panicked>>
      /\ readers[g] = "receiving" /\ readers' = [readers EXCEPT ![g] = "returned"]
  BY DEF Return
<1>2. /\ readers' \in [Goroutines -> ReaderStates] /\ readers'[g] = "returned"
      /\ \A h \in Goroutines \ {g} : readers'[h] = readers[h]
  BY <1>1 DEF FlowInv, RecordInv, ReaderStates
<1>3. RecordInv' /\ CountInv'
  <2>1. \A h \in Goroutines : readers'[h] = "busy" <=> readers[h] = "busy"
    BY <1>1, <1>2
  <2> QED BY <1>1, <1>2, <2>1, FlowIdle DEF FlowInv
<1>4. PanicInv'
  <2>1. \A h \in Goroutines : Started(h) => Started(h)'
    BY <1>2 DEF Started
  <2> QED BY <1>1, <2>1 DEF FlowInv, PanicInv
<1> QED BY <1>3, <1>4 DEF FlowInv

LEMMA FlowNextInv ==
  ASSUME FlowInv, [FlowNext]_flowVars
  PROVE  FlowInv'
<1>1. CASE Start
  BY <1>1, StartInv
<1>2. CASE Stop
  BY <1>2, StopInv
<1>3. CASE Export
  BY <1>3, ExportInv
<1>4. ASSUME NEW g \in Goroutines, Reader(g) PROVE FlowInv'
  BY <1>4, ReceiveInv, ProcessInv, ReturnInv DEF Reader
<1>5. CASE UNCHANGED flowVars
  <2>1. UNCHANGED <<flowRunning, records, closed, readers, inHand, exported, accepted,
                    processed, panicked>>
    BY <1>5 DEF flowVars
  <2>2. RecordInv' /\ CountInv'
    BY <2>1, FlowIdle DEF FlowInv, RecordInv
  <2>3. PanicInv'
    BY <2>1 DEF FlowInv, PanicInv, Started
  <2> QED BY <2>2, <2>3 DEF FlowInv
<1> QED BY <1>1, <1>2, <1>3, <1>4, <1>5 DEF FlowNext

\* Records and goroutines of the exporter stay accounted for through Start, Stop,
\* Export and the goroutines' loops.
THEOREM FlowInvariant == FlowSpec => []FlowInv
<1>1. FlowInit => FlowInv
  BY FlowInitInv
<1>2. FlowInv /\ [FlowNext]_flowVars => FlowInv'
  BY FlowNextInv
<1> QED BY <1>1, <1>2, PTL DEF FlowSpec

\* An accepted record is in exactly one of the buffer, a goroutine's hand and the
\* processed ones, whatever Stop, a second Start and several goroutines do.
THEOREM NoRecordLost ==
  FlowSpec => []AcceptedIsAccountedFor
<1>1. FlowInv => AcceptedIsAccountedFor
  BY DEF FlowInv, CountInv, Buffered, Taken, InHand, AcceptedIsAccountedFor, ToSet
<1> QED BY <1>1, FlowInvariant, PTL

\* Export and Stop never meet a closed channel unless Start was called after Stop.
THEOREM PanicNeedsRestart ==
  FlowSpec => []OnlyRestartPanics
<1>1. FlowInv => OnlyRestartPanics
  <2> SUFFICES ASSUME FlowInv, panicked
               PROVE  Cardinality({g \in Goroutines : readers[g] # "none"}) > 1
    BY DEF OnlyRestartPanics
  <2> DEFINE S == {g \in Goroutines : readers[g] # "none"}
  <2>1. PICK g \in S, h \in S : g # h
    BY DEF FlowInv, PanicInv, Started
  <2>2. IsFiniteSet(Goroutines)
    BY FS_Interval, BoundsAssumption DEF Goroutines
  <2>3. IsFiniteSet(S) /\ {g, h} \in SUBSET S
    BY <2>1, <2>2, FS_Subset
  <2>4. Cardinality({g, h}) = 2
    <3>1. IsFiniteSet({g}) /\ Cardinality({g}) = 1 /\ {g, h} = {g} \cup {h} /\ h \notin {g}
      BY <2>1, FS_Singleton
    <3>2. Cardinality({g} \cup {h}) = Cardinality({g}) + 1
      BY <3>1, FS_AddElement
    <3> QED BY <3>1, <3>2
  <2>5. Cardinality({g, h}) <= Cardinality(S) /\ Cardinality(S) \in Nat
    BY <2>3, FS_Subset, FS_CardinalityType
  <2> QED BY <2>4, <2>5
<1> QED BY <1>1, FlowInvariant, PTL
=============================================================================
