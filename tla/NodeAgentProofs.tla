--------------------------- MODULE NodeAgentProofs ---------------------------
(***************************************************************************)
(* Proofs about NodeAgent for any pods, sandboxes, block size and either   *)
(* data plane, with two inductive invariants.                              *)
(*                                                                         *)
(* Inv holds as long as the agent lives (AgentLives): ADD, DEL and         *)
(* reconcile with every error of the network and of the data plane, failed *)
(* checkpoints and lost answers.  Across a restart most of what follows    *)
(* from it is false, see the README.  The properties speak of the moments  *)
(* between handlers.  What makes them inductive is Owned(p): what pod p    *)
(* has, whether podEndpoints says so or only the locals of the HandleAdd   *)
(* that holds agent.mu; and Programmed(p): what the data plane should know *)
(* of p, which HandleDel removes first.  Records and identities match Owned*)
(* at every step, the tables match Programmed, and an interface is where   *)
(* its sandbox's phase says, or DeleteLink failed for it.                  *)
(*                                                                         *)
(* RestartInv, in the second half, holds through every fault: what the     *)
(* allocator, the checkpoint and a Restore in progress keep when the       *)
(* process may die at any step.                                            *)
(***************************************************************************)
EXTENDS NodeAgent, FiniteSetTheorems, SequenceTheorems, WellFoundedInduction, TLAPS

\* No crash, no SIGTERM, no repeated DEL of a sandbox that is gone.  Every netlink
\* call may fail, DeleteLink too, and so may the data plane and the checkpoint.
AgentLives == Faults \cap {"crash", "stop", "drain", "redel"} = {}

Adding == {"addVeth", "addMove", "addAddress", "addDp"}
Inactive == {"idle", "gone"}
Added == {"up", "failed", "delWait", "delRelease"}

\* What pod p has.
Owned(p) ==
  IF mu \in Sandboxes /\ PodOf[mu] = p /\ add # NoEndpoint THEN add ELSE podEndpoints[p]

\* What the data plane should know of pod p: HandleDel tells it first.
Programmed(p) ==
  IF \E c \in Sandboxes : PodOf[c] = p /\ phase[c] = "delRelease"
  THEN NoEndpoint ELSE podEndpoints[p]

EndpointType == [ip : IP!Offsets, id : ID!IDs]

\* The agent's locks, locals and endpoints.
ProcessInv ==
  /\ agent = "up"
  /\ mu \in Sandboxes \cup {"free", "reconcile"}
  /\ phase \in [Sandboxes -> InFlight \cup {"idle", "up", "failed", "gone"}]
  /\ \A c \in Sandboxes : mu = c <=> phase[c] \in Adding \cup {"delRelease"}
  /\ \A c \in Sandboxes : phase[c] \in Adding => add \in EndpointType
  /\ (\A c \in Sandboxes : phase[c] \notin Adding) => add = NoEndpoint
  /\ podEndpoints \in [Pods -> EndpointType \cup {NoEndpoint}]

\* The runtime has one sandbox of a pod at a time, and an endpoint belongs to
\* one that was added.
RuntimeInv ==
  /\ \A c, d \in Sandboxes : (c # d /\ PodOf[c] = PodOf[d]) =>
       phase[c] \in Inactive \/ phase[d] \in Inactive
  /\ \A p \in Pods : podEndpoints[p] # NoEndpoint =>
       \E c \in Sandboxes : PodOf[c] = p /\ phase[c] \in Added
  /\ \A c \in Sandboxes : Up(c) \/ phase[c] = "delRelease" =>
       podEndpoints[PodOf[c]] # NoEndpoint

PodLink(ip) == [end |-> "pod", ip |-> ip]

\* c's interface is deleted, or DeleteLink failed.
Unlinked(c) == links[c] = NoLink \/ c \in undeleted

\* Where c's interface is at each step of c's life.
LinkInv(c) ==
  /\ phase[c] \in {"idle", "addWait", "addVeth"} => links[c] = NoLink
  /\ phase[c] \in {"gone", "delRelease"} => Unlinked(c)
  /\ phase[c] = "addMove" => links[c] = [end |-> "host", ip |-> NoIP]
  /\ phase[c] = "addAddress" => links[c] = PodLink(NoIP)
  /\ phase[c] = "addDp" => links[c] = PodLink(add.ip)
  /\ phase[c] \in Added \ {"delRelease"} =>
       IF podEndpoints[PodOf[c]] = NoEndpoint THEN Unlinked(c)
       ELSE links[c] = PodLink(podEndpoints[PodOf[c]].ip)

LinksInv ==
  /\ links \in [Sandboxes -> [end : {"none", "host", "pod"}, ip : IP!Offsets \cup {NoIP}]]
  /\ \A c \in Sandboxes : LinkInv(c)

\* The invariant of NodeAllocatorProofs, for an allocator a.
AllocSound(a) ==
  /\ a \in [bitmap : SUBSET IP!Offsets, allocated : [Keys -> IP!Offsets \cup {NoIP}]]
  /\ \A k, m \in Keys : (k # m /\ a.allocated[k] # NoIP) => a.allocated[k] # a.allocated[m]
  /\ a.bitmap = {a.allocated[k] : k \in Keys} \ {NoIP}

AddressInv ==
  /\ AllocSound(alloc)
  /\ alloc.allocated[Gateway] = GatewayIP
  /\ \A p \in Pods : alloc.allocated[p] = Owned(p).ip

\* Sandboxes whose ADD has taken an identity.
Asked == {c \in Sandboxes : phase[c] \notin {"idle", "addWait"}}

\* A pod's name is one of its labels, so that an identity has one user.
IdentityInv ==
  /\ ids \in ID!IdentityType
  /\ ids.nextID >= 1 /\ ids.nextID <= 1 + Cardinality(Asked)
  /\ \A i \in ids.live :
       /\ i < ids.nextID
       /\ ids.refCount[i] = 1
       /\ ids.labels[i] \in Labels
       /\ ids.hashToID[ids.labels[i]] = i
       /\ \E p \in Pods : Owned(p).id = i
  /\ \A l \in Labels : ids.hashToID[l] # NoID =>
       ids.hashToID[l] \in ids.live /\ ids.labels[ids.hashToID[l]] = l
  /\ \A p \in Pods : Owned(p).id # NoID =>
       Owned(p).id \in ids.live /\ ids.labels[Owned(p).id][1] = p

\* The programs' maps exist, and the iptables data plane has none.
DataPlaneSound(d) ==
  /\ d \in DP!Type(Indices, ID!IDs \cup {NoID})
  /\ d.kind = "ebpf" => {"identity_map", "endpoint_map"} \subseteq d.maps
  /\ d.kind = "iptables" => /\ d.identityMap = DP!NoIdentities
                            /\ d.identity_map = DP!NoIdentities
                            /\ d.endpoint_map = DP!NoEndpoints

DataPlaneInv ==
  /\ DataPlaneSound(dp)
  /\ \A ip \in IP!Offsets : (\A p \in Pods : Programmed(p).ip # ip) => DP!Forgot(dp, ip)
  /\ \A p \in Pods : Programmed(p) # NoEndpoint =>
       DP!Knows(dp, Programmed(p).ip, Programmed(p).id)

\* The inductive invariant.
Inv ==
  /\ ProcessInv /\ RuntimeInv /\ LinksInv
  /\ AddressInv /\ IdentityInv /\ DataPlaneInv

-----------------------------------------------------------------------------
(* Constants.                                                              *)

LEMMA Constants ==
  /\ NoIP = -1 /\ NoID = -1
  /\ IP!Offsets = 0 .. (BlockSize - 1) /\ IP!Usable = 1 .. (BlockSize - 2)
  /\ ID!IDs = 0 .. (IDSpace - 1)
  /\ NoIP \notin IP!Offsets /\ NoID \notin ID!IDs
  /\ IP!Usable \subseteq IP!Offsets /\ GatewayIP \in IP!Usable
  /\ NoEndpoint \notin EndpointType
  /\ NoEndpoint.ip = NoIP /\ NoEndpoint.id = NoID
  /\ IDSpace \in Nat /\ IDSpace >= 2
<1>1. IDSpace \in Nat /\ IDSpace >= 2
  BY IDSpaceAssumption, FS_CardinalityType
<1> QED BY <1>1, BlockSizeAssumption
        DEF NoIP, NoID, IP!NoIP, ID!NoID, IP!Offsets, IP!Usable, ID!IDs, GatewayIP,
            NoEndpoint, EndpointType

-----------------------------------------------------------------------------
(* The address allocator.                                                  *)

LEMMA MinIsLeast ==
  ASSUME NEW S \in SUBSET Nat, S # {}
  PROVE  IP!Min(S) \in S /\ \A x \in S : IP!Min(S) =< x
<1>1. \E x \in S : \A y \in S : ~(<<y, x>> \in OpToRel(<, Nat))
  BY NatLessThanWellFounded, WFMin
<1>2. \A x, y \in Nat : (<<y, x>> \in OpToRel(<, Nat)) <=> y < x
  BY DEF OpToRel
<1>3. PICK x \in S : \A y \in S : ~(<<y, x>> \in OpToRel(<, Nat))
  BY <1>1
<1>4. \A y \in S : ~(y < x)
  BY <1>2, <1>3
<1>5. \A y \in S : x =< y
  BY <1>4
<1> QED BY <1>5 DEF IP!Min

\* Allocate for a key without a record.
LEMMA AllocateFacts ==
  ASSUME NEW a, AllocSound(a), NEW k \in Keys, a.allocated[k] = NoIP
  PROVE  LET ip == IP!AllocateIP(a, k)
             b == IP!AfterAllocate(a, k)
         IN  ip # NoIP => /\ ip \in IP!Usable
                          /\ \A m \in Keys : a.allocated[m] # ip
                          /\ b.allocated = [a.allocated EXCEPT ![k] = ip]
                          /\ AllocSound(b)
<1> DEFINE ip == IP!AllocateIP(a, k)
           b == IP!AfterAllocate(a, k)
<1> SUFFICES ASSUME ip # NoIP
             PROVE  /\ ip \in IP!Usable
                    /\ \A m \in Keys : a.allocated[m] # ip
                    /\ b.allocated = [a.allocated EXCEPT ![k] = ip]
                    /\ AllocSound(b)
  OBVIOUS
<1>1. ~IP!Has(a, k) /\ IP!Free(a) # {}
  BY DEF IP!Has, IP!AllocateIP, NoIP
<1>2. ip = IP!Min(IP!Free(a))
  BY <1>1 DEF IP!AllocateIP
<1>3. IP!Free(a) \in SUBSET Nat
  BY Constants, BlockSizeAssumption DEF IP!Free
<1>4. ip \in IP!Free(a)
  BY <1>1, <1>2, <1>3, MinIsLeast
<1>5. ip \in IP!Usable /\ ip \notin a.bitmap
  BY <1>4 DEF IP!Free
<1>6. \A m \in Keys : a.allocated[m] # ip
  BY <1>5 DEF AllocSound
<1>7. b = [bitmap |-> a.bitmap \cup {ip}, allocated |-> [a.allocated EXCEPT ![k] = ip]]
  BY <1>1 DEF IP!AfterAllocate
<1>8. ip \in IP!Offsets
  BY <1>5, Constants
<1> HIDE DEF ip, b
<1>9. /\ b.bitmap = a.bitmap \cup {ip} /\ b.allocated = [a.allocated EXCEPT ![k] = ip]
      /\ b \in [bitmap : SUBSET IP!Offsets, allocated : [Keys -> IP!Offsets \cup {NoIP}]]
  BY <1>7, <1>8 DEF AllocSound
<1>10. b.allocated[k] = ip /\ \A m \in Keys \ {k} : b.allocated[m] = a.allocated[m]
  BY <1>9 DEF AllocSound
<1>11. \A j, m \in Keys : (j # m /\ b.allocated[j] # NoIP) => b.allocated[j] # b.allocated[m]
  BY <1>6, <1>10 DEF AllocSound
<1>12. b.bitmap = {b.allocated[m] : m \in Keys} \ {NoIP}
  <2>1. \A x : x \in b.bitmap <=> (x = ip \/ \E m \in Keys : x = a.allocated[m] /\ x # NoIP)
    BY <1>9 DEF AllocSound
  <2>2. \A x : x \in b.bitmap <=> \E m \in Keys : x = b.allocated[m] /\ x # NoIP
    BY <1>10, <2>1
  <2> QED BY <2>2
<1> QED BY <1>5, <1>6, <1>9, <1>11, <1>12 DEF AllocSound

LEMMA ReleaseFacts ==
  ASSUME NEW a, AllocSound(a), NEW k \in Keys
  PROVE  LET b == IP!AfterRelease(a, k)
         IN  b.allocated = [a.allocated EXCEPT ![k] = NoIP] /\ AllocSound(b)
<1> DEFINE b == IP!AfterRelease(a, k)
<1>1. CASE a.allocated[k] = NoIP
  <2>1. b = a
    BY <1>1 DEF IP!AfterRelease, IP!Has, NoIP
  <2> QED BY <1>1, <2>1 DEF AllocSound
<1>2. CASE a.allocated[k] # NoIP
  <2>1. b = [bitmap |-> a.bitmap \ {a.allocated[k]}, allocated |-> [a.allocated EXCEPT ![k] = NoIP]]
    BY <1>2 DEF IP!AfterRelease, IP!Has, NoIP
  <2> HIDE DEF b
  <2>2. /\ b.bitmap = a.bitmap \ {a.allocated[k]}
        /\ b.allocated = [a.allocated EXCEPT ![k] = NoIP]
        /\ b \in [bitmap : SUBSET IP!Offsets, allocated : [Keys -> IP!Offsets \cup {NoIP}]]
    BY <2>1 DEF AllocSound
  <2>3. b.allocated[k] = NoIP /\ \A m \in Keys \ {k} : b.allocated[m] = a.allocated[m]
    BY <2>2 DEF AllocSound
  <2>4. \A j, m \in Keys : (j # m /\ b.allocated[j] # NoIP) => b.allocated[j] # b.allocated[m]
    BY <2>3 DEF AllocSound
  <2>5. b.bitmap = {b.allocated[m] : m \in Keys} \ {NoIP}
    <3>1. \A x : x \in b.bitmap <=> /\ x # a.allocated[k] /\ x # NoIP
                                    /\ \E m \in Keys : x = a.allocated[m]
      BY <2>2 DEF AllocSound
    <3>2. \A m \in Keys \ {k} : a.allocated[m] # a.allocated[k]
      BY <1>2 DEF AllocSound
    <3>3. \A x : x \in b.bitmap <=> \E m \in Keys : x = b.allocated[m] /\ x # NoIP
      BY <2>3, <3>1, <3>2
    <3> QED BY <3>3
  <2> QED BY <2>2, <2>4, <2>5 DEF AllocSound, b
<1> QED BY <1>1, <1>2

\* Reconcile with every recorded key active.
LEMMA ReconcileFacts ==
  ASSUME NEW a, AllocSound(a), NEW active, \A k \in Keys : a.allocated[k] # NoIP => k \in active
  PROVE  IP!AfterReconcile(a, active) = a
<1>1. IP!Dangling(a, active) = {}
  BY DEF IP!Dangling, IP!AllocatedKeys, IP!Has, NoIP
<1>2. /\ {a.allocated[k] : k \in {}} = {}
      /\ a.bitmap \ {} = a.bitmap
      /\ [k \in Keys |-> IF k \in {} THEN NoIP ELSE a.allocated[k]] = a.allocated
  BY DEF AllocSound
<1> QED BY <1>1, <1>2 DEF IP!AfterReconcile, AllocSound, NoIP

-----------------------------------------------------------------------------
(* The identity allocator.                                                 *)

\* AllocateIdentity of labels that have no identity, before nextID wraps.
LEMMA AllocateIdentityFacts ==
  ASSUME NEW a \in ID!IdentityType, NEW l \in Labels, a.hashToID[l] = NoID,
         a.nextID + 1 < IDSpace
  PROVE  LET b == ID!AfterAllocateIdentity(a, l)
         IN  /\ ID!AllocatedID(a, l) = a.nextID
             /\ b \in ID!IdentityType
             /\ b.live = a.live \cup {a.nextID}
             /\ b.refCount = [a.refCount EXCEPT ![a.nextID] = 1]
             /\ b.labels = [a.labels EXCEPT ![a.nextID] = l]
             /\ b.hashToID = [a.hashToID EXCEPT ![l] = a.nextID]
             /\ b.nextID = a.nextID + 1
<1>1. a.nextID \in ID!IDs
  BY DEF ID!IdentityType
<1>2. (a.nextID + 1) % IDSpace = a.nextID + 1 /\ a.nextID + 1 \in ID!IDs
  <2>1. a.nextID \in 0 .. (IDSpace - 1) /\ IDSpace \in Nat
    BY <1>1, Constants
  <2>2. (a.nextID + 1) % IDSpace = a.nextID + 1 /\ a.nextID + 1 \in 0 .. (IDSpace - 1)
    BY <2>1
  <2> QED BY <2>2, Constants
<1> QED BY <1>1, <1>2 DEF ID!AfterAllocateIdentity, ID!AllocatedID, ID!IdentityType, NoID

\* ReleaseIdentity by the only user.
LEMMA ReleaseIdentityFacts ==
  ASSUME NEW a \in ID!IdentityType, NEW i \in a.live, a.labels[i] \in Labels,
         a.refCount[i] = 1
  PROVE  LET b == ID!AfterReleaseIdentity(a, i)
         IN  /\ b \in ID!IdentityType
             /\ b.live = a.live \ {i}
             /\ b.refCount = [a.refCount EXCEPT ![i] = 0]
             /\ b.labels = a.labels
             /\ b.hashToID = [a.hashToID EXCEPT ![a.labels[i]] = NoID]
             /\ b.nextID = a.nextID
<1>1. i \in ID!IDs /\ a.refCount[i] - 1 <= 0 /\ a.refCount[i] - 1 = 0
  BY DEF ID!IdentityType
<1>2. ID!AfterReleaseIdentity(a, i) =
        [live     |-> a.live \ {i},
         refCount |-> [a.refCount EXCEPT ![i] = 0],
         labels   |-> a.labels,
         hashToID |-> [a.hashToID EXCEPT ![a.labels[i]] = NoID],
         nextID   |-> a.nextID]
  BY <1>1 DEF ID!AfterReleaseIdentity, ID!IdentityType, NoID
<1> QED BY <1>1, <1>2 DEF ID!IdentityType, NoID

-----------------------------------------------------------------------------
(* The data plane.                                                         *)

Entries == [id : ID!IDs, ifIndex : Indices]

LEMMA AddPodEndpointsFacts ==
  ASSUME NEW d, DataPlaneSound(d), NEW D \in SUBSET IP!Offsets, NEW es \in [D -> Entries]
  PROVE  LET b == DP!AddPodEndpoints(d, es)
         IN  /\ DataPlaneSound(b)
             /\ \A a \in D : DP!Knows(b, a, es[a].id)
             /\ \A a \in IP!Offsets \ D :
                  /\ \A i : DP!Knows(d, a, i) => DP!Knows(b, a, i)
                  /\ DP!Forgot(d, a) => DP!Forgot(b, a)
<1> DEFINE b == DP!AddPodEndpoints(d, es)
           E == [id : ID!IDs \cup {NoID}, ifIndex : Indices]
           I == ID!IDs \cup {NoID}
           is == [a \in DOMAIN es |-> es[a].id]
           T == [kind : DP!Kinds, loaded : BOOLEAN, endpoints : [IP!Offsets -> E],
                 identityMap : [IP!Offsets -> I], maps : SUBSET DP!DefaultMaps,
                 identity_map : [IP!Offsets -> I], endpoint_map : [IP!Offsets -> E],
                 accept : SUBSET IP!Offsets]
<1>1. d \in T /\ DP!Type(Indices, ID!IDs \cup {NoID}) = T
  BY DEF DataPlaneSound, DP!Type
<1>2. /\ es \in [D -> E] /\ is \in [D -> I] /\ DOMAIN es = D
      /\ \A a \in D : is[a] = es[a].id
  BY DEF Entries
<1>a. /\ d.endpoints \in [IP!Offsets -> E] /\ d.endpoint_map \in [IP!Offsets -> E]
      /\ d.identityMap \in [IP!Offsets -> I] /\ d.identity_map \in [IP!Offsets -> I]
  BY <1>1
<1> HIDE DEF is, E, I, T
<1>3. /\ DP!Overlay(d.endpoints, es) \in [IP!Offsets -> E]
      /\ \A a \in D : DP!Overlay(d.endpoints, es)[a] = es[a]
      /\ \A a \in IP!Offsets \ D : DP!Overlay(d.endpoints, es)[a] = d.endpoints[a]
  BY <1>a, <1>2 DEF DP!Overlay
<1>4. CASE d.kind = "ebpf"
  <2>1. /\ DP!Overlay(d.identityMap, is) \in [IP!Offsets -> I]
        /\ \A a \in D : DP!Overlay(d.identityMap, is)[a] = is[a]
        /\ \A a \in IP!Offsets \ D : DP!Overlay(d.identityMap, is)[a] = d.identityMap[a]
    BY <1>a, <1>2 DEF DP!Overlay
  <2>2. /\ DP!Overlay(d.identity_map, is) \in [IP!Offsets -> I]
        /\ \A a \in D : DP!Overlay(d.identity_map, is)[a] = is[a]
        /\ \A a \in IP!Offsets \ D : DP!Overlay(d.identity_map, is)[a] = d.identity_map[a]
    BY <1>a, <1>2 DEF DP!Overlay
  <2>3. /\ DP!Overlay(d.endpoint_map, es) \in [IP!Offsets -> E]
        /\ \A a \in D : DP!Overlay(d.endpoint_map, es)[a] = es[a]
        /\ \A a \in IP!Offsets \ D : DP!Overlay(d.endpoint_map, es)[a] = d.endpoint_map[a]
    BY <1>a, <1>2 DEF DP!Overlay
  <2>4. b = [kind |-> d.kind, loaded |-> d.loaded,
             endpoints |-> DP!Overlay(d.endpoints, es),
             identityMap |-> DP!Overlay(d.identityMap, is),
             maps |-> d.maps,
             identity_map |-> DP!Overlay(d.identity_map, is),
             endpoint_map |-> DP!Overlay(d.endpoint_map, es),
             accept |-> d.accept]
    <3>1. "identity_map" \in d.maps /\ "endpoint_map" \in d.maps
      BY <1>4 DEF DataPlaneSound
    <3> QED BY <1>1, <1>4, <3>1
            DEF DP!AddPodEndpoints, DP!EBPFAddPodEndpoints, DP!UpdateMapEntries, is, T
  <2> HIDE DEF b
  <2>5. b \in T
    BY <1>1, <1>3, <2>1, <2>2, <2>3, <2>4 DEF T
  <2>6. DataPlaneSound(b)
    BY <1>1, <1>4, <2>4, <2>5 DEF DataPlaneSound
  <2>7. \A a \in D : DP!Knows(b, a, es[a].id)
    BY <1>2, <1>3, <1>4, <2>1, <2>2, <2>3, <2>4 DEF DP!Knows
  <2>8. ASSUME NEW a \in IP!Offsets \ D
        PROVE  /\ \A i : DP!Knows(d, a, i) => DP!Knows(b, a, i)
               /\ DP!Forgot(d, a) => DP!Forgot(b, a)
    BY <1>3, <1>4, <2>1, <2>2, <2>3, <2>4 DEF DP!Knows, DP!Forgot
  <2> QED BY <2>6, <2>7, <2>8 DEF b
<1>5. CASE d.kind = "iptables"
  <2>1. b = [kind |-> d.kind, loaded |-> d.loaded,
             endpoints |-> DP!Overlay(d.endpoints, es),
             identityMap |-> d.identityMap, maps |-> d.maps,
             identity_map |-> d.identity_map, endpoint_map |-> d.endpoint_map,
             accept |-> d.accept \cup D]
    BY <1>1, <1>2, <1>5 DEF DP!AddPodEndpoints, DP!IptablesAddPodEndpoints, T
  <2> HIDE DEF b
  <2>2. b \in T
    BY <1>1, <1>3, <2>1 DEF T
  <2>3. DataPlaneSound(b)
    BY <1>1, <1>5, <2>1, <2>2 DEF DataPlaneSound
  <2>4. \A a \in D : DP!Knows(b, a, es[a].id)
    BY <1>3, <1>5, <2>1 DEF DP!Knows
  <2>5. ASSUME NEW a \in IP!Offsets \ D
        PROVE  /\ \A i : DP!Knows(d, a, i) => DP!Knows(b, a, i)
               /\ DP!Forgot(d, a) => DP!Forgot(b, a)
    BY <1>3, <1>5, <2>1 DEF DP!Knows, DP!Forgot
  <2> QED BY <2>3, <2>4, <2>5 DEF b
<1> QED BY <1>1, <1>4, <1>5 DEF DP!Kinds, T

LEMMA RemovePodEndpointFacts ==
  ASSUME NEW d, DataPlaneSound(d), NEW ip \in IP!Offsets
  PROVE  LET b == DP!RemovePodEndpoint(d, ip)
         IN  /\ DataPlaneSound(b)
             /\ DP!Forgot(b, ip)
             /\ \A a \in IP!Offsets \ {ip} :
                  /\ \A i : DP!Knows(d, a, i) => DP!Knows(b, a, i)
                  /\ DP!Forgot(d, a) => DP!Forgot(b, a)
<1> DEFINE b == DP!RemovePodEndpoint(d, ip)
           E == [id : ID!IDs \cup {NoID}, ifIndex : Indices]
           I == ID!IDs \cup {NoID}
           T == [kind : DP!Kinds, loaded : BOOLEAN, endpoints : [IP!Offsets -> E],
                 identityMap : [IP!Offsets -> I], maps : SUBSET DP!DefaultMaps,
                 identity_map : [IP!Offsets -> I], endpoint_map : [IP!Offsets -> E],
                 accept : SUBSET IP!Offsets]
<1>1. d \in T /\ DP!Type(Indices, ID!IDs \cup {NoID}) = T
  BY DEF DataPlaneSound, DP!Type
<1>2. DP!NoEntry \in E /\ NoID \in I
  BY DEF DP!NoEntry, Indices
<1>3. /\ d.endpoints \in [IP!Offsets -> E] /\ d.endpoint_map \in [IP!Offsets -> E]
      /\ d.identityMap \in [IP!Offsets -> I] /\ d.identity_map \in [IP!Offsets -> I]
  BY <1>1
<1> HIDE DEF E, I
<1>4. CASE d.kind = "ebpf"
  <2>1. b = [kind |-> d.kind, loaded |-> d.loaded,
             endpoints |-> [d.endpoints EXCEPT ![ip] = DP!NoEntry],
             identityMap |-> [d.identityMap EXCEPT ![ip] = NoID],
             maps |-> d.maps,
             identity_map |-> [d.identity_map EXCEPT ![ip] = NoID],
             endpoint_map |-> [d.endpoint_map EXCEPT ![ip] = DP!NoEntry],
             accept |-> d.accept]
    BY <1>1, <1>4 DEF DP!RemovePodEndpoint, DP!EBPFRemovePodEndpoint, DP!DeleteMapEntry
  <2> HIDE DEF b
  <2>2. b \in T
    BY <1>1, <1>2, <2>1
  <2> HIDE DEF T
  <2>3. DataPlaneSound(b)
    BY <1>1, <1>4, <2>1, <2>2 DEF DataPlaneSound
  <2>4. DP!Forgot(b, ip)
    BY <1>3, <2>1 DEF DP!Forgot
  <2>5. ASSUME NEW a \in IP!Offsets \ {ip}
        PROVE  /\ \A i : DP!Knows(d, a, i) => DP!Knows(b, a, i)
               /\ DP!Forgot(d, a) => DP!Forgot(b, a)
    BY <1>3, <1>4, <2>1 DEF DP!Knows, DP!Forgot
  <2> QED BY <2>3, <2>4, <2>5 DEF b
<1>5. CASE d.kind = "iptables"
  <2>1. b = [kind |-> d.kind, loaded |-> d.loaded,
             endpoints |-> [d.endpoints EXCEPT ![ip] = DP!NoEntry],
             identityMap |-> d.identityMap, maps |-> d.maps,
             identity_map |-> d.identity_map, endpoint_map |-> d.endpoint_map,
             accept |-> d.accept]
    BY <1>1, <1>5 DEF DP!RemovePodEndpoint, DP!IptablesRemovePodEndpoint
  <2> HIDE DEF b
  <2>2. b \in T
    BY <1>1, <1>2, <2>1
  <2> HIDE DEF T
  <2>3. DataPlaneSound(b)
    BY <1>1, <1>5, <2>1, <2>2 DEF DataPlaneSound
  <2>4. DP!Forgot(b, ip)
    BY <1>3, <1>5, <2>1 DEF DP!Forgot, DataPlaneSound, DP!NoIdentities, DP!NoEndpoints
  <2>5. ASSUME NEW a \in IP!Offsets \ {ip}
        PROVE  /\ \A i : DP!Knows(d, a, i) => DP!Knows(b, a, i)
               /\ DP!Forgot(d, a) => DP!Forgot(b, a)
    BY <1>3, <1>5, <2>1 DEF DP!Knows, DP!Forgot
  <2> QED BY <2>3, <2>4, <2>5 DEF b
<1> QED BY <1>1, <1>4, <1>5 DEF DP!Kinds

-----------------------------------------------------------------------------
(* What the agent owns, when it changes and when it does not.              *)

LEMMA AskedFacts ==
  ASSUME NEW S \in SUBSET Sandboxes
  PROVE  /\ IsFiniteSet(S) /\ Cardinality(S) \in Nat
         /\ Cardinality(S) + 1 < IDSpace
         /\ \A R \in SUBSET S : Cardinality(R) \in Nat /\ Cardinality(R) =< Cardinality(S)
         /\ \A c : c \notin S => Cardinality(S \cup {c}) = Cardinality(S) + 1
<1>1. /\ IsFiniteSet(S) /\ Cardinality(S) \in Nat /\ Cardinality(Sandboxes) \in Nat
      /\ Cardinality(S) =< Cardinality(Sandboxes)
  BY IDSpaceAssumption, FS_Subset, FS_CardinalityType
<1>2. Cardinality(S) + 1 < IDSpace
  BY <1>1, IDSpaceAssumption
<1>3. \A R \in SUBSET S : Cardinality(R) \in Nat /\ Cardinality(R) =< Cardinality(S)
  BY <1>1, FS_Subset, FS_CardinalityType
<1>4. \A c : c \notin S => Cardinality(S \cup {c}) = Cardinality(S) + 1
  BY <1>1, FS_AddElement
<1> QED BY <1>1, <1>2, <1>3, <1>4

LEMMA OwnedFrame ==
  ASSUME AddressInv, IdentityInv, UNCHANGED <<alloc, ids>>,
         \A p \in Pods : Owned(p)' = Owned(p), Asked \subseteq Asked'
  PROVE  AddressInv' /\ IdentityInv'
<1>1. AddressInv'
  BY DEF AddressInv
<1>2. Asked' \in SUBSET Sandboxes
  BY DEF Asked
<1>3. Cardinality(Asked) =< Cardinality(Asked') /\ Cardinality(Asked) \in Nat /\ Cardinality(Asked') \in Nat
  BY <1>2, AskedFacts
<1>4. ids'.nextID <= 1 + Cardinality(Asked')
  <2>1. ids.nextID \in Int
    BY Constants DEF IdentityInv, ID!IdentityType
  <2> QED BY <1>3, <2>1 DEF IdentityInv
<1>5. IdentityInv'
  BY <1>4 DEF IdentityInv
<1> QED BY <1>1, <1>5

LEMMA DataPlaneFrame ==
  ASSUME DataPlaneInv, dp' = dp, \A p \in Pods : Programmed(p)' = Programmed(p)
  PROVE  DataPlaneInv'
  BY DEF DataPlaneInv

LEMMA ProgrammedFrame ==
  ASSUME podEndpoints' = podEndpoints,
         \A d \in Sandboxes : phase'[d] = "delRelease" <=> phase[d] = "delRelease"
  PROVE  \A p \in Pods : Programmed(p)' = Programmed(p)
  BY DEF Programmed

\* Nobody has agent.mu: no endpoint is half way.
LEMMA NothingHalfWay ==
  ASSUME ProcessInv, mu \notin Sandboxes
  PROVE  /\ add = NoEndpoint
         /\ \A c \in Sandboxes : phase[c] \notin Adding /\ phase[c] # "delRelease"
         /\ \A p \in Pods : Owned(p) = podEndpoints[p] /\ Programmed(p) = podEndpoints[p]
<1>1. \A c \in Sandboxes : phase[c] \notin Adding /\ phase[c] # "delRelease"
  BY DEF ProcessInv
<1> QED BY <1>1 DEF ProcessInv, Owned, Programmed

\* Identities of two pods differ.
LEMMA IdentitiesApart ==
  ASSUME IdentityInv, NEW p \in Pods, NEW q \in Pods, p # q, Owned(p).id # NoID
  PROVE  Owned(q).id # Owned(p).id
  BY DEF IdentityInv

\* A pod gives back all it has.
LEMMA ReleaseOwned ==
  ASSUME AddressInv, IdentityInv, NEW p \in Pods, Owned(p) \in EndpointType,
         alloc' = IP!AfterRelease(alloc, p),
         ids' = ID!AfterReleaseIdentity(ids, Owned(p).id),
         \A q \in Pods : Owned(q)' = IF q = p THEN NoEndpoint ELSE Owned(q),
         Asked' = Asked
  PROVE  AddressInv' /\ IdentityInv'
<1>1. AddressInv'
  <2>1. p \in Keys /\ Gateway \in Keys /\ Gateway # p /\ Pods \subseteq Keys
    BY GatewayAssumption DEF Keys
  <2>2. AllocSound(alloc') /\ alloc'.allocated = [alloc.allocated EXCEPT ![p] = NoIP]
    BY <2>1, ReleaseFacts DEF AddressInv
  <2>3. \A k \in Keys : alloc'.allocated[k] = IF k = p THEN NoIP ELSE alloc.allocated[k]
    BY <2>2 DEF AddressInv, AllocSound
  <2> QED BY <2>1, <2>2, <2>3, Constants DEF AddressInv
<1>2. IdentityInv'
  <2> DEFINE i == Owned(p).id
  <2>1. i \in ID!IDs /\ i # NoID
    BY Constants DEF EndpointType
  <2>2. i \in ids.live /\ ids.labels[i] \in Labels /\ ids.refCount[i] = 1 /\ ids \in ID!IdentityType
        /\ ids.hashToID[ids.labels[i]] = i
    BY <2>1 DEF IdentityInv
  <2>3. \A q \in Pods \ {p} : Owned(q).id # i
    BY <2>1, IdentitiesApart
  <2> HIDE DEF i
  <2>4. /\ ids' \in ID!IdentityType
        /\ ids'.live = ids.live \ {i}
        /\ ids'.refCount = [ids.refCount EXCEPT ![i] = 0]
        /\ ids'.labels = ids.labels
        /\ ids'.hashToID = [ids.hashToID EXCEPT ![ids.labels[i]] = NoID]
        /\ ids'.nextID = ids.nextID
    BY <2>2, ReleaseIdentityFacts DEF i
  <2>5. /\ ids.live \subseteq ID!IDs
        /\ \A j \in ID!IDs \ {i} : ids'.refCount[j] = ids.refCount[j]
        /\ \A l \in Labels : ids'.hashToID[l] = IF l = ids.labels[i] THEN NoID ELSE ids.hashToID[l]
    BY <2>2, <2>4 DEF ID!IdentityType
  <2>6. ASSUME NEW j \in ids'.live
        PROVE  /\ j < ids'.nextID
               /\ ids'.refCount[j] = 1
               /\ ids'.labels[j] \in Labels
               /\ ids'.hashToID[ids'.labels[j]] = j
               /\ \E q \in Pods : Owned(q)'.id = j
    <3>1. j \in ids.live /\ j # i
      BY <2>4
    <3>2. PICK q \in Pods : Owned(q).id = j
      BY <3>1 DEF IdentityInv
    <3>3. Owned(q)'.id = j
      BY <3>1, <3>2 DEF i
    <3>4. /\ j < ids.nextID /\ ids.refCount[j] = 1 /\ ids.labels[j] \in Labels
          /\ ids.hashToID[ids.labels[j]] = j
      BY <3>1 DEF IdentityInv
    <3>5. ids.labels[j] # ids.labels[i]
      BY <2>2, <3>1, <3>4
    <3> QED BY <2>4, <2>5, <3>1, <3>3, <3>4, <3>5
  <2>7. ASSUME NEW l \in Labels, ids'.hashToID[l] # NoID
        PROVE  ids'.hashToID[l] \in ids'.live /\ ids'.labels[ids'.hashToID[l]] = l
    <3>1. l # ids.labels[i] /\ ids'.hashToID[l] = ids.hashToID[l]
      BY <2>5, <2>7
    <3>2. ids.hashToID[l] \in ids.live /\ ids.labels[ids.hashToID[l]] = l
      BY <2>7, <3>1 DEF IdentityInv
    <3> QED BY <2>4, <3>1, <3>2
  <2>8. ASSUME NEW q \in Pods, Owned(q)'.id # NoID
        PROVE  Owned(q)'.id \in ids'.live /\ ids'.labels[Owned(q)'.id][1] = q
    <3>1. q # p /\ Owned(q)' = Owned(q)
      BY <2>8, Constants
    <3> QED BY <2>3, <2>4, <2>8, <3>1 DEF IdentityInv
  <2>9. ids'.nextID >= 1 /\ ids'.nextID <= 1 + Cardinality(Asked')
    BY <2>4 DEF IdentityInv
  <2> QED BY <2>4, <2>6, <2>7, <2>8, <2>9 DEF IdentityInv
<1> QED BY <1>1, <1>2

\* A pod that has nothing has no identity either: AllocateIdentity makes one.
LEMMA FreshIdentity ==
  ASSUME IdentityInv, NEW p \in Pods, Owned(p) = NoEndpoint, NEW l \in Labels, l[1] = p,
         NEW c \in Sandboxes \ Asked
  PROVE  /\ ids.hashToID[l] = NoID
         /\ ids.nextID \in Int /\ ids.nextID + 1 < IDSpace
         /\ ids.nextID \notin ids.live
         /\ ids.nextID + 1 <= 1 + Cardinality(Asked \cup {c})
<1>1. ids.hashToID[l] = NoID
  <2> SUFFICES ASSUME ids.hashToID[l] # NoID PROVE FALSE
    OBVIOUS
  <2>1. PICK i \in ids.live : i = ids.hashToID[l] /\ ids.labels[i] = l
    BY DEF IdentityInv
  <2>2. PICK q \in Pods : Owned(q).id = i
    BY DEF IdentityInv
  <2>3. q = p
    BY <2>1, <2>2 DEF IdentityInv
  <2> QED BY <2>1, <2>2, <2>3, Constants
<1>2. Asked \in SUBSET Sandboxes /\ Asked \cup {c} \in SUBSET Sandboxes
  BY DEF Asked
<1>3. /\ Cardinality(Asked) \in Nat /\ Cardinality(Asked \cup {c}) = Cardinality(Asked) + 1
      /\ Cardinality(Asked \cup {c}) + 1 < IDSpace
  BY <1>2, AskedFacts
<1>4. ids.nextID \in Int
  BY Constants DEF IdentityInv, ID!IdentityType
<1>5. ids.nextID \notin ids.live
  BY <1>4 DEF IdentityInv
<1> QED BY <1>1, <1>3, <1>4, <1>5, Constants DEF IdentityInv

\* HandleAdd takes an identity and an address.
LEMMA AllocateOwned ==
  ASSUME AddressInv, IdentityInv, NEW p \in Pods, Owned(p) = NoEndpoint,
         NEW l \in Labels, l[1] = p, NEW c \in Sandboxes \ Asked, Asked' = Asked \cup {c},
         IP!AllocateIP(alloc, p) # NoIP,
         alloc' = IP!AfterAllocate(alloc, p),
         ids' = ID!AfterAllocateIdentity(ids, l),
         NEW e, e = [ip |-> IP!AllocateIP(alloc, p), id |-> ID!AllocatedID(ids, l)],
         \A q \in Pods : Owned(q)' = IF q = p THEN e ELSE Owned(q)
  PROVE  AddressInv' /\ IdentityInv' /\ e \in EndpointType
<1> DEFINE ip == IP!AllocateIP(alloc, p)
           n == ids.nextID
<1>1. p \in Keys /\ Gateway \in Keys /\ Gateway # p /\ Pods \subseteq Keys
  BY GatewayAssumption DEF Keys
<1>2. alloc.allocated[p] = NoIP
  BY Constants DEF AddressInv
<1>3. /\ ip \in IP!Usable /\ alloc'.allocated = [alloc.allocated EXCEPT ![p] = ip]
      /\ AllocSound(alloc')
  BY <1>1, <1>2, AllocateFacts DEF AddressInv
<1>4. /\ ids.hashToID[l] = NoID
      /\ n \in Int /\ n + 1 < IDSpace /\ n \notin ids.live
      /\ n + 1 <= 1 + Cardinality(Asked')
  BY FreshIdentity
<1>5. /\ ID!AllocatedID(ids, l) = n
      /\ ids' \in ID!IdentityType
      /\ ids'.live = ids.live \cup {n}
      /\ ids'.refCount = [ids.refCount EXCEPT ![n] = 1]
      /\ ids'.labels = [ids.labels EXCEPT ![n] = l]
      /\ ids'.hashToID = [ids.hashToID EXCEPT ![l] = n]
      /\ ids'.nextID = n + 1
  BY <1>4, AllocateIdentityFacts DEF IdentityInv
<1>6. n \in ID!IDs /\ ids \in ID!IdentityType /\ ids.live \subseteq ID!IDs
  BY DEF IdentityInv, ID!IdentityType
<1>7. e \in EndpointType /\ e.ip = ip /\ e.id = n
  BY <1>3, <1>5, <1>6, Constants DEF EndpointType
<1> HIDE DEF ip
<1>8. AddressInv'
  <2>1. \A k \in Keys : alloc'.allocated[k] = IF k = p THEN ip ELSE alloc.allocated[k]
    BY <1>3 DEF AddressInv, AllocSound
  <2> QED BY <1>1, <1>3, <1>7, <2>1 DEF AddressInv
<1>9. IdentityInv'
  <2>1. /\ \A j \in ID!IDs : ids'.refCount[j] = IF j = n THEN 1 ELSE ids.refCount[j]
        /\ \A j \in ID!IDs : ids'.labels[j] = IF j = n THEN l ELSE ids.labels[j]
        /\ \A m \in Labels : ids'.hashToID[m] = IF m = l THEN n ELSE ids.hashToID[m]
    BY <1>5, <1>6 DEF ID!IdentityType
  <2>2. ASSUME NEW j \in ids'.live
        PROVE  /\ j < ids'.nextID
               /\ ids'.refCount[j] = 1
               /\ ids'.labels[j] \in Labels
               /\ ids'.hashToID[ids'.labels[j]] = j
               /\ \E q \in Pods : Owned(q)'.id = j
    <3>1. CASE j = n
      BY <1>4, <1>5, <1>6, <1>7, <2>1, <3>1
    <3>2. CASE j # n
      <4>1. j \in ids.live /\ j \in ID!IDs
        BY <1>5, <1>6, <3>2
      <4>2. /\ j < n /\ ids.refCount[j] = 1 /\ ids.labels[j] \in Labels
            /\ ids.hashToID[ids.labels[j]] = j
        BY <4>1 DEF IdentityInv
      <4>3. PICK q \in Pods : Owned(q).id = j
        BY <4>1 DEF IdentityInv
      <4>4. j # NoID
        BY <4>1, Constants
      <4>5. q # p
        BY <4>3, <4>4, Constants
      <4>6. ids.labels[j] # l
        BY <1>4, <4>2, <4>4
      <4>7. j < n + 1
        BY <1>4, <1>6, <4>1, <4>2, Constants
      <4> QED BY <1>5, <2>1, <3>2, <4>1, <4>2, <4>3, <4>5, <4>6, <4>7
    <3> QED BY <3>1, <3>2
  <2>3. ASSUME NEW m \in Labels, ids'.hashToID[m] # NoID
        PROVE  ids'.hashToID[m] \in ids'.live /\ ids'.labels[ids'.hashToID[m]] = m
    <3>1. CASE m = l
      BY <1>5, <1>6, <2>1, <3>1
    <3>2. CASE m # l
      <4>1. ids.hashToID[m] \in ids.live /\ ids.labels[ids.hashToID[m]] = m
        BY <2>1, <2>3, <3>2 DEF IdentityInv
      <4>2. ids.hashToID[m] # n
        BY <1>4, <4>1
      <4> QED BY <1>5, <1>6, <2>1, <3>2, <4>1, <4>2
    <3> QED BY <3>1, <3>2
  <2>4. ASSUME NEW q \in Pods, Owned(q)'.id # NoID
        PROVE  Owned(q)'.id \in ids'.live /\ ids'.labels[Owned(q)'.id][1] = q
    <3>1. CASE q = p
      BY <1>5, <1>6, <1>7, <2>1, <3>1
    <3>2. CASE q # p
      <4>1. /\ Owned(q)' = Owned(q)
            /\ Owned(q).id \in ids.live /\ ids.labels[Owned(q).id][1] = q
        BY <2>4, <3>2 DEF IdentityInv
      <4> QED BY <1>4, <1>5, <1>6, <2>1, <4>1
    <3> QED BY <3>1, <3>2
  <2>5. ids'.nextID >= 1 /\ ids'.nextID <= 1 + Cardinality(Asked')
    BY <1>4, <1>5 DEF IdentityInv
  <2> QED BY <1>5, <2>2, <2>3, <2>4, <2>5 DEF IdentityInv
<1> QED BY <1>7, <1>8, <1>9

\* HandleAdd finds no address: the identity it made is gone again.
LEMMA RefusedIdentity ==
  ASSUME AddressInv, IdentityInv, NEW p \in Pods, Owned(p) = NoEndpoint,
         NEW l \in Labels, l[1] = p, NEW c \in Sandboxes \ Asked, Asked' = Asked \cup {c},
         alloc' = alloc,
         ids' = ID!AfterReleaseIdentity(ID!AfterAllocateIdentity(ids, l),
                                        ID!AllocatedID(ids, l)),
         \A q \in Pods : Owned(q)' = Owned(q)
  PROVE  AddressInv' /\ IdentityInv'
<1> DEFINE n == ids.nextID
           b == ID!AfterAllocateIdentity(ids, l)
<1>1. AddressInv'
  BY DEF AddressInv
<1>2. /\ ids.hashToID[l] = NoID
      /\ n \in Int /\ n + 1 < IDSpace /\ n \notin ids.live
      /\ n + 1 <= 1 + Cardinality(Asked')
  BY FreshIdentity
<1>3. n \in ID!IDs /\ ids \in ID!IdentityType /\ ids.live \subseteq ID!IDs
  BY DEF IdentityInv, ID!IdentityType
<1>4. /\ ID!AllocatedID(ids, l) = n
      /\ b \in ID!IdentityType
      /\ b.live = ids.live \cup {n}
      /\ b.refCount = [ids.refCount EXCEPT ![n] = 1]
      /\ b.labels = [ids.labels EXCEPT ![n] = l]
      /\ b.hashToID = [ids.hashToID EXCEPT ![l] = n]
      /\ b.nextID = n + 1
  BY <1>2, <1>3, AllocateIdentityFacts
<1> HIDE DEF b
<1>5. n \in b.live /\ b.labels[n] = l /\ b.refCount[n] = 1 /\ b.labels[n] \in Labels
  BY <1>3, <1>4 DEF ID!IdentityType
<1>6. ids' = ID!AfterReleaseIdentity(b, n)
  BY <1>4 DEF b
<1> HIDE DEF n
<1>a. /\ ID!AfterReleaseIdentity(b, n) \in ID!IdentityType
      /\ ID!AfterReleaseIdentity(b, n).live = b.live \ {n}
      /\ ID!AfterReleaseIdentity(b, n).refCount = [b.refCount EXCEPT ![n] = 0]
      /\ ID!AfterReleaseIdentity(b, n).labels = b.labels
      /\ ID!AfterReleaseIdentity(b, n).hashToID = [b.hashToID EXCEPT ![b.labels[n]] = NoID]
      /\ ID!AfterReleaseIdentity(b, n).nextID = b.nextID
  BY <1>4, <1>5, ReleaseIdentityFacts
<1>7. /\ ids' \in ID!IdentityType
      /\ ids'.live = b.live \ {n}
      /\ ids'.refCount = [b.refCount EXCEPT ![n] = 0]
      /\ ids'.labels = b.labels
      /\ ids'.hashToID = [b.hashToID EXCEPT ![l] = NoID]
      /\ ids'.nextID = b.nextID
  BY <1>a, <1>5, <1>6
<1>8. /\ ids'.live = ids.live /\ ids'.hashToID = ids.hashToID /\ ids'.nextID = n + 1
      /\ \A j \in ids.live : ids'.refCount[j] = ids.refCount[j] /\ ids'.labels[j] = ids.labels[j]
  <2>1. ids'.live = ids.live
    <3>1. (ids.live \cup {n}) \ {n} = ids.live
      BY <1>2
    <3> QED BY <1>4, <1>7, <3>1
  <2>2. ids'.hashToID = ids.hashToID
    BY <1>2, <1>3, <1>4, <1>7 DEF ID!IdentityType
  <2>3. \A j \in ids.live : ids'.refCount[j] = ids.refCount[j] /\ ids'.labels[j] = ids.labels[j]
    BY <1>2, <1>3, <1>4, <1>7 DEF ID!IdentityType
  <2> QED BY <1>4, <1>7, <2>1, <2>2, <2>3
<1>9. \A j \in ids.live : j < n + 1
  BY <1>2, <1>3, Constants DEF IdentityInv, n
<1>10. ids'.nextID >= 1 /\ ids'.nextID <= 1 + Cardinality(Asked')
  BY <1>2, <1>8 DEF IdentityInv, n
<1>11. IdentityInv'
  <2>1. ASSUME NEW j \in ids'.live
        PROVE  /\ j < ids'.nextID
               /\ ids'.refCount[j] = 1
               /\ ids'.labels[j] \in Labels
               /\ ids'.hashToID[ids'.labels[j]] = j
               /\ \E q \in Pods : Owned(q)'.id = j
    <3>1. j \in ids.live
      BY <1>8
    <3>2. PICK q \in Pods : Owned(q).id = j
      BY <3>1 DEF IdentityInv
    <3>3. /\ ids.refCount[j] = 1 /\ ids.labels[j] \in Labels
          /\ ids.hashToID[ids.labels[j]] = j
      BY <3>1 DEF IdentityInv
    <3> QED BY <1>8, <1>9, <3>1, <3>2, <3>3
  <2>2. ASSUME NEW m \in Labels, ids'.hashToID[m] # NoID
        PROVE  ids'.hashToID[m] \in ids'.live /\ ids'.labels[ids'.hashToID[m]] = m
    <3>1. ids.hashToID[m] \in ids.live /\ ids.labels[ids.hashToID[m]] = m
      BY <1>8, <2>2 DEF IdentityInv
    <3> QED BY <1>8, <3>1
  <2>3. ASSUME NEW q \in Pods, Owned(q)'.id # NoID
        PROVE  Owned(q)'.id \in ids'.live /\ ids'.labels[Owned(q)'.id][1] = q
    <3>1. /\ Owned(q)' = Owned(q)
          /\ Owned(q).id \in ids.live /\ ids.labels[Owned(q).id][1] = q
      BY <2>3 DEF IdentityInv
    <3> QED BY <1>8, <3>1
  <2> QED BY <1>7, <1>10, <2>1, <2>2, <2>3 DEF IdentityInv
<1> QED BY <1>1, <1>11
-----------------------------------------------------------------------------
(* The initial state.                                                      *)

LEMMA InitInv == Init => Inv
<1> SUFFICES ASSUME Init PROVE Inv
  OBVIOUS
<1> DEFINE n == IP!NewNodeAllocator
<1>1. "free" \notin Sandboxes
  BY LockAssumption
<1>2. \A p \in Pods : Owned(p) = NoEndpoint
  BY <1>1 DEF Init, Owned
<1>3. ProcessInv
  BY <1>1 DEF Init, ProcessInv, Adding
<1>4. RuntimeInv
  BY DEF Init, RuntimeInv, Inactive, Up
<1>5. LinksInv
  BY DEF Init, LinksInv, LinkInv, Added, NoLink, Unlinked
<1>6. AddressInv
  <2>1. Gateway \in Keys /\ Pods \subseteq Keys /\ Gateway \notin Pods
    BY GatewayAssumption DEF Keys
  <2>2. n.bitmap = {} /\ n.allocated = [k \in Keys |-> NoIP]
    BY DEF IP!NewNodeAllocator, NoIP
  <2>3. AllocSound(n)
    <3>1. n \in [bitmap : SUBSET IP!Offsets, allocated : [Keys -> IP!Offsets \cup {NoIP}]]
      BY DEF IP!NewNodeAllocator, NoIP
    <3>2. {n.allocated[k] : k \in Keys} \ {NoIP} = {}
      BY <2>2
    <3> QED BY <2>2, <3>1, <3>2 DEF AllocSound
  <2>4. IP!Free(n) = IP!Usable
    BY <2>2 DEF IP!Free
  <2>5. IP!AllocateIP(n, Gateway) = GatewayIP
    <3>1. ~IP!Has(n, Gateway)
      BY <2>1, <2>2 DEF IP!Has, NoIP
    <3>2. IP!AllocateIP(n, Gateway) = IP!Min(IP!Usable)
      BY <2>4, <3>1, Constants DEF IP!AllocateIP
    <3>3. IP!Usable \in SUBSET Nat /\ IP!Usable # {}
      <4>1. IP!Usable = 1 .. (BlockSize - 2) /\ GatewayIP \in IP!Usable
        BY Constants
      <4>2. \A x \in 1 .. (BlockSize - 2) : x \in Nat
        BY BlockSizeAssumption
      <4> QED BY <4>1, <4>2
    <3>4. IP!Min(IP!Usable) \in IP!Usable /\ IP!Min(IP!Usable) =< GatewayIP
      BY <3>3, MinIsLeast, Constants
    <3> QED BY <3>2, <3>4, Constants, BlockSizeAssumption DEF GatewayIP
  <2>6. GatewayIP # NoIP
    BY Constants DEF GatewayIP
  <2>7. alloc.allocated = [n.allocated EXCEPT ![Gateway] = GatewayIP] /\ AllocSound(alloc)
    BY <2>1, <2>2, <2>3, <2>5, <2>6, AllocateFacts DEF Init
  <2>8. \A p \in Pods : alloc.allocated[p] = NoIP
    BY <2>1, <2>2, <2>7
  <2> QED BY <1>2, <2>1, <2>2, <2>7, <2>8, Constants DEF AddressInv
<1>7. IdentityInv
  <2>1. ids \in ID!IdentityType /\ ids.nextID = 1 /\ ids.live = {}
        /\ \A l \in Labels : ids.hashToID[l] = NoID
    BY Constants DEF Init, ID!NewIdentityAllocator, ID!IdentityType, NoID
  <2>2. Asked \in SUBSET Sandboxes
    BY DEF Asked
  <2>3. Cardinality(Asked) \in Nat
    BY <2>2, AskedFacts
  <2> QED BY <1>2, <2>1, <2>3, Constants DEF IdentityInv
<1>8. DataPlaneInv
  <2>1. PICK kind \in DataPlanes : dp = DP!LoadPrograms(DP!NewDataPlane(kind))
    BY DEF Init
  <2>2. kind \in DP!Kinds
    BY DataPlanesAssumption
  <2>3. /\ dp.kind = kind /\ dp.loaded = TRUE /\ dp.endpoints = DP!NoEndpoints
        /\ dp.identityMap = DP!NoIdentities /\ dp.identity_map = DP!NoIdentities
        /\ dp.endpoint_map = DP!NoEndpoints /\ dp.accept = {}
        /\ dp.maps = IF kind = "ebpf" THEN DP!DefaultMaps ELSE {}
    BY <2>1, <2>2 DEF DP!LoadPrograms, DP!NewDataPlane, DP!EBPFLoadPrograms,
                      DP!IptablesLoadPrograms, DP!Kinds
  <2> DEFINE ms == IF kind = "ebpf" THEN DP!DefaultMaps ELSE {}
  <2>4. dp = [kind |-> kind, loaded |-> TRUE, endpoints |-> DP!NoEndpoints,
              identityMap |-> DP!NoIdentities, maps |-> ms,
              identity_map |-> DP!NoIdentities, endpoint_map |-> DP!NoEndpoints,
              accept |-> {}]
    BY <2>1, <2>2 DEF DP!LoadPrograms, DP!NewDataPlane, DP!EBPFLoadPrograms,
                      DP!IptablesLoadPrograms, DP!Kinds
  <2> DEFINE I == ID!IDs \cup {NoID}
             E == [IP!Offsets -> [id : I, ifIndex : Indices]]
             T == [kind : DP!Kinds, loaded : BOOLEAN, endpoints : E,
                   identityMap : [IP!Offsets -> I], maps : SUBSET DP!DefaultMaps,
                   identity_map : [IP!Offsets -> I], endpoint_map : E,
                   accept : SUBSET IP!Offsets]
  <2>5. DP!NoEntry \in [id : I, ifIndex : Indices] /\ NoID \in I
    BY DEF DP!NoEntry, Indices
  <2>6. DP!NoEndpoints \in E /\ DP!NoIdentities \in [IP!Offsets -> I]
    BY <2>5 DEF DP!NoEndpoints, DP!NoIdentities
  <2>7. ms \in SUBSET DP!DefaultMaps
    OBVIOUS
  <2>8. dp \in DP!Type(Indices, ID!IDs \cup {NoID})
    <3>1. DP!Type(Indices, ID!IDs \cup {NoID}) = T
      BY DEF DP!Type
    <3> HIDE DEF I, E, ms
    <3>2. dp \in T
      BY <2>2, <2>4, <2>6, <2>7
    <3> QED BY <3>1, <3>2
  <2>9. DataPlaneSound(dp)
    BY <2>3, <2>8 DEF DataPlaneSound, DP!DefaultMaps
  <2>10. \A ip \in IP!Offsets : DP!Forgot(dp, ip)
    BY <2>3 DEF DP!Forgot, DP!NoEndpoints, DP!NoIdentities
  <2>11. \A p \in Pods : Programmed(p) = NoEndpoint
    BY DEF Programmed, Init
  <2> QED BY <2>9, <2>10, <2>11 DEF DataPlaneInv
<1> QED BY <1>3, <1>4, <1>5, <1>6, <1>7, <1>8 DEF Inv
-----------------------------------------------------------------------------
(* The steps.                                                              *)

\* A pod whose sandbox is being added has no endpoint yet.
LEMMA NoEndpointWhileAdding ==
  ASSUME ProcessInv, RuntimeInv, NEW c \in Sandboxes, phase[c] \in Adding \cup {"addWait"}
  PROVE  PodOf[c] \in Pods /\ podEndpoints[PodOf[c]] = NoEndpoint
<1>1. PodOf[c] \in Pods
  BY SandboxAssumption
<1>2. ASSUME podEndpoints[PodOf[c]] # NoEndpoint PROVE FALSE
  <2>1. PICK d \in Sandboxes : PodOf[d] = PodOf[c] /\ phase[d] \in Added
    BY <1>1, <1>2 DEF RuntimeInv
  <2>2. d # c /\ phase[d] \notin Inactive /\ phase[c] \notin Inactive
    BY <2>1 DEF Added, Adding, Inactive
  <2> QED BY <2>1, <2>2 DEF RuntimeInv
<1> QED BY <1>1, <1>2

LEMMA SendAddInv ==
  ASSUME Inv, NEW c \in Sandboxes, SendAdd(c)
  PROVE  Inv'
<1>1. /\ phase' \in [Sandboxes -> InFlight \cup {"idle", "up", "failed", "gone"}]
      /\ \A d \in Sandboxes : phase'[d] = IF d = c THEN "addWait" ELSE phase[d]
      /\ phase[c] = "idle"
      /\ UNCHANGED <<agent, mu, alloc, ids, podEndpoints, dp, add, links, undeleted>>
  BY DEF Inv, ProcessInv, SendAdd, process, InFlight, life, net
<1>2. ProcessInv'
  BY <1>1 DEF Inv, ProcessInv, Adding
<1>3. RuntimeInv'
  <2>1. \A d \in Sandboxes \ {c} : PodOf[d] = PodOf[c] => phase[d] \in Inactive
    BY DEF SendAdd, Inactive, life
  <2>2. \A d, e \in Sandboxes : (d # e /\ PodOf[d] = PodOf[e]) =>
          phase'[d] \in Inactive \/ phase'[e] \in Inactive
    BY <1>1, <2>1 DEF Inv, RuntimeInv
  <2>3. \A p \in Pods : podEndpoints[p] # NoEndpoint =>
          \E d \in Sandboxes : PodOf[d] = p /\ phase'[d] \in Added
    BY <1>1 DEF Inv, RuntimeInv, Added
  <2> QED BY <1>1, <2>2, <2>3 DEF Inv, RuntimeInv, Up
<1>4. LinksInv'
  BY <1>1 DEF Inv, LinksInv, LinkInv, Added, Unlinked
<1>5. AddressInv' /\ IdentityInv'
  <2>1. \A p \in Pods : Owned(p)' = Owned(p)
    BY <1>1 DEF Owned
  <2>2. Asked \subseteq Asked'
    BY <1>1 DEF Asked
  <2> QED BY <1>1, <2>1, <2>2, OwnedFrame DEF Inv
<1>6. DataPlaneInv'
  BY <1>1, DataPlaneFrame, ProgrammedFrame DEF Inv
<1> QED BY <1>2, <1>3, <1>4, <1>5, <1>6 DEF Inv

LEMMA SendDelInv ==
  ASSUME AgentLives, Inv, NEW c \in Sandboxes, SendDel(c)
  PROVE  Inv'
<1>0. phase[c] \in {"up", "failed"}
  BY DEF SendDel, AgentLives, life
<1>1. /\ phase' \in [Sandboxes -> InFlight \cup {"idle", "up", "failed", "gone"}]
      /\ \A d \in Sandboxes : phase'[d] = IF d = c THEN "delWait" ELSE phase[d]
      /\ UNCHANGED <<agent, mu, alloc, ids, podEndpoints, dp, add, links, undeleted>>
  BY DEF Inv, ProcessInv, SendDel, process, InFlight, life, net
<1>2. ProcessInv'
  BY <1>0, <1>1 DEF Inv, ProcessInv, Adding
<1>3. RuntimeInv'
  <2>1. \A d, e \in Sandboxes : (d # e /\ PodOf[d] = PodOf[e]) =>
          phase'[d] \in Inactive \/ phase'[e] \in Inactive
    BY <1>0, <1>1 DEF Inv, RuntimeInv, Inactive
  <2>2. \A p \in Pods : podEndpoints[p] # NoEndpoint =>
          \E d \in Sandboxes : PodOf[d] = p /\ phase'[d] \in Added
    BY <1>1 DEF Inv, RuntimeInv, Added
  <2> QED BY <1>1, <2>1, <2>2 DEF Inv, RuntimeInv, Up
<1>4. LinksInv'
  BY <1>0, <1>1 DEF Inv, LinksInv, LinkInv, Added, Unlinked
<1>5. AddressInv' /\ IdentityInv'
  <2>1. \A p \in Pods : Owned(p)' = Owned(p)
    BY <1>1 DEF Owned
  <2>2. Asked \subseteq Asked'
    BY <1>1 DEF Asked
  <2> QED BY <1>1, <2>1, <2>2, OwnedFrame DEF Inv
<1>6. DataPlaneInv'
  BY <1>0, <1>1, DataPlaneFrame, ProgrammedFrame DEF Inv
<1> QED BY <1>2, <1>3, <1>4, <1>5, <1>6 DEF Inv

\* A pair that DeleteLink failed to delete goes with its namespace.
LEMMA RemoveNetnsInv ==
  ASSUME Inv, NEW c \in Sandboxes, RemoveNetns(c)
  PROVE  Inv'
<1>1. /\ phase[c] = "gone"
      /\ UNCHANGED <<agent, mu, alloc, ids, podEndpoints, dp, add, phase, undeleted>>
  BY DEF RemoveNetns, process, life
<1>2. /\ links' \in [Sandboxes -> [end : {"none", "host", "pod"}, ip : IP!Offsets \cup {NoIP}]]
      /\ links'[c] = NoLink /\ \A d \in Sandboxes \ {c} : links'[d] = links[d]
  BY DEF Inv, LinksInv, RemoveNetns, NoLink
<1>3. ProcessInv' /\ RuntimeInv'
  BY <1>1 DEF Inv, ProcessInv, RuntimeInv, Up
<1>4. LinksInv'
  <2>1. LinkInv(c)'
    BY <1>1, <1>2 DEF LinkInv, Added, Unlinked
  <2>2. ASSUME NEW d \in Sandboxes \ {c} PROVE LinkInv(d)'
    BY <1>1, <1>2 DEF Inv, LinksInv, LinkInv, Unlinked
  <2> QED BY <1>2, <2>1, <2>2 DEF LinksInv
<1>5. AddressInv' /\ IdentityInv'
  <2>1. \A p \in Pods : Owned(p)' = Owned(p)
    BY <1>1 DEF Owned
  <2>2. Asked' = Asked
    BY <1>1 DEF Asked
  <2> QED BY <1>1, <2>1, <2>2, OwnedFrame DEF Inv
<1>6. DataPlaneInv'
  BY <1>1, DataPlaneFrame, ProgrammedFrame DEF Inv
<1> QED BY <1>3, <1>4, <1>5, <1>6 DEF Inv

\* SetupPodNetwork: c's interface changes, and nothing else.
LEMMA SetupInv ==
  ASSUME Inv, NEW c \in Sandboxes, NEW to \in Adding, NEW link, mu = c, phase[c] \in Adding,
         phase' = [phase EXCEPT ![c] = to], links' = [links EXCEPT ![c] = link],
         link \in [end : {"none", "host", "pod"}, ip : IP!Offsets \cup {NoIP}],
         \/ to = "addMove" /\ link = [end |-> "host", ip |-> NoIP]
         \/ to = "addAddress" /\ link = PodLink(NoIP)
         \/ to = "addDp" /\ link = PodLink(add.ip),
         UNCHANGED <<agent, mu, alloc, ids, podEndpoints, dp, add, undeleted>>
  PROVE  Inv'
<1>1. /\ phase' \in [Sandboxes -> InFlight \cup {"idle", "up", "failed", "gone"}]
      /\ \A d \in Sandboxes : phase'[d] = IF d = c THEN to ELSE phase[d]
  BY DEF Inv, ProcessInv, InFlight, Adding
<1>2. ProcessInv'
  BY <1>1 DEF Inv, ProcessInv
<1>3. RuntimeInv'
  <2>1. \A d, e \in Sandboxes : (d # e /\ PodOf[d] = PodOf[e]) =>
          phase'[d] \in Inactive \/ phase'[e] \in Inactive
    BY <1>1 DEF Inv, RuntimeInv, Inactive, Adding
  <2>2. \A p \in Pods : podEndpoints[p] # NoEndpoint =>
          \E d \in Sandboxes : PodOf[d] = p /\ phase'[d] \in Added
    BY <1>1 DEF Inv, RuntimeInv, Added, Adding
  <2> QED BY <1>1, <2>1, <2>2 DEF Inv, RuntimeInv, Up, Adding
<1>4. LinksInv'
  <2>1. links' \in [Sandboxes -> [end : {"none", "host", "pod"}, ip : IP!Offsets \cup {NoIP}]]
    BY DEF Inv, LinksInv
  <2>2. links'[c] = link /\ \A d \in Sandboxes \ {c} : links'[d] = links[d]
    BY DEF Inv, LinksInv
  <2>3. LinkInv(c)'
    BY <1>1, <2>2 DEF LinkInv, Added, Adding
  <2>4. ASSUME NEW d \in Sandboxes \ {c} PROVE LinkInv(d)'
    BY <1>1, <2>2 DEF Inv, LinksInv, LinkInv, Unlinked
  <2> QED BY <2>1, <2>3, <2>4 DEF LinksInv
<1>5. AddressInv' /\ IdentityInv'
  <2>1. \A p \in Pods : Owned(p)' = Owned(p)
    BY DEF Owned
  <2>2. Asked \subseteq Asked'
    BY <1>1 DEF Asked, Adding
  <2> QED BY <2>1, <2>2, OwnedFrame DEF Inv
<1>6. DataPlaneInv'
  BY <1>1, DataPlaneFrame, ProgrammedFrame DEF Inv, Adding
<1> QED BY <1>2, <1>3, <1>4, <1>5, <1>6 DEF Inv

LEMMA AddCreateVethInv ==
  ASSUME Inv, NEW c \in Sandboxes, AddCreateVeth(c)
  PROVE  Inv'
<1> DEFINE link == [end |-> "host", ip |-> NoIP]
<1>1. /\ mu = c /\ phase[c] = "addVeth" /\ phase' = [phase EXCEPT ![c] = "addMove"]
      /\ links' = [links EXCEPT ![c] = link]
      /\ UNCHANGED <<agent, mu, alloc, ids, podEndpoints, dp, add, undeleted>>
  BY DEF AddCreateVeth, process, life
<1>2. {"addVeth", "addMove"} \subseteq Adding /\ link \in [end : {"none", "host", "pod"}, ip : IP!Offsets \cup {NoIP}]
  BY DEF Adding
<1> QED BY <1>1, <1>2, SetupInv

LEMMA AddMoveToNetnsInv ==
  ASSUME Inv, NEW c \in Sandboxes, AddMoveToNetns(c)
  PROVE  Inv'
<1>1. links[c] = [end |-> "host", ip |-> NoIP]
  BY DEF Inv, LinksInv, LinkInv, AddMoveToNetns, life
<1>2. [links[c] EXCEPT !.end = "pod"] = PodLink(NoIP)
  BY <1>1 DEF PodLink
<1>3. /\ mu = c /\ phase[c] = "addMove" /\ phase' = [phase EXCEPT ![c] = "addAddress"]
      /\ links' = [links EXCEPT ![c] = PodLink(NoIP)]
      /\ UNCHANGED <<agent, mu, alloc, ids, podEndpoints, dp, add, undeleted>>
  BY <1>2 DEF AddMoveToNetns, process, life
<1>4. {"addMove", "addAddress"} \subseteq Adding
      /\ PodLink(NoIP) \in [end : {"none", "host", "pod"}, ip : IP!Offsets \cup {NoIP}]
  BY DEF Adding, PodLink
<1> QED BY <1>3, <1>4, SetupInv

LEMMA AddConfigureInv ==
  ASSUME Inv, NEW c \in Sandboxes, AddConfigure(c)
  PROVE  Inv'
<1>1. links[c] = PodLink(NoIP)
  BY DEF Inv, LinksInv, LinkInv, AddConfigure, life
<1>2. [links[c] EXCEPT !.ip = add.ip] = PodLink(add.ip)
  BY <1>1 DEF PodLink
<1>3. /\ mu = c /\ phase[c] = "addAddress" /\ phase' = [phase EXCEPT ![c] = "addDp"]
      /\ links' = [links EXCEPT ![c] = PodLink(add.ip)]
      /\ UNCHANGED <<agent, mu, alloc, ids, podEndpoints, dp, add, undeleted>>
  BY <1>2 DEF AddConfigure, process, life
<1>4. add.ip \in IP!Offsets
  BY <1>3 DEF Inv, ProcessInv, EndpointType, Adding
<1>5. {"addAddress", "addDp"} \subseteq Adding
      /\ PodLink(add.ip) \in [end : {"none", "host", "pod"}, ip : IP!Offsets \cup {NoIP}]
  BY <1>4 DEF Adding, PodLink
<1> QED BY <1>3, <1>5, SetupInv

LEMMA AddAllocateInv ==
  ASSUME Inv, NEW c \in Sandboxes, AddAllocate(c)
  PROVE  Inv'
<1> DEFINE p == PodOf[c]
           l == LabelsOf(c)
           e == [ip |-> IP!AllocateIP(alloc, p), id |-> ID!AllocatedID(ids, l)]
<1>1. /\ mu = "free" /\ phase[c] = "addWait" /\ "free" \notin Sandboxes
      /\ UNCHANGED <<agent, podEndpoints, dp, links, undeleted>>
  BY LockAssumption DEF AddAllocate, life, net
<1>2. p \in Pods /\ podEndpoints[p] = NoEndpoint
  BY <1>1, NoEndpointWhileAdding DEF Inv
<1>3. l \in Labels /\ l[1] = p
  BY SandboxAssumption DEF LabelsOf, Labels
<1>4. /\ \A q \in Pods : Owned(q) = podEndpoints[q]
      /\ \A d \in Sandboxes : phase[d] \notin Adding /\ phase[d] # "delRelease"
      /\ add = NoEndpoint
  BY <1>1, NothingHalfWay DEF Inv
<1>5. c \in Sandboxes \ Asked
  BY <1>1 DEF Asked
<1>7. ASSUME NEW r \in {"failed", "addVeth"}, phase' = [phase EXCEPT ![c] = r]
      PROVE  /\ phase' \in [Sandboxes -> InFlight \cup {"idle", "up", "failed", "gone"}]
             /\ \A d \in Sandboxes : phase'[d] = IF d = c THEN r ELSE phase[d]
             /\ RuntimeInv' /\ DataPlaneInv' /\ Asked' = Asked \cup {c}
  <2>1. /\ phase' \in [Sandboxes -> InFlight \cup {"idle", "up", "failed", "gone"}]
        /\ \A d \in Sandboxes : phase'[d] = IF d = c THEN r ELSE phase[d]
    BY <1>7 DEF Inv, ProcessInv, InFlight
  <2>2. \A d, f \in Sandboxes : (d # f /\ PodOf[d] = PodOf[f]) =>
          phase'[d] \in Inactive \/ phase'[f] \in Inactive
    BY <1>1, <2>1 DEF Inv, RuntimeInv, Inactive
  <2>3. \A q \in Pods : podEndpoints[q] # NoEndpoint =>
          \E d \in Sandboxes : PodOf[d] = q /\ phase'[d] \in Added
    BY <1>1, <2>1 DEF Inv, RuntimeInv, Added
  <2>4. RuntimeInv'
    BY <1>1, <2>1, <2>2, <2>3 DEF Inv, RuntimeInv, Up
  <2>5. DataPlaneInv'
    BY <1>1, <2>1, DataPlaneFrame, ProgrammedFrame DEF Inv
  <2> QED BY <1>1, <2>1, <2>4, <2>5 DEF Asked
<1>8. CASE IP!AllocateIP(alloc, p) = NoIP
  <2>1. /\ ids' = ID!AfterReleaseIdentity(ID!AfterAllocateIdentity(ids, l), ID!AllocatedID(ids, l))
        /\ phase' = [phase EXCEPT ![c] = "failed"]
        /\ UNCHANGED <<mu, add, alloc>>
    BY <1>8 DEF AddAllocate, Answer, life
  <2>2. /\ phase' \in [Sandboxes -> InFlight \cup {"idle", "up", "failed", "gone"}]
        /\ \A d \in Sandboxes : phase'[d] = IF d = c THEN "failed" ELSE phase[d]
        /\ RuntimeInv' /\ DataPlaneInv' /\ Asked' = Asked \cup {c}
    BY <1>7, <2>1
  <2>3. ProcessInv'
    BY <1>1, <1>4, <2>1, <2>2 DEF Inv, ProcessInv, Adding
  <2>4. LinksInv'
    BY <1>1, <1>2, <2>1, <2>2 DEF Inv, LinksInv, LinkInv, Added, Unlinked
  <2>5. \A q \in Pods : Owned(q)' = Owned(q)
    BY <1>1, <2>1 DEF Owned
  <2>6. Owned(p) = NoEndpoint
    BY <1>2, <1>4
  <2>7. AddressInv /\ IdentityInv
    BY DEF Inv
  <2> HIDE DEF p, l
  <2>8. AddressInv' /\ IdentityInv'
    BY <1>2, <1>3, <1>5, <2>1, <2>2, <2>5, <2>6, <2>7, RefusedIdentity
  <2> QED BY <2>2, <2>3, <2>4, <2>8 DEF Inv
<1>9. CASE IP!AllocateIP(alloc, p) # NoIP
  <2>1. /\ ids' = ID!AfterAllocateIdentity(ids, l)
        /\ alloc' = IP!AfterAllocate(alloc, p)
        /\ add' = e
        /\ mu' = c
        /\ phase' = [phase EXCEPT ![c] = "addVeth"]
    BY <1>9 DEF AddAllocate, life
  <2>2. /\ phase' \in [Sandboxes -> InFlight \cup {"idle", "up", "failed", "gone"}]
        /\ \A d \in Sandboxes : phase'[d] = IF d = c THEN "addVeth" ELSE phase[d]
        /\ RuntimeInv' /\ DataPlaneInv' /\ Asked' = Asked \cup {c}
    BY <1>7, <2>1
  <2>3. e # NoEndpoint => \A q \in Pods : Owned(q)' = IF q = p THEN e ELSE Owned(q)
    BY <1>1, <1>4, <2>1 DEF Owned
  <2>4. Owned(p) = NoEndpoint
    BY <1>2, <1>4
  <2>5. AddressInv /\ IdentityInv
    BY DEF Inv
  <2>a. e # NoEndpoint
    BY <1>9, Constants
  <2>6. AddressInv' /\ IdentityInv' /\ e \in EndpointType
    <3> HIDE DEF p, l
    <3> QED BY <1>2, <1>3, <1>5, <1>9, <2>1, <2>2, <2>3, <2>a, <2>4, <2>5, AllocateOwned
  <2> HIDE DEF e
  <2>7. ProcessInv'
    BY <1>1, <1>4, <2>1, <2>2, <2>6 DEF Inv, ProcessInv, Adding
  <2>8. LinksInv'
    BY <1>1, <1>4, <2>1, <2>2 DEF Inv, LinksInv, LinkInv, Added, Adding, Unlinked
  <2> QED BY <2>2, <2>6, <2>7, <2>8 DEF Inv
<1> QED BY <1>8, <1>9

\* HandleAdd's error paths after the allocation.
LEMMA RollbackInv ==
  ASSUME Inv, NEW c \in Sandboxes, mu = c, phase[c] \in Adding,
         Rollback, Answer(c, "failed"), UNCHANGED <<agent, podEndpoints, dp>>,
         DeleteLink(c) \/ (phase[c] = "addVeth" /\ UNCHANGED net)
  PROVE  Inv'
<1> DEFINE p == PodOf[c]
<1>1. /\ phase' \in [Sandboxes -> InFlight \cup {"idle", "up", "failed", "gone"}]
      /\ \A d \in Sandboxes : phase'[d] = IF d = c THEN "failed" ELSE phase[d]
  BY DEF Inv, ProcessInv, Answer
<1>2. /\ alloc' = IP!AfterRelease(alloc, p)
      /\ ids' = ID!AfterReleaseIdentity(ids, add.id)
      /\ mu' = "free" /\ add' = NoEndpoint /\ "free" \notin Sandboxes
  BY LockAssumption DEF Rollback
<1>3. p \in Pods /\ podEndpoints[p] = NoEndpoint
  BY NoEndpointWhileAdding DEF Inv
<1>4. \A d \in Sandboxes \ {c} : phase[d] \notin Adding /\ phase[d] # "delRelease"
  BY DEF Inv, ProcessInv
<1>5. ProcessInv'
  BY <1>1, <1>2, <1>4 DEF Inv, ProcessInv, Adding
<1>6. RuntimeInv'
  <2>1. \A d, e \in Sandboxes : (d # e /\ PodOf[d] = PodOf[e]) =>
          phase'[d] \in Inactive \/ phase'[e] \in Inactive
    BY <1>1 DEF Inv, RuntimeInv, Inactive, Adding
  <2>2. \A q \in Pods : podEndpoints[q] # NoEndpoint =>
          \E d \in Sandboxes : PodOf[d] = q /\ phase'[d] \in Added
    BY <1>1 DEF Inv, RuntimeInv, Added
  <2> QED BY <1>1, <2>1, <2>2 DEF Inv, RuntimeInv, Up
<1>7. LinksInv'
  <2>1. /\ links' \in [Sandboxes -> [end : {"none", "host", "pod"}, ip : IP!Offsets \cup {NoIP}]]
        /\ Unlinked(c)' /\ undeleted \subseteq undeleted'
        /\ \A d \in Sandboxes \ {c} : links'[d] = links[d]
    <3>1. CASE DeleteLink(c)
      BY <3>1 DEF Inv, LinksInv, DeleteLink, NoLink, Unlinked
    <3>2. CASE phase[c] = "addVeth" /\ UNCHANGED net
      BY <3>2 DEF Inv, LinksInv, LinkInv, net, Unlinked
    <3> QED BY <3>1, <3>2
  <2>2. LinkInv(c)'
    BY <1>1, <1>3, <2>1 DEF LinkInv, Added
  <2>3. ASSUME NEW d \in Sandboxes \ {c} PROVE LinkInv(d)'
    BY <1>1, <1>4, <2>1 DEF Inv, LinksInv, LinkInv, Adding, Unlinked
  <2> QED BY <2>1, <2>2, <2>3 DEF LinksInv
<1>8. AddressInv' /\ IdentityInv'
  <2>1. Owned(p) = add /\ add \in EndpointType
    BY Constants DEF Owned, Inv, ProcessInv
  <2>2. \A q \in Pods : Owned(q)' = IF q = p THEN NoEndpoint ELSE Owned(q)
    BY <1>2, <1>3 DEF Owned
  <2>3. Asked' = Asked
    BY <1>1 DEF Asked, Adding
  <2>4. AddressInv /\ IdentityInv
    BY DEF Inv
  <2> HIDE DEF p
  <2> QED BY <1>2, <1>3, <2>1, <2>2, <2>3, <2>4, ReleaseOwned
<1>9. DataPlaneInv'
  BY <1>1, DataPlaneFrame, ProgrammedFrame DEF Inv, Adding
<1> QED BY <1>5, <1>6, <1>7, <1>8, <1>9 DEF Inv

LEMMA AddNetnsFailsInv ==
  ASSUME Inv, NEW c \in Sandboxes, AddNetnsFails(c)
  PROVE  Inv'
<1>1. /\ mu = c /\ phase[c] \in Adding /\ Rollback /\ Answer(c, "failed")
      /\ DeleteLink(c) \/ (phase[c] = "addVeth" /\ UNCHANGED net)
      /\ UNCHANGED <<agent, podEndpoints, dp>>
  BY DEF AddNetnsFails, Adding, life
<1> QED BY <1>1, RollbackInv

LEMMA AddProgramFailsInv ==
  ASSUME Inv, NEW c \in Sandboxes, AddProgramFails(c)
  PROVE  Inv'
<1>1. /\ mu = c /\ phase[c] \in Adding /\ Rollback /\ Answer(c, "failed")
      /\ DeleteLink(c) \/ (phase[c] = "addVeth" /\ UNCHANGED net)
      /\ UNCHANGED <<agent, podEndpoints, dp>>
  BY DEF AddProgramFails, Adding, life
<1> QED BY <1>1, RollbackInv

\* Addresses of two pods differ.
LEMMA AddressesApart ==
  ASSUME AddressInv, NEW p \in Pods, NEW q \in Pods, p # q, Owned(p).ip # NoIP
  PROVE  Owned(q).ip # Owned(p).ip
  BY DEF AddressInv, AllocSound, Keys

LEMMA AddProgramInv ==
  ASSUME Inv, NEW c \in Sandboxes, AddProgram(c)
  PROVE  Inv'
<1> DEFINE p == PodOf[c]
<1>1. /\ mu = c /\ phase[c] = "addDp" /\ mu' = "free" /\ "free" \notin Sandboxes
      /\ podEndpoints' = [podEndpoints EXCEPT ![p] = add]
      /\ add' = NoEndpoint
      /\ UNCHANGED <<agent, alloc, ids, links, undeleted>>
  BY LockAssumption DEF AddProgram, life, net
<1>a. PICK index \in Indices : dp' = DP!AddPodEndpoints(dp, ProgramEntry(index))
  BY DEF AddProgram
<1>2. PICK r \in {"up", "failed"} : phase' = [phase EXCEPT ![c] = r]
  BY DEF AddProgram, Answer, life
<1>3. /\ phase' \in [Sandboxes -> InFlight \cup {"idle", "up", "failed", "gone"}]
      /\ \A d \in Sandboxes : phase'[d] = IF d = c THEN r ELSE phase[d]
  BY <1>2 DEF Inv, ProcessInv
<1>4. p \in Pods /\ podEndpoints[p] = NoEndpoint
  BY <1>1, NoEndpointWhileAdding DEF Inv, Adding
<1>5. add \in EndpointType /\ podEndpoints \in [Pods -> EndpointType \cup {NoEndpoint}]
  BY <1>1 DEF Inv, ProcessInv, Adding
<1>6. /\ podEndpoints' \in [Pods -> EndpointType \cup {NoEndpoint}]
      /\ \A q \in Pods : podEndpoints'[q] = IF q = p THEN add ELSE podEndpoints[q]
      /\ podEndpoints'[p] # NoEndpoint
  BY <1>1, <1>4, <1>5, Constants
<1>7. \A d \in Sandboxes \ {c} : phase[d] \notin Adding /\ phase[d] # "delRelease"
  BY <1>1 DEF Inv, ProcessInv
<1>b. \A q \in Pods : Programmed(q) = podEndpoints[q] /\ Programmed(q)' = podEndpoints'[q]
  BY <1>1, <1>3, <1>7 DEF Programmed
<1>8. \A d \in Sandboxes \ {c} : PodOf[d] = p => phase[d] \in Inactive
  BY <1>1 DEF Inv, RuntimeInv, Inactive
<1>9. ProcessInv'
  BY <1>1, <1>3, <1>6, <1>7 DEF Inv, ProcessInv, Adding
<1>10. RuntimeInv'
  <2>1. \A d, e \in Sandboxes : (d # e /\ PodOf[d] = PodOf[e]) =>
          phase'[d] \in Inactive \/ phase'[e] \in Inactive
    BY <1>1, <1>3 DEF Inv, RuntimeInv, Inactive
  <2>2. \A q \in Pods : podEndpoints'[q] # NoEndpoint =>
          \E d \in Sandboxes : PodOf[d] = q /\ phase'[d] \in Added
    BY <1>1, <1>3, <1>6 DEF Inv, RuntimeInv, Added
  <2>3. \A d \in Sandboxes : phase'[d] \in {"up", "delRelease"} =>
          podEndpoints'[PodOf[d]] # NoEndpoint
    BY <1>1, <1>3, <1>6, <1>7, SandboxAssumption DEF Inv, RuntimeInv, Up
  <2> QED BY <2>1, <2>2, <2>3 DEF RuntimeInv, Up
<1>11. LinksInv'
  <2>1. links[c] = PodLink(add.ip)
    BY <1>1 DEF Inv, LinksInv, LinkInv
  <2>2. LinkInv(c)'
    BY <1>1, <1>3, <1>4, <1>6, <2>1 DEF LinkInv, Added
  <2>3. ASSUME NEW d \in Sandboxes \ {c} PROVE LinkInv(d)'
    <3>1. PodOf[d] \in Pods
      BY SandboxAssumption
    <3>2. CASE PodOf[d] = p
      <4>1. phase[d] \in Inactive /\ phase'[d] = phase[d] /\ LinkInv(d)
        BY <1>3, <1>8, <3>2 DEF Inv, LinksInv
      <4> QED BY <1>1, <4>1 DEF LinkInv, Added, Inactive, Unlinked
    <3>3. CASE PodOf[d] # p
      BY <1>1, <1>3, <1>6, <1>7, <3>1, <3>3 DEF Inv, LinksInv, LinkInv, Adding, Unlinked
    <3> QED BY <3>2, <3>3
  <2> QED BY <1>1, <2>2, <2>3 DEF Inv, LinksInv
<1>12. \A q \in Pods : Owned(q) = IF q = p THEN add ELSE podEndpoints[q]
  BY <1>1, <1>5, Constants DEF Owned
<1>13. AddressInv' /\ IdentityInv'
  <2>1. \A q \in Pods : Owned(q)' = Owned(q)
    BY <1>1, <1>6, <1>12 DEF Owned
  <2>2. Asked \subseteq Asked'
    BY <1>3 DEF Asked
  <2> QED BY <1>1, <2>1, <2>2, OwnedFrame DEF Inv
<1>14. DataPlaneInv'
  <2> DEFINE D == {add.ip}
  <2>1. D \in SUBSET IP!Offsets /\ add.ip # NoIP /\ add.id \in ID!IDs
    BY <1>5, Constants DEF EndpointType
  <2>2. ProgramEntry(index) \in [D -> Entries] /\ ProgramEntry(index)[add.ip].id = add.id
    BY <1>a, <2>1 DEF ProgramEntry, Entries
  <2>3. DataPlaneSound(dp)
    BY DEF Inv, DataPlaneInv
  <2> HIDE DEF D
  <2>4. /\ DataPlaneSound(dp')
        /\ \A a \in D : DP!Knows(dp', a, ProgramEntry(index)[a].id)
        /\ \A a \in IP!Offsets \ D :
             /\ \A i : DP!Knows(dp, a, i) => DP!Knows(dp', a, i)
             /\ DP!Forgot(dp, a) => DP!Forgot(dp', a)
    BY <1>a, <2>1, <2>2, <2>3, AddPodEndpointsFacts
  <2>5. DP!Knows(dp', add.ip, add.id)
    BY <2>2, <2>4 DEF D
  <2>6. \A q \in Pods \ {p} : podEndpoints[q].ip # add.ip
    <3>1. AddressInv
      BY DEF Inv
    <3> QED BY <1>4, <1>12, <2>1, <3>1, AddressesApart
  <2>7. ASSUME NEW ip \in IP!Offsets, \A q \in Pods : podEndpoints'[q].ip # ip
        PROVE  DP!Forgot(dp', ip)
    <3>1. ip # add.ip /\ \A q \in Pods : podEndpoints[q].ip # ip
      BY <1>4, <1>6, <2>7, Constants
    <3> QED BY <1>b, <2>4, <3>1 DEF Inv, DataPlaneInv, D
  <2>8. ASSUME NEW q \in Pods, podEndpoints'[q] # NoEndpoint
        PROVE  DP!Knows(dp', podEndpoints'[q].ip, podEndpoints'[q].id)
    <3>1. CASE q = p
      BY <1>6, <2>5, <3>1
    <3>2. CASE q # p
      <4>1. podEndpoints'[q] = podEndpoints[q] /\ podEndpoints[q].ip # add.ip
        BY <1>6, <2>6, <3>2
      <4>2. podEndpoints[q].ip \in IP!Offsets \ D
        BY <1>5, <2>8, <4>1 DEF EndpointType, D
      <4>3. DP!Knows(dp, podEndpoints[q].ip, podEndpoints[q].id)
        BY <1>b, <2>8, <4>1 DEF Inv, DataPlaneInv
      <4> QED BY <2>4, <4>1, <4>2, <4>3
    <3> QED BY <3>1, <3>2
  <2> QED BY <1>b, <2>4, <2>7, <2>8 DEF DataPlaneInv
<1> QED BY <1>9, <1>10, <1>11, <1>13, <1>14 DEF Inv

\* The pod has no endpoint, so that it has no record to release.
LEMMA DelUnknownInv ==
  ASSUME Inv, NEW c \in Sandboxes, DelUnknown(c)
  PROVE  Inv'
<1> DEFINE p == PodOf[c]
<1>1. /\ mu = "free" /\ mu \notin Sandboxes /\ phase[c] = "delWait"
      /\ podEndpoints[p] = NoEndpoint /\ alloc' = IP!AfterRelease(alloc, p)
      /\ UNCHANGED <<agent, mu, ids, podEndpoints, dp, add, links, undeleted>>
  BY LockAssumption DEF DelUnknown, life, net
<1>2. PICK r \in {"gone", "failed"} : phase' = [phase EXCEPT ![c] = r]
  BY DEF DelUnknown, Answer
<1>3. /\ phase' \in [Sandboxes -> InFlight \cup {"idle", "up", "failed", "gone"}]
      /\ \A d \in Sandboxes : phase'[d] = IF d = c THEN r ELSE phase[d]
  BY <1>2 DEF Inv, ProcessInv
<1>4. p \in Pods /\ p \in Keys
  BY SandboxAssumption DEF Keys
<1>5. alloc' = alloc
  <2>1. alloc.allocated[p] = NoIP
    BY <1>1, <1>4, NothingHalfWay, Constants DEF Inv, AddressInv
  <2> QED BY <1>1, <2>1 DEF IP!AfterRelease, IP!Has, NoIP
<1>6. ProcessInv'
  BY <1>1, <1>3 DEF Inv, ProcessInv, Adding
<1>7. RuntimeInv'
  <2>1. \A d, e \in Sandboxes : (d # e /\ PodOf[d] = PodOf[e]) =>
          phase'[d] \in Inactive \/ phase'[e] \in Inactive
    BY <1>1, <1>3 DEF Inv, RuntimeInv, Inactive
  <2>2. \A q \in Pods : podEndpoints[q] # NoEndpoint =>
          \E d \in Sandboxes : PodOf[d] = q /\ phase'[d] \in Added
    BY <1>1, <1>3 DEF Inv, RuntimeInv, Added
  <2> QED BY <1>1, <1>3, <2>1, <2>2 DEF Inv, RuntimeInv, Up
<1>8. LinksInv'
  BY <1>1, <1>3 DEF Inv, LinksInv, LinkInv, Added, Unlinked
<1>9. AddressInv' /\ IdentityInv'
  <2>1. \A q \in Pods : Owned(q)' = Owned(q)
    BY <1>1 DEF Owned
  <2>2. Asked \subseteq Asked'
    BY <1>3 DEF Asked
  <2> QED BY <1>1, <1>5, <2>1, <2>2, OwnedFrame DEF Inv
<1>10. DataPlaneInv'
  BY <1>1, <1>3, DataPlaneFrame, ProgrammedFrame DEF Inv
<1> QED BY <1>6, <1>7, <1>8, <1>9, <1>10 DEF Inv

\* The data plane forgets the pod and the interface goes; the pod still owns its
\* address and its identity.
LEMMA DelTeardownInv ==
  ASSUME Inv, NEW c \in Sandboxes, DelTeardown(c)
  PROVE  Inv'
<1> DEFINE p == PodOf[c]
           info == podEndpoints[p]
<1>1. /\ mu = "free" /\ mu \notin Sandboxes /\ mu' = c /\ phase[c] = "delWait"
      /\ info # NoEndpoint /\ phase' = [phase EXCEPT ![c] = "delRelease"]
      /\ dp' = DP!RemovePodEndpoint(dp, info.ip)
      /\ UNCHANGED <<agent, alloc, ids, podEndpoints, add>>
  BY LockAssumption DEF DelTeardown, life
<1>2. /\ phase' \in [Sandboxes -> InFlight \cup {"idle", "up", "failed", "gone"}]
      /\ \A d \in Sandboxes : phase'[d] = IF d = c THEN "delRelease" ELSE phase[d]
  BY <1>1 DEF Inv, ProcessInv, InFlight
<1>3. p \in Pods /\ podEndpoints \in [Pods -> EndpointType \cup {NoEndpoint}]
  BY SandboxAssumption DEF Inv, ProcessInv
<1>4. /\ add = NoEndpoint
      /\ \A d \in Sandboxes : phase[d] \notin Adding /\ phase[d] # "delRelease"
      /\ \A q \in Pods : Owned(q) = podEndpoints[q] /\ Programmed(q) = podEndpoints[q]
  BY <1>1, NothingHalfWay DEF Inv
<1>5. \A q \in Pods : Programmed(q)' = IF q = p THEN NoEndpoint ELSE podEndpoints[q]
  BY <1>1, <1>2, <1>4 DEF Programmed
<1>6. ProcessInv'
  BY <1>1, <1>2, <1>4 DEF Inv, ProcessInv, Adding
<1>7. RuntimeInv'
  <2>1. \A d, e \in Sandboxes : (d # e /\ PodOf[d] = PodOf[e]) =>
          phase'[d] \in Inactive \/ phase'[e] \in Inactive
    BY <1>1, <1>2 DEF Inv, RuntimeInv, Inactive
  <2>2. \A q \in Pods : podEndpoints[q] # NoEndpoint =>
          \E d \in Sandboxes : PodOf[d] = q /\ phase'[d] \in Added
    BY <1>2 DEF Inv, RuntimeInv, Added
  <2> QED BY <1>1, <1>2, <2>1, <2>2 DEF Inv, RuntimeInv, Up
<1>8. LinksInv'
  <2>1. /\ links' \in [Sandboxes -> [end : {"none", "host", "pod"}, ip : IP!Offsets \cup {NoIP}]]
        /\ Unlinked(c)' /\ undeleted \subseteq undeleted'
        /\ \A d \in Sandboxes \ {c} : links'[d] = links[d]
    BY DEF Inv, LinksInv, DelTeardown, DeleteLink, NoLink, Unlinked
  <2>2. LinkInv(c)'
    BY <1>2, <2>1 DEF LinkInv, Added
  <2>3. ASSUME NEW d \in Sandboxes \ {c} PROVE LinkInv(d)'
    BY <1>1, <1>2, <2>1 DEF Inv, LinksInv, LinkInv, Unlinked
  <2> QED BY <2>1, <2>2, <2>3 DEF LinksInv
<1>9. AddressInv' /\ IdentityInv'
  <2>1. \A q \in Pods : Owned(q)' = Owned(q)
    BY <1>1, <1>4 DEF Owned
  <2>2. Asked \subseteq Asked'
    BY <1>2 DEF Asked
  <2> QED BY <1>1, <2>1, <2>2, OwnedFrame DEF Inv
<1>10. DataPlaneInv'
  <2>1. info \in EndpointType /\ info.ip \in IP!Offsets /\ info.ip # NoIP
    BY <1>1, <1>3, Constants DEF EndpointType
  <2>2. AddressInv /\ DataPlaneSound(dp)
    BY DEF Inv, DataPlaneInv
  <2> HIDE DEF p, info
  <2>3. /\ DataPlaneSound(dp')
        /\ DP!Forgot(dp', info.ip)
        /\ \A a \in IP!Offsets \ {info.ip} :
             /\ \A i : DP!Knows(dp, a, i) => DP!Knows(dp', a, i)
             /\ DP!Forgot(dp, a) => DP!Forgot(dp', a)
    BY <1>1, <2>1, <2>2, RemovePodEndpointFacts
  <2>4. \A q \in Pods \ {p} : podEndpoints[q].ip # info.ip
    BY <1>3, <1>4, <2>1, <2>2, AddressesApart DEF info
  <2>5. ASSUME NEW ip \in IP!Offsets, \A q \in Pods : Programmed(q)'.ip # ip
        PROVE  DP!Forgot(dp', ip)
    <3>1. CASE ip = info.ip
      BY <2>3, <3>1
    <3>2. CASE ip # info.ip
      <4>1. \A q \in Pods : Programmed(q).ip # ip
        BY <1>4, <1>5, <2>5, <3>2 DEF info
      <4> QED BY <2>3, <3>2, <4>1 DEF Inv, DataPlaneInv
    <3> QED BY <3>1, <3>2
  <2>6. ASSUME NEW q \in Pods, Programmed(q)' # NoEndpoint
        PROVE  DP!Knows(dp', Programmed(q)'.ip, Programmed(q)'.id)
    <3>1. q # p /\ Programmed(q)' = podEndpoints[q] /\ Programmed(q) = podEndpoints[q]
      BY <1>4, <1>5, <2>6
    <3>2. podEndpoints[q].ip \in IP!Offsets \ {info.ip}
      BY <1>3, <2>4, <2>6, <3>1 DEF EndpointType
    <3>3. DP!Knows(dp, podEndpoints[q].ip, podEndpoints[q].id)
      BY <2>6, <3>1 DEF Inv, DataPlaneInv
    <3> QED BY <2>3, <3>1, <3>2, <3>3
  <2> QED BY <2>3, <2>5, <2>6 DEF DataPlaneInv
<1> QED BY <1>6, <1>7, <1>8, <1>9, <1>10 DEF Inv

\* The pod gives back what it owns; the data plane had forgotten it.
LEMMA DelReleaseInv ==
  ASSUME Inv, NEW c \in Sandboxes, DelRelease(c)
  PROVE  Inv'
<1> DEFINE p == PodOf[c]
           info == podEndpoints[p]
<1>1. /\ mu = c /\ mu' = "free" /\ mu' \notin Sandboxes /\ phase[c] = "delRelease"
      /\ alloc' = IP!AfterRelease(alloc, p)
      /\ ids' = ID!AfterReleaseIdentity(ids, info.id)
      /\ podEndpoints' = [podEndpoints EXCEPT ![p] = NoEndpoint]
      /\ UNCHANGED <<agent, dp, add, links, undeleted>>
  BY LockAssumption DEF DelRelease, life, net
<1>2. PICK r \in {"gone", "failed"} : phase' = [phase EXCEPT ![c] = r]
  BY DEF DelRelease, Answer
<1>3. /\ phase' \in [Sandboxes -> InFlight \cup {"idle", "up", "failed", "gone"}]
      /\ \A d \in Sandboxes : phase'[d] = IF d = c THEN r ELSE phase[d]
  BY <1>2 DEF Inv, ProcessInv
<1>4. /\ p \in Pods /\ podEndpoints \in [Pods -> EndpointType \cup {NoEndpoint}]
      /\ info # NoEndpoint
  BY <1>1, SandboxAssumption DEF Inv, ProcessInv, RuntimeInv
<1>5. /\ podEndpoints' \in [Pods -> EndpointType \cup {NoEndpoint}]
      /\ \A q \in Pods : podEndpoints'[q] = IF q = p THEN NoEndpoint ELSE podEndpoints[q]
  BY <1>1, <1>4
<1>6. \A d \in Sandboxes \ {c} : /\ PodOf[d] = p => phase[d] \in Inactive
                                  /\ phase[d] \notin Adding /\ phase[d] # "delRelease"
  BY <1>1 DEF Inv, RuntimeInv, ProcessInv, Inactive
<1>7. add = NoEndpoint
  BY <1>1, <1>6 DEF Inv, ProcessInv, Adding
<1>8. ProcessInv'
  BY <1>1, <1>3, <1>5, <1>6, <1>7 DEF Inv, ProcessInv, Adding
<1>9. RuntimeInv'
  <2>1. \A d, e \in Sandboxes : (d # e /\ PodOf[d] = PodOf[e]) =>
          phase'[d] \in Inactive \/ phase'[e] \in Inactive
    BY <1>1, <1>3 DEF Inv, RuntimeInv, Inactive
  <2>2. \A q \in Pods : podEndpoints'[q] # NoEndpoint =>
          \E d \in Sandboxes : PodOf[d] = q /\ phase'[d] \in Added
    BY <1>3, <1>5 DEF Inv, RuntimeInv
  <2>3. \A d \in Sandboxes : phase'[d] \in {"up", "delRelease"} =>
          podEndpoints'[PodOf[d]] # NoEndpoint
    BY <1>3, <1>5, <1>6, SandboxAssumption DEF Inv, RuntimeInv, Up, Inactive
  <2> QED BY <2>1, <2>2, <2>3 DEF RuntimeInv, Up
<1>10. LinksInv'
  <2>1. LinkInv(c)'
    BY <1>1, <1>3, <1>4, <1>5 DEF Inv, LinksInv, LinkInv, Added, Unlinked
  <2>2. ASSUME NEW d \in Sandboxes \ {c} PROVE LinkInv(d)'
    <3>1. PodOf[d] \in Pods
      BY SandboxAssumption
    <3>2. CASE PodOf[d] = p
      <4>1. phase[d] \in Inactive /\ phase'[d] = phase[d] /\ LinkInv(d)
        BY <1>3, <1>6, <3>2 DEF Inv, LinksInv
      <4> QED BY <1>1, <4>1 DEF LinkInv, Added, Inactive, Unlinked
    <3>3. CASE PodOf[d] # p
      BY <1>1, <1>3, <1>5, <3>1, <3>3 DEF Inv, LinksInv, LinkInv, Unlinked
    <3> QED BY <3>2, <3>3
  <2> QED BY <1>1, <2>1, <2>2 DEF Inv, LinksInv
<1>11. AddressInv' /\ IdentityInv'
  <2>1. \A q \in Pods : Owned(q) = podEndpoints[q] /\ Owned(q)' = podEndpoints'[q]
    BY <1>1, <1>7 DEF Owned
  <2>2. Owned(p) \in EndpointType /\ Owned(p) = info
    BY <1>4, <2>1
  <2>3. \A q \in Pods : Owned(q)' = IF q = p THEN NoEndpoint ELSE Owned(q)
    BY <1>5, <2>1
  <2>4. Asked' = Asked
    BY <1>1, <1>3 DEF Asked
  <2>5. AddressInv /\ IdentityInv
    BY DEF Inv
  <2> HIDE DEF p, info
  <2> QED BY <1>1, <1>4, <2>2, <2>3, <2>4, <2>5, ReleaseOwned
<1>12. DataPlaneInv'
  <2>1. \A q \in Pods : Programmed(q)' = Programmed(q)
    BY <1>1, <1>3, <1>5, <1>6 DEF Programmed
  <2> QED BY <1>1, <2>1, DataPlaneFrame DEF Inv
<1> QED BY <1>8, <1>9, <1>10, <1>11, <1>12 DEF Inv

\* reconcile finds nothing to drop, and writes what is there.
LEMMA ReconcileSweepInv ==
  ASSUME Inv, ReconcileSweep
  PROVE  Inv'
<1>1. /\ mu = "free" /\ mu' = "reconcile" /\ {"free", "reconcile"} \cap Sandboxes = {}
      /\ alloc' = IP!AfterReconcile(alloc, ActivePods)
      /\ dp' = DP!AddPodEndpoints(dp, EndpointEntries)
      /\ UNCHANGED <<agent, ids, podEndpoints, add, phase, links, undeleted>>
  BY LockAssumption DEF ReconcileSweep, life, net
<1>a. /\ \A q \in Pods : Owned(q) = podEndpoints[q] /\ Programmed(q) = podEndpoints[q]
      /\ \A c \in Sandboxes : phase[c] \notin Adding /\ phase[c] # "delRelease"
  BY <1>1, NothingHalfWay DEF Inv
<1>2. \A q \in Pods : /\ Owned(q) = podEndpoints[q] /\ Owned(q)' = podEndpoints[q]
                       /\ Programmed(q) = podEndpoints[q] /\ Programmed(q)' = podEndpoints[q]
  BY <1>1, <1>a DEF Owned, Programmed
<1>3. podEndpoints \in [Pods -> EndpointType \cup {NoEndpoint}]
  BY DEF Inv, ProcessInv
<1>4. AddressInv /\ AllocSound(alloc) /\ DataPlaneSound(dp)
  BY DEF Inv, AddressInv, DataPlaneInv
<1>5. alloc' = alloc
  <2>1. \A k \in Keys : alloc.allocated[k] # NoIP => k \in ActivePods
    BY <1>2, <1>4, Constants DEF AddressInv, Keys, ActivePods
  <2> QED BY <1>1, <1>4, <2>1, ReconcileFacts
<1>6. ProcessInv'
  <2>1. mu' \notin Sandboxes /\ mu \notin Sandboxes
    BY <1>1
  <2> QED BY <1>1, <1>a, <2>1 DEF Inv, ProcessInv
<1>7. RuntimeInv'
  BY <1>1 DEF Inv, RuntimeInv, Up
<1>8. LinksInv'
  BY <1>1 DEF Inv, LinksInv, LinkInv, Unlinked
<1>9. AddressInv' /\ IdentityInv'
  <2>1. Asked' = Asked
    BY <1>1 DEF Asked
  <2> QED BY <1>1, <1>2, <1>5, <2>1, OwnedFrame DEF Inv
<1>10. DataPlaneInv'
  <2> DEFINE D == {podEndpoints[p].ip : p \in Pods} \ {NoIP}
             es == EndpointEntries
             Owner(ip) == CHOOSE p \in Pods : podEndpoints[p].ip = ip
  <2>1. \A p \in Pods : podEndpoints[p].ip # NoIP => podEndpoints[p] \in EndpointType
    BY <1>3, Constants
  <2>2. D \in SUBSET IP!Offsets
    BY <2>1 DEF EndpointType
  <2>3. ASSUME NEW ip \in D
        PROVE  /\ Owner(ip) \in Pods /\ podEndpoints[Owner(ip)].ip = ip
               /\ podEndpoints[Owner(ip)].id \in ID!IDs
    <3>1. \E p \in Pods : podEndpoints[p].ip = ip
      OBVIOUS
    <3>2. Owner(ip) \in Pods /\ podEndpoints[Owner(ip)].ip = ip
      BY <3>1
    <3> QED BY <2>1, <3>2 DEF EndpointType
  <2>4. es = [ip \in D |-> [id |-> podEndpoints[Owner(ip)].id, ifIndex |-> 0]]
    BY DEF EndpointEntries
  <2> HIDE DEF es, Owner, D
  <2>5. es \in [D -> Entries] /\ \A ip \in D : es[ip].id = podEndpoints[Owner(ip)].id
    BY <2>3, <2>4 DEF Entries, Indices
  <2>6. /\ DataPlaneSound(dp')
        /\ \A a \in D : DP!Knows(dp', a, es[a].id)
        /\ \A a \in IP!Offsets \ D :
             /\ \A i : DP!Knows(dp, a, i) => DP!Knows(dp', a, i)
             /\ DP!Forgot(dp, a) => DP!Forgot(dp', a)
    <3>1. dp' = DP!AddPodEndpoints(dp, es)
      BY <1>1 DEF es
    <3> QED BY <1>4, <2>2, <2>5, <3>1, AddPodEndpointsFacts
  <2>7. ASSUME NEW ip \in IP!Offsets, \A p \in Pods : podEndpoints[p].ip # ip
        PROVE  DP!Forgot(dp', ip)
    <3>1. ip \notin D
      BY <2>7 DEF D
    <3> QED BY <1>2, <2>6, <2>7, <3>1 DEF Inv, DataPlaneInv
  <2>8. ASSUME NEW p \in Pods, podEndpoints[p] # NoEndpoint
        PROVE  DP!Knows(dp', podEndpoints[p].ip, podEndpoints[p].id)
    <3> DEFINE ip == podEndpoints[p].ip
               o == Owner(ip)
    <3>1. ip \in D /\ ip # NoIP
      BY <1>3, <2>8, Constants DEF D, EndpointType
    <3>2. o \in Pods /\ podEndpoints[o].ip = ip
      BY <2>3, <3>1
    <3>3. o = p
      BY <1>2, <1>4, <3>1, <3>2, AddressesApart
    <3>4. es[ip].id = podEndpoints[p].id
      BY <2>5, <3>1, <3>3
    <3> QED BY <2>6, <3>1, <3>4
  <2> QED BY <1>1, <1>2, <2>6, <2>7, <2>8 DEF DataPlaneInv
<1> QED BY <1>6, <1>7, <1>8, <1>9, <1>10 DEF Inv

LEMMA ReconcileSaveInv ==
  ASSUME Inv, ReconcileSave
  PROVE  Inv'
<1>1. /\ mu = "reconcile" /\ mu' = "free" /\ mu \notin Sandboxes /\ mu' \notin Sandboxes
      /\ UNCHANGED <<agent, alloc, ids, podEndpoints, dp, add, phase, links, undeleted>>
  BY LockAssumption DEF ReconcileSave, process, life, net
<1>2. ProcessInv'
  <2>1. \A c \in Sandboxes : phase[c] \notin Adding /\ phase[c] # "delRelease"
    BY <1>1, NothingHalfWay DEF Inv
  <2> QED BY <1>1, <2>1 DEF Inv, ProcessInv
<1>3. RuntimeInv'
  BY <1>1 DEF Inv, RuntimeInv, Up
<1>4. LinksInv'
  BY <1>1 DEF Inv, LinksInv, LinkInv, Unlinked
<1>5. AddressInv' /\ IdentityInv'
  <2>1. \A q \in Pods : Owned(q)' = Owned(q)
    BY <1>1 DEF Owned
  <2>2. Asked' = Asked
    BY <1>1 DEF Asked
  <2> QED BY <1>1, <2>1, <2>2, OwnedFrame DEF Inv
<1>6. DataPlaneInv'
  BY <1>1, DataPlaneFrame, ProgrammedFrame DEF Inv
<1> QED BY <1>2, <1>3, <1>4, <1>5, <1>6 DEF Inv

LEMMA NextInv ==
  ASSUME AgentLives, Inv, [Next]_vars
  PROVE  Inv'
<1>1. ASSUME NEW c \in Sandboxes, Serve(c) \/ GoOn(c)
      PROVE  Inv'
  BY <1>1, AddAllocateInv, DelUnknownInv, DelTeardownInv, DelReleaseInv,
     AddCreateVethInv, AddMoveToNetnsInv, AddConfigureInv,
     AddNetnsFailsInv, AddProgramInv, AddProgramFailsInv DEF Serve, GoOn
<1>2. ASSUME NEW c \in Sandboxes, SendAdd(c) \/ SendDel(c) \/ RemoveNetns(c)
      PROVE  Inv'
  BY <1>2, SendAddInv, SendDelInv, RemoveNetnsInv
<1>3. CASE ReconcileSweep
  BY <1>3, ReconcileSweepInv
<1>4. CASE ReconcileSave
  BY <1>4, ReconcileSaveInv
<1>5. ~(StopServer \/ ComeBack \/ Kill)
  <2>1. agent = "up" /\ "stop" \notin Faults /\ "drain" \notin Faults /\ "crash" \notin Faults
    BY DEF AgentLives, Inv, ProcessInv
  <2> QED BY <2>1 DEF StopServer, ComeBack, StopSave, StopExit, LoadCheckpoint, LoadFails, RestoreRecord,
                       StartAgent, Kill
<1>6. CASE UNCHANGED vars
  <2>1. UNCHANGED <<agent, mu, alloc, ids, podEndpoints, dp, add, phase, links, undeleted>>
    BY <1>6 DEF vars, process, life, net
  <2>2. ProcessInv' /\ RuntimeInv' /\ LinksInv'
    BY <2>1 DEF Inv, ProcessInv, RuntimeInv, LinksInv, LinkInv, Up, Unlinked
  <2>3. AddressInv' /\ IdentityInv'
    <3>1. \A q \in Pods : Owned(q)' = Owned(q)
      BY <2>1 DEF Owned
    <3>2. Asked' = Asked
      BY <2>1 DEF Asked
    <3> QED BY <2>1, <3>1, <3>2, OwnedFrame DEF Inv
  <2>4. DataPlaneInv'
    BY <2>1, DataPlaneFrame, ProgrammedFrame DEF Inv
  <2> QED BY <2>2, <2>3, <2>4 DEF Inv
<1> QED BY <1>1, <1>2, <1>3, <1>4, <1>5, <1>6 DEF Next
-----------------------------------------------------------------------------
(* The theorems.                                                           *)

\* Locks, endpoints, records, identities, interfaces and tables stay consistent
\* at every step of every handler, as long as the agent lives.
THEOREM AgentInvariant == ASSUME AgentLives PROVE Spec => []Inv
<1>1. Init => Inv
  BY InitInv
<1>2. Inv /\ [Next]_vars => Inv'
  BY NextInv
<1> QED BY <1>1, <1>2, PTL DEF Spec

\* A connected sandbox's pod is not being added at the same time.
LEMMA UpFacts ==
  ASSUME Inv, NEW c \in Sandboxes, Up(c)
  PROVE  /\ PodOf[c] \in Pods
         /\ podEndpoints[PodOf[c]] \in EndpointType
         /\ Owned(PodOf[c]) = podEndpoints[PodOf[c]]
         /\ links[c] = PodLink(podEndpoints[PodOf[c]].ip)
<1>1. /\ PodOf[c] \in Pods /\ podEndpoints[PodOf[c]] # NoEndpoint
      /\ podEndpoints \in [Pods -> EndpointType \cup {NoEndpoint}]
  BY SandboxAssumption DEF Inv, ProcessInv, RuntimeInv
<1>2. Owned(PodOf[c]) = podEndpoints[PodOf[c]]
  <2>1. ASSUME mu \in Sandboxes, PodOf[mu] = PodOf[c], add # NoEndpoint PROVE FALSE
    <3>1. phase[mu] \in Adding
      BY <2>1 DEF Inv, ProcessInv
    <3>2. podEndpoints[PodOf[mu]] = NoEndpoint
      BY <2>1, <3>1, NoEndpointWhileAdding DEF Inv
    <3> QED BY <1>1, <2>1, <3>2
  <2> QED BY <2>1 DEF Owned
<1>3. links[c] = PodLink(podEndpoints[PodOf[c]].ip)
  BY <1>1 DEF Up, Inv, LinksInv, LinkInv, Added
<1> QED BY <1>1, <1>2, <1>3

LEMMA QuietFacts ==
  ASSUME Inv, Quiet
  PROVE  \A p \in Pods : Owned(p) = podEndpoints[p] /\ Programmed(p) = podEndpoints[p]
  BY LockAssumption, NothingHalfWay DEF Quiet, Inv

\* No two connected pods have the same address on their interfaces, whatever
\* fails on the way of other ADDs and DELs (HandleAdd, HandleDel, reconcile).
THEOREM ConnectedPodsHaveUniqueIPs ==
  ASSUME AgentLives PROVE Spec => []UniquePodIPs
<1>1. Inv => UniquePodIPs
  <2> SUFFICES ASSUME Inv, NEW c \in Sandboxes, NEW d \in Sandboxes, Up(c), Up(d), c # d
               PROVE  links[c].ip # links[d].ip
    BY DEF UniquePodIPs
  <2>1. PodOf[c] # PodOf[d]
    BY DEF Inv, RuntimeInv, Inactive, Up
  <2>2. links[c].ip = Owned(PodOf[c]).ip /\ links[d].ip = Owned(PodOf[d]).ip
    <3>1. \A e \in Sandboxes : Up(e) => links[e] = PodLink(Owned(PodOf[e]).ip)
      BY UpFacts
    <3>2. \A x : PodLink(x).ip = x
      BY DEF PodLink
    <3>3. links[c] = PodLink(Owned(PodOf[c]).ip) /\ links[d] = PodLink(Owned(PodOf[d]).ip)
      BY <3>1
    <3> QED BY <3>2, <3>3
  <2>3. Owned(PodOf[c]).ip # NoIP /\ PodOf[c] \in Pods /\ PodOf[d] \in Pods /\ AddressInv
    BY UpFacts, Constants DEF EndpointType, Inv
  <2> QED BY <2>1, <2>2, <2>3, AddressesApart
<1> QED BY <1>1, AgentInvariant, PTL

\* Between handlers the allocator's records are the endpoints and the gateway:
\* no error path of HandleAdd or HandleDel leaks an address or frees one in use.
THEOREM NoAddressLeaks ==
  ASSUME AgentLives PROVE Spec => []AddressesMatchEndpoints
<1>1. Inv => AddressesMatchEndpoints
  <2> SUFFICES ASSUME Inv, Quiet
               PROVE  /\ alloc.allocated[Gateway] = GatewayIP
                      /\ \A p \in Pods : /\ alloc.allocated[p] = podEndpoints[p].ip
                                         /\ podEndpoints[p].ip # GatewayIP
    BY DEF AddressesMatchEndpoints
  <2>1. /\ alloc.allocated[Gateway] = GatewayIP
        /\ \A p \in Pods : alloc.allocated[p] = podEndpoints[p].ip
    BY QuietFacts DEF Inv, AddressInv
  <2>2. GatewayIP # NoIP
    BY Constants DEF GatewayIP
  <2>3. \A p \in Pods : alloc.allocated[p] # alloc.allocated[Gateway]
    BY <2>1, <2>2, GatewayAssumption DEF Inv, AddressInv, AllocSound, Keys
  <2> QED BY <2>1, <2>3
<1> QED BY <1>1, AgentInvariant, PTL

\* Between handlers an identity's reference count is the number of endpoints
\* that use it, so that every AllocateIdentity is paired with one release.
THEOREM NoIdentityLeaks ==
  ASSUME AgentLives PROVE Spec => []IdentitiesMatchEndpoints
<1>1. Inv => IdentitiesMatchEndpoints
  <2> SUFFICES ASSUME Inv, Quiet, NEW i \in ID!IDs
               PROVE  LET users == {p \in Pods : podEndpoints[p].id = i}
                      IN  IF i \in ids.live THEN ids.refCount[i] = Cardinality(users)
                                            ELSE users = {}
    BY DEF IdentitiesMatchEndpoints
  <2> DEFINE users == {p \in Pods : podEndpoints[p].id = i}
  <2>1. IdentityInv /\ i # NoID
    BY Constants DEF Inv
  <2>2. \A p \in users : p \in Pods /\ Owned(p).id = i
    BY QuietFacts
  <2>3. CASE i \in ids.live
    <3>1. PICK p \in Pods : Owned(p).id = i
      BY <2>1, <2>3 DEF IdentityInv
    <3>2. p \in users
      BY <3>1, QuietFacts
    <3>3. \A q \in users : q = p
      BY <2>1, <2>2, <3>1, IdentitiesApart
    <3>4. users = {p}
      BY <3>2, <3>3
    <3>5. Cardinality(users) = 1
      BY <3>4, FS_Singleton
    <3> QED BY <2>1, <2>3, <3>5 DEF IdentityInv
  <2>4. CASE i \notin ids.live
    <3>1. \A p \in users : FALSE
      BY <2>1, <2>2, <2>4 DEF IdentityInv
    <3> QED BY <2>4, <3>1
  <2> QED BY <2>3, <2>4
<1> QED BY <1>1, AgentInvariant, PTL

\* Between handlers both data planes' tables have an entry, with the right
\* identity, exactly for the addresses of the endpoints.
THEOREM DataPlaneFollowsEndpoints ==
  ASSUME AgentLives PROVE Spec => []DataPlaneMatchesEndpoints
<1>1. Inv => DataPlaneMatchesEndpoints
  <2> SUFFICES ASSUME Inv, Quiet, NEW ip \in IP!Offsets
               PROVE  LET users == {p \in Pods : podEndpoints[p].ip = ip}
                      IN  IF users = {} THEN DP!Forgot(dp, ip)
                          ELSE \E p \in users : DP!Knows(dp, ip, podEndpoints[p].id)
    BY DEF DataPlaneMatchesEndpoints
  <2> DEFINE users == {p \in Pods : podEndpoints[p].ip = ip}
  <2>1. CASE users = {}
    <3>1. \A p \in Pods : podEndpoints[p].ip # ip
      BY <2>1
    <3> QED BY <2>1, <3>1, QuietFacts DEF Inv, DataPlaneInv
  <2>2. CASE users # {}
    <3>1. PICK p \in Pods : podEndpoints[p].ip = ip
      BY <2>2
    <3>2. podEndpoints[p] # NoEndpoint
      BY <3>1, Constants
    <3>3. DP!Knows(dp, ip, podEndpoints[p].id)
      BY <3>1, <3>2, QuietFacts DEF Inv, DataPlaneInv
    <3>4. p \in users
      BY <3>1
    <3>5. \E q \in users : DP!Knows(dp, ip, podEndpoints[q].id)
      BY <3>3, <3>4
    <3> QED BY <2>2, <3>5
  <2> QED BY <2>1, <2>2
<1> QED BY <1>1, AgentInvariant, PTL

\* What the runtime was told is true: a connected pod's interface is in its
\* namespace with the recorded address, which the data plane knows.
THEOREM UpPodsAreConnected ==
  ASSUME AgentLives PROVE Spec => []UpMeansConnected
<1>1. Inv => UpMeansConnected
  <2> SUFFICES ASSUME Inv, Quiet, NEW c \in Sandboxes, Up(c)
               PROVE  /\ links[c].end = "pod" /\ links[c].ip # NoIP
                      /\ podEndpoints[PodOf[c]].ip = links[c].ip
                      /\ DP!Knows(dp, links[c].ip, podEndpoints[PodOf[c]].id)
    BY DEF UpMeansConnected
  <2>1. /\ PodOf[c] \in Pods
        /\ podEndpoints[PodOf[c]] \in EndpointType
        /\ links[c] = PodLink(podEndpoints[PodOf[c]].ip)
    BY UpFacts
  <2>2. /\ links[c].end = "pod" /\ links[c].ip = podEndpoints[PodOf[c]].ip
        /\ links[c].ip # NoIP /\ podEndpoints[PodOf[c]] # NoEndpoint
    BY <2>1, Constants DEF PodLink, EndpointType
  <2> QED BY <2>1, <2>2, QuietFacts DEF Inv, DataPlaneInv
<1> QED BY <1>1, AgentInvariant, PTL

\* A failed ADD, or one whose answer was lost, and the DEL after it leave no
\* interface behind, but one that DeleteLink returned an error for
\* (SetupPodNetwork's defer, TeardownPodNetwork).
THEOREM InterfacesAreRemoved ==
  ASSUME AgentLives PROVE Spec => []NoInterfaceLeftBehind
<1>1. Inv => NoInterfaceLeftBehind
  BY DEF Inv, LinksInv, LinkInv, NoInterfaceLeftBehind, Unlinked
<1> QED BY <1>1, AgentInvariant, PTL

-----------------------------------------------------------------------------
(* Across restarts.                                                        *)

AllocUsable(a) ==
  /\ AllocSound(a)
  /\ \A k \in Keys : a.allocated[k] \in IP!Usable \cup {NoIP}

\* Records of distinct pods and distinct usable addresses, the gateway's among
\* them.
FileSound(f) ==
  /\ f \in Seq([key : Keys, ip : IP!Usable])
  /\ \A i, j \in DOMAIN f : i # j => f[i].key # f[j].key /\ f[i].ip # f[j].ip
  /\ f # <<>> => \E i \in DOMAIN f : f[i].key = Gateway

\* While Restore runs, the allocator has a record for exactly the keys done, the
\* i-th with the i-th usable address.
RestoringInv ==
  agent = "restoring" =>
    /\ restored \in 0 .. Len(file)
    /\ IP!AllocatedKeys(alloc) = {file[i].key : i \in 1 .. restored}
    /\ \A i \in 1 .. restored : alloc.allocated[file[i].key] = i

\* The inductive invariant of an agent that may die and come back.
RestartInv ==
  /\ AllocUsable(alloc)
  /\ Running => alloc.allocated[Gateway] # NoIP
  /\ FileSound(file)
  /\ agent # "restoring" => restored = 0
  /\ agent = "starting" => \A k \in Keys : alloc.allocated[k] = NoIP
  /\ RestoringInv

-----------------------------------------------------------------------------
(* The allocator's methods preserve AllocUsable.                           *)

LEMMA AllocateKeeps ==
  ASSUME NEW a, AllocUsable(a), NEW k \in Keys
  PROVE  LET b == IP!AfterAllocate(a, k)
         IN  /\ AllocUsable(b)
             /\ \A m \in Keys \ {k} : b.allocated[m] = a.allocated[m]
             /\ a.allocated[k] # NoIP => b = a
             /\ IP!AllocateIP(a, k) # NoIP => b.allocated[k] # NoIP
<1> DEFINE b == IP!AfterAllocate(a, k)
           ip == IP!AllocateIP(a, k)
<1>0. AllocSound(a)
  BY DEF AllocUsable
<1>1. CASE a.allocated[k] # NoIP
  <2>1. b = a
    BY <1>1 DEF IP!AfterAllocate, IP!Has, NoIP
  <2> QED BY <1>1, <2>1
<1>2. CASE a.allocated[k] = NoIP /\ ip = NoIP
  <2>1. IP!Free(a) = {}
    <3>1. ASSUME IP!Free(a) # {} PROVE FALSE
      <4>1. IP!Free(a) \in SUBSET Nat
        BY Constants, BlockSizeAssumption DEF IP!Free
      <4>2. ip = IP!Min(IP!Free(a))
        BY <1>2, <3>1 DEF IP!AllocateIP, IP!Has, NoIP
      <4>3. ip \in Nat
        BY <3>1, <4>1, <4>2, MinIsLeast
      <4> QED BY <1>2, <4>3, Constants
    <3> QED BY <3>1
  <2>2. b = a
    BY <2>1 DEF IP!AfterAllocate
  <2> QED BY <1>2, <2>2
<1>3. CASE a.allocated[k] = NoIP /\ ip # NoIP
  <2>1. /\ ip \in IP!Usable /\ AllocSound(b)
        /\ b.allocated = [a.allocated EXCEPT ![k] = ip]
    BY <1>0, <1>3, AllocateFacts
  <2> HIDE DEF b, ip
  <2>2. b.allocated[k] = ip /\ \A m \in Keys \ {k} : b.allocated[m] = a.allocated[m]
    BY <1>0, <2>1 DEF AllocSound
  <2>3. \A m \in Keys : b.allocated[m] \in IP!Usable \cup {NoIP}
    BY <2>1, <2>2 DEF AllocUsable
  <2> QED BY <1>3, <2>1, <2>2, <2>3 DEF AllocUsable, b, ip
<1> QED BY <1>1, <1>2, <1>3

LEMMA ReleaseKeeps ==
  ASSUME NEW a, AllocUsable(a), NEW k \in Keys
  PROVE  LET b == IP!AfterRelease(a, k)
         IN  AllocUsable(b) /\ \A m \in Keys \ {k} : b.allocated[m] = a.allocated[m]
<1> DEFINE b == IP!AfterRelease(a, k)
<1>1. b.allocated = [a.allocated EXCEPT ![k] = NoIP] /\ AllocSound(b) /\ AllocSound(a)
  BY ReleaseFacts DEF AllocUsable
<1> HIDE DEF b
<1>2. b.allocated[k] = NoIP /\ \A m \in Keys \ {k} : b.allocated[m] = a.allocated[m]
  BY <1>1 DEF AllocSound
<1> QED BY <1>1, <1>2 DEF AllocUsable, b

LEMMA ReconcileKeeps ==
  ASSUME NEW a, AllocUsable(a), NEW active
  PROVE  LET b == IP!AfterReconcile(a, active)
         IN  AllocUsable(b) /\ \A m \in Keys : m \in active => b.allocated[m] = a.allocated[m]
<1> DEFINE b == IP!AfterReconcile(a, active)
           gone == IP!Dangling(a, active)
<1>0. a \in [bitmap : SUBSET IP!Offsets, allocated : [Keys -> IP!Offsets \cup {NoIP}]]
  BY DEF AllocUsable, AllocSound
<1>1. gone = {k \in Keys : a.allocated[k] # NoIP /\ k \notin active}
  BY DEF IP!Dangling, IP!AllocatedKeys, IP!Has, NoIP
<1>2. b = [bitmap    |-> a.bitmap \ {a.allocated[k] : k \in gone},
           allocated |-> [k \in Keys |-> IF k \in gone THEN NoIP ELSE a.allocated[k]]]
  BY DEF IP!AfterReconcile, NoIP
<1> HIDE DEF b, gone
<1>3. /\ b.bitmap = a.bitmap \ {a.allocated[k] : k \in gone}
      /\ b.allocated = [k \in Keys |-> IF k \in gone THEN NoIP ELSE a.allocated[k]]
      /\ b \in [bitmap : SUBSET IP!Offsets, allocated : [Keys -> IP!Offsets \cup {NoIP}]]
  BY <1>0, <1>2
<1>4. \A k \in Keys : b.allocated[k] = IF k \in gone THEN NoIP ELSE a.allocated[k]
  BY <1>3
<1>5. \A k, m \in Keys : (k # m /\ b.allocated[k] # NoIP) => b.allocated[k] # b.allocated[m]
  BY <1>4 DEF AllocUsable, AllocSound
<1>6. b.bitmap = {b.allocated[k] : k \in Keys} \ {NoIP}
  <2>1. \A x : x \in a.bitmap <=> (x # NoIP /\ \E k \in Keys : x = a.allocated[k])
    BY DEF AllocUsable, AllocSound
  <2>2. \A x : x \in b.bitmap <=>
          /\ x # NoIP /\ \E k \in Keys : x = a.allocated[k]
          /\ ~\E k \in gone : x = a.allocated[k]
    BY <1>3, <2>1
  <2>3. \A k, m \in Keys : (a.allocated[k] # NoIP /\ a.allocated[k] = a.allocated[m]) => k = m
    BY DEF AllocUsable, AllocSound
  <2>4. \A x : x \in b.bitmap <=> (x # NoIP /\ \E k \in Keys : x = b.allocated[k])
    BY <1>1, <1>4, <2>2, <2>3
  <2> QED BY <2>4
<1>7. \A k \in Keys : b.allocated[k] \in IP!Usable \cup {NoIP}
  BY <1>4 DEF AllocUsable
<1>8. \A m \in Keys : m \in active => b.allocated[m] = a.allocated[m]
  BY <1>1, <1>4
<1> QED BY <1>3, <1>5, <1>6, <1>7, <1>8 DEF AllocUsable, AllocSound, b

-----------------------------------------------------------------------------
(* The checkpoint.                                                         *)

\* Save writes every record once.
LEMMA SaveSound ==
  ASSUME AllocUsable(alloc), alloc.allocated[Gateway] # NoIP, FileSound(file), Save
  PROVE  FileSound(file')
<1> DEFINE K == IP!AllocatedKeys(alloc)
           S == {Record(k) : k \in K}
<1>1. CASE file' = file
  BY <1>1
<1>2. CASE file' \in SetToSeqs(S)
  <2>1. /\ K \subseteq Keys /\ Gateway \in K
        /\ \A k \in K : alloc.allocated[k] \in IP!Usable
        /\ \A k, m \in K : k # m => alloc.allocated[k] # alloc.allocated[m]
    BY DEF IP!AllocatedKeys, IP!Has, NoIP, AllocUsable, AllocSound, Keys
  <2>2. IsFiniteSet(K)
    <3>1. IsFiniteSet(Keys)
      BY PodsAssumption, FS_AddElement DEF Keys
    <3> QED BY <2>1, <3>1, FS_Subset
  <2> HIDE DEF K
  <2>3. IsFiniteSet(S)
    <3> DEFINE f == [k \in K |-> Record(k)]
    <3>1. f \in Surjection(K, S)
      BY DEF Surjection
    <3> QED BY <2>2, <3>1, FS_Surjection
  <2> DEFINE n == Cardinality(S)
  <2>4. n \in Nat
    BY <2>3, FS_CardinalityType
  <2>5. \A r \in S : r.key \in K /\ r.ip = alloc.allocated[r.key] /\ r = Record(r.key)
    BY DEF Record
  <2>6. file' \in [1 .. n -> S] /\ \A i, j \in 1 .. n : i # j => file'[i] # file'[j]
    BY <1>2 DEF SetToSeqs
  <2>7. S \subseteq [key : Keys, ip : IP!Usable]
    BY <2>1 DEF Record
  <2> HIDE DEF S, n
  <2>8. file' \in Seq([key : Keys, ip : IP!Usable]) /\ DOMAIN file' = 1 .. n
    <3> DEFINE T == [key : Keys, ip : IP!Usable]
    <3>1. S \subseteq T
      BY <2>7
    <3> HIDE DEF T
    <3>2. file' \in [1 .. n -> T] /\ DOMAIN file' = 1 .. n
      BY <2>6, <3>1
    <3>3. file' \in Seq(T)
      BY <2>4, <3>2, SeqDef
    <3> QED BY <3>2, <3>3 DEF T
  <2>9. ASSUME NEW i \in DOMAIN file', NEW j \in DOMAIN file', i # j
        PROVE  file'[i].key # file'[j].key /\ file'[i].ip # file'[j].ip
    <3>1. file'[i] \in S /\ file'[j] \in S /\ file'[i] # file'[j]
      BY <2>6, <2>8, <2>9
    <3>2. file'[i].key # file'[j].key
      BY <2>5, <3>1
    <3> QED BY <2>1, <2>5, <3>1, <3>2
  <2>10. \E i \in DOMAIN file' : file'[i].key = Gateway
    <3>1. file' \in Injection(1 .. n, S)
      BY <2>6 DEF Injection, IsInjective
    <3>2. Cardinality(1 .. n) = Cardinality(S)
      BY <2>4, FS_Interval DEF n
    <3>3. file' \in Surjection(1 .. n, S)
      BY <2>3, <3>1, <3>2, FS_Injection
    <3>4. Record(Gateway) \in S
      BY <2>1 DEF S
    <3>5. \E i \in 1 .. n : file'[i] = Record(Gateway)
      BY <3>3, <3>4 DEF Surjection
    <3> QED BY <2>8, <3>5 DEF Record
  <2> QED BY <2>8, <2>9, <2>10 DEF FileSound
<1> QED BY <1>1, <1>2 DEF Save

\* While there are records left there is an address left: the file's addresses
\* are distinct and usable, and only as many are taken as records are done.
LEMMA RestoreNeverFull ==
  ASSUME AllocUsable(alloc), FileSound(file), RestoringInv, agent = "restoring",
         restored < Len(file)
  PROVE  IP!Free(alloc) # {}
<1> SUFFICES ASSUME IP!Free(alloc) = {} PROVE FALSE
  OBVIOUS
<1>1. /\ restored \in Nat /\ Len(file) \in Nat /\ DOMAIN file = 1 .. Len(file)
      /\ \A i \in 1 .. Len(file) : file[i].ip \in IP!Usable
      /\ \A i, j \in 1 .. Len(file) : i # j => file[i].ip # file[j].ip
  <2> DEFINE T == [key : Keys, ip : IP!Usable]
  <2>1. \A t \in T : t.ip \in IP!Usable
    OBVIOUS
  <2>2. file \in Seq(T)
    BY DEF FileSound
  <2> HIDE DEF T
  <2>3. Len(file) \in Nat /\ DOMAIN file = 1 .. Len(file) /\ \A i \in 1 .. Len(file) : file[i] \in T
    BY <2>2
  <2>4. restored \in Nat
    BY <2>3 DEF RestoringInv
  <2> QED BY <2>1, <2>3, <2>4 DEF FileSound
<1>2. \A u \in IP!Usable : \E i \in 1 .. restored : alloc.allocated[file[i].key] = u
  <2> SUFFICES ASSUME NEW u \in IP!Usable
               PROVE  \E i \in 1 .. restored : alloc.allocated[file[i].key] = u
    OBVIOUS
  <2>1. u \in alloc.bitmap
    BY DEF IP!Free
  <2>2. PICK k \in Keys : alloc.allocated[k] = u /\ u # NoIP
    BY <2>1 DEF AllocUsable, AllocSound
  <2>3. k \in IP!AllocatedKeys(alloc)
    BY <2>2 DEF IP!AllocatedKeys, IP!Has, NoIP
  <2>4. k \in {file[i].key : i \in 1 .. restored}
    BY <2>3 DEF RestoringInv
  <2> QED BY <2>2, <2>4
<1> DEFINE g == [i \in 1 .. Len(file) |->
                   CHOOSE j \in 1 .. restored : alloc.allocated[file[j].key] = file[i].ip]
<1>3. \A i \in 1 .. Len(file) :
        g[i] \in 1 .. restored /\ alloc.allocated[file[g[i]].key] = file[i].ip
  BY <1>1, <1>2
<1>4. g \in [1 .. Len(file) -> 1 .. restored]
  BY <1>3
<1> HIDE DEF g
<1>5. g \in Injection(1 .. Len(file), 1 .. restored)
  <2>1. \A i, j \in 1 .. Len(file) : g[i] = g[j] => file[i].ip = file[j].ip
    BY <1>3
  <2>2. \A i, j \in 1 .. Len(file) : g[i] = g[j] => i = j
    BY <1>1, <2>1
  <2>3. DOMAIN g = 1 .. Len(file)
    BY <1>4
  <2> QED BY <1>4, <2>2, <2>3 DEF Injection, IsInjective
<1>6. /\ IsFiniteSet(1 .. restored)
      /\ Cardinality(1 .. restored) = restored /\ Cardinality(1 .. Len(file)) = Len(file)
  <2>1. \A m \in Nat : IsFiniteSet(1 .. m) /\ Cardinality(1 .. m) = m
    BY FS_Interval
  <2> QED BY <1>1, <2>1
<1>7. Len(file) =< restored
  BY <1>5, <1>6, FS_Injection
<1> QED BY <1>1, <1>7

-----------------------------------------------------------------------------
(* The steps, across restarts.                                             *)

\* What the steps of a serving agent do to the allocator: never drop the gateway.
AllocStep ==
  \/ alloc' = alloc
  \/ \E k \in Keys : alloc' = IP!AfterAllocate(alloc, k)
  \/ \E p \in Pods : alloc' = IP!AfterRelease(alloc, p)
  \/ \E active : Gateway \in active /\ alloc' = IP!AfterReconcile(alloc, active)

LEMMA AllocStepKeeps ==
  ASSUME AllocUsable(alloc), alloc.allocated[Gateway] # NoIP, AllocStep
  PROVE  AllocUsable(alloc') /\ alloc'.allocated[Gateway] # NoIP
<1>0. Gateway \in Keys /\ \A p \in Pods : p \in Keys /\ p # Gateway
  BY GatewayAssumption DEF Keys
<1>1. CASE alloc' = alloc
  BY <1>1
<1>2. ASSUME NEW k \in Keys, alloc' = IP!AfterAllocate(alloc, k)
      PROVE  AllocUsable(alloc') /\ alloc'.allocated[Gateway] # NoIP
  <2>1. /\ AllocUsable(alloc')
        /\ \A m \in Keys \ {k} : alloc'.allocated[m] = alloc.allocated[m]
        /\ alloc.allocated[k] # NoIP => alloc' = alloc
    BY <1>2, AllocateKeeps
  <2> QED BY <1>0, <2>1
<1>3. ASSUME NEW p \in Pods, alloc' = IP!AfterRelease(alloc, p)
      PROVE  AllocUsable(alloc') /\ alloc'.allocated[Gateway] # NoIP
  <2>1. AllocUsable(alloc') /\ \A m \in Keys \ {p} : alloc'.allocated[m] = alloc.allocated[m]
    BY <1>0, <1>3, ReleaseKeeps
  <2> QED BY <1>0, <2>1
<1>4. ASSUME NEW active, Gateway \in active, alloc' = IP!AfterReconcile(alloc, active)
      PROVE  AllocUsable(alloc') /\ alloc'.allocated[Gateway] # NoIP
  <2>1. AllocUsable(alloc') /\ \A m \in Keys : m \in active => alloc'.allocated[m] = alloc.allocated[m]
    BY <1>4, ReconcileKeeps
  <2> QED BY <1>0, <1>4, <2>1
<1> QED BY <1>1, <1>2, <1>3, <1>4 DEF AllocStep

\* Every step of a handler and of reconcile is one of these.
LEMMA HandlerSteps ==
  ASSUME NEW c \in Sandboxes, Serve(c) \/ GoOn(c)
  PROVE  Running /\ UNCHANGED <<life, file>> /\ AllocStep
<1>0. PodOf[c] \in Pods /\ PodOf[c] \in Keys
  BY SandboxAssumption DEF Keys
<1>1. CASE AddAllocate(c)
  BY <1>0, <1>1 DEF AddAllocate, AllocStep
<1>2. CASE DelUnknown(c) \/ DelRelease(c)
  BY <1>0, <1>2 DEF DelUnknown, DelRelease, AllocStep
<1>a. CASE DelTeardown(c)
  BY <1>a DEF DelTeardown, AllocStep
<1>3. CASE AddCreateVeth(c) \/ AddMoveToNetns(c) \/ AddConfigure(c) \/ AddProgram(c)
  BY <1>3 DEF AddCreateVeth, AddMoveToNetns, AddConfigure, AddProgram, AllocStep, process
<1>4. CASE AddNetnsFails(c) \/ AddProgramFails(c)
  <2>1. /\ Running /\ UNCHANGED <<life, file>>
        /\ alloc' = IP!AfterRelease(alloc, PodOf[c])
    BY <1>4 DEF AddNetnsFails, AddProgramFails, Rollback
  <2> QED BY <1>0, <2>1 DEF AllocStep
<1> QED BY <1>1, <1>2, <1>a, <1>3, <1>4 DEF Serve, GoOn

LEMMA ServingInv ==
  ASSUME RestartInv, Running, Running', AllocStep,
         agent' # "restoring", restored' = restored, Save \/ file' = file
  PROVE  RestartInv'
<1>1. AllocUsable(alloc') /\ alloc'.allocated[Gateway] # NoIP
  BY AllocStepKeeps DEF RestartInv
<1>2. FileSound(file')
  BY SaveSound DEF RestartInv
<1>3. restored' = 0
  BY DEF RestartInv, Running
<1> QED BY <1>1, <1>2, <1>3 DEF RestartInv, RestoringInv, Running

LEMMA RestoreRecordInv ==
  ASSUME RestartInv, RestoreRecord
  PROVE  RestartInv' /\ agent' = "restoring"
<1> DEFINE k == file[restored + 1].key
           n == restored + 1
<1>1. /\ AllocUsable(alloc) /\ FileSound(file) /\ RestoringInv
      /\ agent = "restoring" /\ restored < Len(file) /\ file' = file
  BY DEF RestartInv, RestoreRecord
<1>2. /\ restored \in Nat /\ Len(file) \in Nat /\ DOMAIN file = 1 .. Len(file)
      /\ \A i \in 1 .. Len(file) : file[i].key \in Keys
  <2> DEFINE T == [key : Keys, ip : IP!Usable]
  <2>1. \A t \in T : t.key \in Keys
    OBVIOUS
  <2>2. file \in Seq(T)
    BY <1>1 DEF FileSound
  <2> HIDE DEF T
  <2>3. Len(file) \in Nat /\ DOMAIN file = 1 .. Len(file) /\ \A i \in 1 .. Len(file) : file[i] \in T
    BY <2>2
  <2>4. restored \in Nat
    BY <1>1, <2>3 DEF RestoringInv
  <2> QED BY <2>1, <2>3, <2>4
<1>3. restored + 1 \in 1 .. Len(file) /\ k \in Keys
  BY <1>1, <1>2
<1>4. \A i \in 1 .. restored : file[i].key # k /\ i \in 1 .. Len(file)
  <2>1. \A i \in 1 .. restored : i \in 1 .. Len(file) /\ i # restored + 1
    BY <1>1, <1>2
  <2> QED BY <1>1, <1>2, <1>3, <2>1 DEF FileSound
<1>5. IP!AllocatedKeys(alloc) = {file[i].key : i \in 1 .. restored}
  BY <1>1 DEF RestoringInv
<1> HIDE DEF k
<1>6. alloc.allocated[k] = NoIP
  BY <1>3, <1>4, <1>5 DEF IP!AllocatedKeys, IP!Has, NoIP
<1>7. IP!Free(alloc) # {} /\ IP!Free(alloc) \in SUBSET Nat
  <2>1. IP!Free(alloc) \in SUBSET Nat
    BY Constants, BlockSizeAssumption DEF IP!Free
  <2> QED BY <1>1, <2>1, RestoreNeverFull
<1>8. IP!AllocateIP(alloc, k) = IP!Min(IP!Free(alloc))
  BY <1>6, <1>7 DEF IP!AllocateIP, IP!Has, NoIP
\* The records done have the addresses 1 .. restored, so that n is the least left.
<1>9. IP!AllocateIP(alloc, k) = n
  <2>1. \A x : x \in alloc.bitmap <=> x \in 1 .. restored
    <3>1. \A x : x \in alloc.bitmap <=> \E m \in IP!AllocatedKeys(alloc) : x = alloc.allocated[m]
      BY <1>1 DEF AllocUsable, AllocSound, IP!AllocatedKeys, IP!Has, NoIP
    <3>2. \A i \in 1 .. restored : alloc.allocated[file[i].key] = i
      BY <1>1 DEF RestoringInv
    <3> QED BY <1>5, <3>1, <3>2
  <2>2. \A x : x \in IP!Free(alloc) <=> x \in IP!Usable /\ x \notin 1 .. restored
    BY <2>1 DEF IP!Free
  <2>3. \A x \in IP!Free(alloc) : n =< x
    BY <1>2, <2>2, Constants, BlockSizeAssumption
  <2>4. n \in IP!Free(alloc)
    <3>1. PICK x : x \in IP!Free(alloc)
      BY <1>7
    <3>2. n \in IP!Usable
      BY <1>2, <2>2, <2>3, <3>1, Constants, BlockSizeAssumption
    <3> QED BY <1>2, <2>2, <3>2
  <2>5. IP!Min(IP!Free(alloc)) \in IP!Free(alloc) /\ \A x \in IP!Free(alloc) : IP!Min(IP!Free(alloc)) =< x
    BY <1>7, MinIsLeast
  <2> QED BY <1>2, <1>7, <1>8, <2>3, <2>4, <2>5
<1>10. n # NoIP
  BY <1>2, Constants
<1>11. /\ agent' = "restoring" /\ restored' = n
       /\ alloc' = IP!AfterAllocate(alloc, k)
  BY <1>1, <1>9, <1>10 DEF RestoreRecord, k
<1>12. alloc'.allocated = [alloc.allocated EXCEPT ![k] = n] /\ AllocUsable(alloc')
  <2>1. AllocSound(alloc)
    BY <1>1 DEF AllocUsable
  <2> QED BY <1>1, <1>3, <1>6, <1>9, <1>10, <1>11, <2>1, AllocateFacts, AllocateKeeps
<1>13. /\ alloc'.allocated[k] = n
       /\ \A m \in Keys \ {k} : alloc'.allocated[m] = alloc.allocated[m]
  BY <1>1, <1>3, <1>12 DEF AllocUsable, AllocSound
<1>14. IP!AllocatedKeys(alloc)' = IP!AllocatedKeys(alloc) \cup {k}
  BY <1>3, <1>10, <1>13 DEF IP!AllocatedKeys, IP!Has, NoIP
<1>15. 1 .. n = (1 .. restored) \cup {n} /\ n \in 0 .. Len(file)
  BY <1>1, <1>2
<1>16. {file[i].key : i \in 1 .. n} = {file[i].key : i \in 1 .. restored} \cup {k}
  BY <1>15 DEF k
<1>17. \A i \in 1 .. n : alloc'.allocated[file[i].key] = i
  <2>1. ASSUME NEW i \in 1 .. restored PROVE alloc'.allocated[file[i].key] = i
    <3>1. file[i].key \in Keys \ {k} /\ alloc.allocated[file[i].key] = i
      BY <1>1, <1>2, <1>4 DEF RestoringInv
    <3> QED BY <1>13, <3>1
  <2>2. alloc'.allocated[file[n].key] = n
    BY <1>13 DEF k
  <2> QED BY <1>15, <2>1, <2>2
<1> HIDE DEF n
<1>18. RestoringInv'
  <2>1. IP!AllocatedKeys(alloc)' = {file'[i].key : i \in 1 .. restored'}
    BY <1>1, <1>5, <1>11, <1>14, <1>16
  <2>2. \A i \in 1 .. restored' : alloc'.allocated[file'[i].key] = i
    BY <1>1, <1>11, <1>17
  <2> QED BY <1>1, <1>11, <1>15, <2>1, <2>2 DEF RestoringInv
<1> QED BY <1>1, <1>11, <1>12, <1>18 DEF RestartInv, Running

\* An allocator without records has an address for the gateway.
LEMMA GatewayFits ==
  ASSUME AllocUsable(alloc), \A k \in Keys : alloc.allocated[k] = NoIP
  PROVE  IP!AllocateIP(alloc, Gateway) # NoIP
<1>1. alloc.bitmap = {}
  BY DEF AllocUsable, AllocSound
<1>2. GatewayIP \in IP!Free(alloc)
  BY <1>1, Constants DEF IP!Free
<1>3. IP!Free(alloc) \in SUBSET Nat
  BY Constants, BlockSizeAssumption DEF IP!Free
<1>4. IP!AllocateIP(alloc, Gateway) = IP!Min(IP!Free(alloc))
  BY <1>2 DEF IP!AllocateIP, IP!Has, NoIP, Keys
<1>5. IP!AllocateIP(alloc, Gateway) \in Nat
  BY <1>2, <1>3, <1>4, MinIsLeast
<1> QED BY <1>5, Constants

\* With the last record done, the gateway is among the records; without a file
\* that could be read, it gets the first address.
LEMMA StartAgentInv ==
  ASSUME RestartInv, StartAgent
  PROVE  /\ RestartInv'
         /\ agent = "restoring" => \A i \in DOMAIN file : alloc'.allocated[file[i].key] = i
<1>1. /\ AllocUsable(alloc) /\ FileSound(file)
      /\ agent' = "up" /\ restored' = 0 /\ file' = file
      /\ alloc' = IP!AfterAllocate(alloc, Gateway)
  BY DEF RestartInv, StartAgent
<1>2. Gateway \in Keys /\ DOMAIN file = 1 .. Len(file)
  BY <1>1 DEF Keys, FileSound
<1>3. /\ AllocUsable(alloc')
      /\ alloc.allocated[Gateway] # NoIP => alloc' = alloc
      /\ IP!AllocateIP(alloc, Gateway) # NoIP => alloc'.allocated[Gateway] # NoIP
  BY <1>1, <1>2, AllocateKeeps
<1>4. /\ alloc'.allocated[Gateway] # NoIP
      /\ agent = "restoring" => \A i \in DOMAIN file : alloc'.allocated[file[i].key] = i
  <2>1. CASE agent = "starting"
    <3>1. \A k \in Keys : alloc.allocated[k] = NoIP
      BY <2>1 DEF RestartInv
    <3> QED BY <1>1, <1>3, <2>1, <3>1, GatewayFits
  <2>2. CASE agent = "restoring"
    <3>1. /\ IP!AllocatedKeys(alloc) = {file[i].key : i \in DOMAIN file}
          /\ \A i \in DOMAIN file : alloc.allocated[file[i].key] = i
      BY <1>2, <2>2 DEF RestartInv, RestoringInv, StartAgent
    <3>2. CASE file = <<>>
      <4>1. DOMAIN file = {}
        BY <3>2
      <4>2. \A k \in Keys : alloc.allocated[k] = NoIP
        BY <3>1, <4>1 DEF IP!AllocatedKeys, IP!Has, NoIP
      <4> QED BY <1>1, <1>3, <4>1, <4>2, GatewayFits
    <3>3. CASE file # <<>>
      <4>1. Gateway \in IP!AllocatedKeys(alloc)
        BY <1>1, <3>1, <3>3 DEF FileSound
      <4>2. alloc.allocated[Gateway] # NoIP
        BY <4>1 DEF IP!AllocatedKeys, IP!Has, NoIP
      <4> QED BY <1>3, <3>1, <4>2
    <3> QED BY <3>2, <3>3
  <2> QED BY <2>1, <2>2 DEF StartAgent
<1> QED BY <1>1, <1>3, <1>4 DEF RestartInv, RestoringInv

LEMMA NewAllocatorUsable ==
  AllocUsable(IP!NewNodeAllocator) /\ \A k \in Keys : IP!NewNodeAllocator.allocated[k] = NoIP
<1> DEFINE a == IP!NewNodeAllocator
<1>1. a.bitmap = {} /\ a.allocated = [k \in Keys |-> NoIP]
  BY DEF IP!NewNodeAllocator, NoIP
<1>2. a \in [bitmap : SUBSET IP!Offsets, allocated : [Keys -> IP!Offsets \cup {NoIP}]]
  BY DEF IP!NewNodeAllocator, NoIP
<1> HIDE DEF a
<1>3. \A k \in Keys : a.allocated[k] = NoIP
  BY <1>1
<1> QED BY <1>1, <1>2, <1>3 DEF AllocUsable, AllocSound, a

LEMMA RestartInit == Init => RestartInv
<1> SUFFICES ASSUME Init PROVE RestartInv
  OBVIOUS
<1> DEFINE a == IP!NewNodeAllocator
<1>1. /\ agent = "up" /\ restored = 0 /\ file = <<>>
      /\ alloc = IP!AfterAllocate(a, Gateway)
  BY DEF Init
<1>2. Gateway \in Keys
  BY DEF Keys
<1>3. AllocUsable(a) /\ a.allocated[Gateway] = NoIP
  BY <1>2, NewAllocatorUsable
<1>4. IP!AllocateIP(a, Gateway) # NoIP
  <2>1. IP!Free(a) = IP!Usable
    BY DEF IP!Free, IP!NewNodeAllocator
  <2>2. IP!Usable \in SUBSET Nat /\ IP!Usable # {}
    <3>1. GatewayIP \in IP!Usable
      BY Constants
    <3>2. IP!Usable = 1 .. (BlockSize - 2)
      BY Constants
    <3>3. IP!Usable \in SUBSET Nat
      BY <3>2, BlockSizeAssumption
    <3> QED BY <3>1, <3>3
  <2>3. IP!AllocateIP(a, Gateway) = IP!Min(IP!Usable)
    BY <1>3, <2>1, <2>2 DEF IP!AllocateIP, IP!Has, NoIP
  <2>4. IP!AllocateIP(a, Gateway) \in Nat
    BY <2>2, <2>3, MinIsLeast
  <2> QED BY <2>4, Constants
<1>5. AllocUsable(alloc) /\ alloc.allocated[Gateway] # NoIP
  BY <1>1, <1>2, <1>3, <1>4, AllocateKeeps
<1>6. FileSound(<<>>)
  BY DEF FileSound
<1> QED BY <1>1, <1>5, <1>6 DEF RestartInv, RestoringInv

LEMMA RestartNext == RestartInv /\ [Next]_vars => RestartInv'
<1> SUFFICES ASSUME RestartInv, [Next]_vars PROVE RestartInv'
  OBVIOUS
<1>1. ASSUME NEW c \in Sandboxes, Serve(c) \/ GoOn(c) PROVE RestartInv'
  <2>1. Running /\ UNCHANGED <<life, file>> /\ AllocStep
    BY <1>1, HandlerSteps
  <2>2. Running' /\ agent' # "restoring" /\ restored' = restored
    BY <2>1 DEF life, Running
  <2> QED BY <2>1, <2>2, ServingInv
<1>2. CASE ReconcileSweep
  <2>1. /\ Running /\ UNCHANGED <<life, file>>
        /\ alloc' = IP!AfterReconcile(alloc, ActivePods) /\ Gateway \in ActivePods
    BY <1>2 DEF ReconcileSweep, ActivePods
  <2>2. AllocStep
    BY <2>1 DEF AllocStep
  <2>3. Running' /\ agent' # "restoring" /\ restored' = restored
    BY <2>1 DEF life, Running
  <2> QED BY <2>1, <2>2, <2>3, ServingInv
<1>3. CASE ReconcileSave
  <2>1. Running /\ UNCHANGED life /\ alloc' = alloc /\ Save
    BY <1>3 DEF ReconcileSave, process
  <2>2. Running' /\ agent' # "restoring" /\ restored' = restored
    BY <2>1 DEF life, Running
  <2> QED BY <2>1, <2>2, ServingInv DEF AllocStep
<1>4. CASE StopServer
  <2>1. Running /\ Running' /\ agent' # "restoring" /\ UNCHANGED <<restored, alloc, file>>
    BY <1>4 DEF StopServer, Running, process
  <2> QED BY <2>1, ServingInv DEF AllocStep
<1>5. CASE StopSave
  <2>1. Running /\ Running' /\ agent' # "restoring" /\ UNCHANGED <<restored, alloc>> /\ Save
    BY <1>5 DEF StopSave, Running, process
  <2> QED BY <2>1, ServingInv DEF AllocStep
<1>6. CASE StopExit \/ Kill
  <2>1. agent' = "down" /\ restored' = 0 /\ UNCHANGED <<alloc, file>>
    BY <1>6 DEF StopExit, Kill, ProcessEnds
  <2> QED BY <2>1 DEF RestartInv, RestoringInv, Running
<1>7. CASE LoadCheckpoint
  <2>1. /\ agent' = "restoring" /\ restored' = 0 /\ file' = file
        /\ alloc' = IP!NewNodeAllocator /\ FileSound(file)
    BY <1>7 DEF LoadCheckpoint, RestartInv
  <2>2. AllocUsable(alloc') /\ \A k \in Keys : alloc'.allocated[k] = NoIP
    BY <2>1, NewAllocatorUsable
  <2>3. IP!AllocatedKeys(alloc)' = {}
    BY <2>2 DEF IP!AllocatedKeys, IP!Has, NoIP
  <2>4. 0 \in 0 .. Len(file) /\ 1 .. 0 = {}
    BY <2>1 DEF FileSound
  <2> QED BY <2>1, <2>2, <2>3, <2>4 DEF RestartInv, RestoringInv, Running
<1>a. CASE LoadFails
  <2>1. /\ agent' = "starting" /\ restored' = 0 /\ file' = file
        /\ alloc' = IP!NewNodeAllocator /\ FileSound(file)
    BY <1>a DEF LoadFails, RestartInv
  <2> QED BY <2>1, NewAllocatorUsable DEF RestartInv, RestoringInv, Running
<1>8. CASE RestoreRecord
  BY <1>8, RestoreRecordInv
<1>9. CASE StartAgent
  BY <1>9, StartAgentInv
<1>10. CASE UNCHANGED <<life, alloc, file>>
  BY <1>10 DEF RestartInv, RestoringInv, Running, life
<1>11. ASSUME NEW c \in Sandboxes, SendAdd(c) \/ SendDel(c) \/ RemoveNetns(c)
       PROVE  UNCHANGED <<life, alloc, file>>
  BY <1>11 DEF SendAdd, SendDel, RemoveNetns, process
<1>12. CASE UNCHANGED vars
  BY <1>10, <1>12 DEF vars, process
<1> QED BY <1>1, <1>2, <1>3, <1>4, <1>5, <1>6, <1>7, <1>a, <1>8, <1>9, <1>10,
           <1>11, <1>12 DEF Next, ComeBack

-----------------------------------------------------------------------------
(* The theorems, for an agent that may be killed, stopped and restarted at *)
(* any step, any number of times, with every other fault.                  *)

\* Allocator and checkpoint stay sound, and while Restore runs the allocator
\* has exactly the records done.
THEOREM RestartInvariant == Spec => []RestartInv
<1> QED BY RestartInit, RestartNext, PTL DEF Spec

\* An address has one owner, and the bitmap is the record map's image, in every
\* state of every life of the agent, Restore included.
THEOREM AllocatorSurvivesRestarts == Spec => []AllocatorSound
<1>1. RestartInv => AllocatorSound
  <2> SUFFICES ASSUME AllocSound(alloc) PROVE AllocatorSound
    BY DEF RestartInv, AllocUsable
  <2>1. IP!AllocatedKeys(alloc) = {k \in Keys : alloc.allocated[k] # NoIP}
    BY DEF IP!AllocatedKeys, IP!Has, NoIP
  <2>2. IP!UniqueIPs
    BY <2>1 DEF IP!UniqueIPs, AllocSound
  <2>3. IP!BitmapMatchesRecords
    BY <2>1 DEF IP!BitmapMatchesRecords, AllocSound
  <2> QED BY <2>2, <2>3 DEF AllocatorSound
<1> QED BY <1>1, RestartInvariant, PTL

\* Whatever was running when it was written, the checkpoint names no pod and no
\* address twice, and the gateway once it names anything.
THEOREM CheckpointSurvivesRestarts == Spec => []CheckpointConsistent
<1>1. RestartInv => CheckpointConsistent
  BY DEF RestartInv, FileSound, CheckpointConsistent
<1> QED BY <1>1, RestartInvariant, PTL

\* A checkpoint that could be read is restored to its last record: Restore never
\* runs out of addresses, although it gives the i-th record's pod the i-th
\* address, whatever address the record has.
THEOREM RestoreIsComplete == Spec => RestoreKeepsEveryRecord
<1> DEFINE Kept == agent = "restoring" =>
                     /\ agent' # "starting"
                     /\ agent' = "up" => \A i \in DOMAIN file : alloc'.allocated[file[i].key] = i
<1>1. RestartInv /\ [Next]_vars => [Kept]_vars
  <2> SUFFICES ASSUME RestartInv, Next, agent = "restoring"
               PROVE  /\ agent' # "starting"
                      /\ agent' = "up" => \A i \in DOMAIN file : alloc'.allocated[file[i].key] = i
    OBVIOUS
  <2>1. ~Running
    BY DEF Running
  <2>2. ASSUME NEW c \in Sandboxes PROVE ~(Serve(c) \/ GoOn(c))
    BY <2>1, HandlerSteps
  <2>3. ASSUME NEW c \in Sandboxes, SendAdd(c) \/ SendDel(c) \/ RemoveNetns(c)
        PROVE  agent' = "restoring"
    BY <2>3 DEF SendAdd, SendDel, RemoveNetns, life
  <2>4. ~(ReconcileSweep \/ ReconcileSave \/ StopServer \/ StopSave \/ StopExit)
    BY <2>1 DEF ReconcileSweep, ReconcileSave, StopServer, StopSave, StopExit
  <2>5. Kill => agent' = "down"
    BY DEF Kill, ProcessEnds
  <2>6. ~(LoadCheckpoint \/ LoadFails)
    BY DEF LoadCheckpoint, LoadFails
  <2>7. RestoreRecord => agent' = "restoring"
    BY RestoreRecordInv
  <2>8. StartAgent => /\ agent' = "up"
                      /\ \A i \in DOMAIN file : alloc'.allocated[file[i].key] = i
    BY StartAgentInv DEF StartAgent
  <2> QED BY <2>2, <2>3, <2>4, <2>5, <2>6, <2>7, <2>8 DEF Next, ComeBack
<1> QED BY <1>1, RestartInvariant, PTL DEF Spec, RestoreKeepsEveryRecord
==============================================================================
