-------------------------- MODULE IdentityLifecycle --------------------------
(***************************************************************************)
(* The callers of IdentityAllocator: clients that take an identity for a   *)
(* label set and give it back (the node agent's ADD and DEL handlers); the *)
(* controller's policyCompilationLoop (cmd/controller/main.go), whose      *)
(* compiler takes an identity for a selector that matches no pod and never *)
(* gives it back (compiler.go); and its identityGCLoop, which takes a list *)
(* of *Identity under the read lock and then, with no lock held, reads each*)
(* RefCount and calls ReleaseIdentity.                                     *)
(***************************************************************************)
EXTENDS IdentityAllocator, FiniteSets

CONSTANTS Clients,     \* one reference each
          Nodes,       \* node names
          MaxNextID,   \* bound: no new ID is given out at nextID >= MaxNextID
          MaxTicks     \* bound on the compilations of one selector

ASSUME ClientsAssumption == IsFiniteSet(Clients)
\* nextID does not wrap within the bound.
ASSUME BoundsAssumption == MaxNextID \in 1 .. (IDSpace - 1) /\ MaxTicks \in Nat

VARIABLES ids,         \* the IdentityAllocator
          nodes,       \* nodes[i]: Identity.Nodes
          held,        \* held[c]: the ID client c holds, or NoID
          wants,       \* wants[c]: the labels c asked for
          ticks,       \* history: ticks[l]: compilations of selector l
          gcList,      \* IDs the collector still has to look at
          gcDoomed     \* the ID it found to have RefCount <= 0, or NoID

vars == <<ids, nodes, held, wants, ticks, gcList, gcDoomed>>

Init ==
  /\ ids = NewIdentityAllocator
  /\ nodes = [i \in IDs |-> {}]
  /\ held = [c \in Clients |-> NoID]
  /\ wants = [c \in Clients |-> NoLabels]
  /\ ticks = [l \in Labels |-> 0]
  /\ gcList = {}
  /\ gcDoomed = NoID

\* A new Identity starts with an empty Nodes map.
NodesAfterAllocate(l) ==
  IF ids.hashToID[l] = NoID THEN [nodes EXCEPT ![ids.nextID] = {}] ELSE nodes

AllocateIdentity(c, l) ==
  /\ held[c] = NoID
  /\ ids.hashToID[l] = NoID => ids.nextID < MaxNextID
  /\ ids' = AfterAllocateIdentity(ids, l)
  /\ held' = [held EXCEPT ![c] = AllocatedID(ids, l)]
  /\ wants' = [wants EXCEPT ![c] = l]
  /\ nodes' = NodesAfterAllocate(l)
  /\ UNCHANGED <<ticks, gcList, gcDoomed>>

\* policyCompilationLoop, one policy: no pod is in the controller's selector
\* cache, so resolveSelectorToIdentities allocates, at every tick.
CompilePolicy(l) ==
  /\ ticks[l] < MaxTicks
  /\ ids.hashToID[l] = NoID => ids.nextID < MaxNextID
  /\ ids' = AfterAllocateIdentity(ids, l)
  /\ nodes' = NodesAfterAllocate(l)
  /\ ticks' = [ticks EXCEPT ![l] = @ + 1]
  /\ UNCHANGED <<held, wants, gcList, gcDoomed>>

ReleaseIdentity(c) ==
  /\ held[c] # NoID
  /\ ids' = AfterReleaseIdentity(ids, held[c])
  /\ held' = [held EXCEPT ![c] = NoID]
  /\ wants' = [wants EXCEPT ![c] = NoLabels]
  /\ UNCHANGED <<nodes, ticks, gcList, gcDoomed>>

AddNodeReference(c, n) ==
  /\ held[c] \in ids.live
  /\ nodes' = [nodes EXCEPT ![held[c]] = @ \cup {n}]
  /\ UNCHANGED <<ids, held, wants, ticks, gcList, gcDoomed>>

RemoveNodeReference(c, n) ==
  /\ held[c] \in ids.live
  /\ nodes' = [nodes EXCEPT ![held[c]] = @ \ {n}]
  /\ UNCHANGED <<ids, held, wants, ticks, gcList, gcDoomed>>

\* GetIdentitiesForNode for one node of the collector's sweep.
GCList(n) ==
  /\ gcList = {} /\ gcDoomed = NoID
  /\ gcList' = {i \in ids.live : n \in nodes[i]}
  /\ UNCHANGED <<ids, nodes, held, wants, ticks, gcDoomed>>

\* Bug: an identity with one reference left counts as garbage.
GCRead_OffByOne(i) ==
  /\ i \in gcList /\ gcDoomed = NoID
  /\ gcList' = gcList \ {i}
  /\ gcDoomed' = IF ids.refCount[i] <= 1 THEN i ELSE NoID
  /\ UNCHANGED <<ids, nodes, held, wants, ticks>>

\* id.RefCount <= 0, read through the pointer without the mutex.
GCRead(i) ==
  /\ i \in gcList /\ gcDoomed = NoID
  /\ gcList' = gcList \ {i}
  /\ gcDoomed' = IF ids.refCount[i] <= 0 THEN i ELSE NoID
  /\ UNCHANGED <<ids, nodes, held, wants, ticks>>

\* ReleaseIdentity(id.ID), some time after the read.
GCRelease ==
  /\ gcDoomed # NoID
  /\ ids' = AfterReleaseIdentity(ids, gcDoomed)
  /\ gcDoomed' = NoID
  /\ UNCHANGED <<nodes, held, wants, ticks, gcList>>

Next ==
  \/ \E c \in Clients, l \in Labels : AllocateIdentity(c, l)
  \/ \E c \in Clients : ReleaseIdentity(c)
  \/ \E l \in Labels : CompilePolicy(l)
  \/ \E c \in Clients, n \in Nodes : AddNodeReference(c, n)
  \/ \E c \in Clients, n \in Nodes : RemoveNodeReference(c, n)
  \/ \E n \in Nodes : GCList(n)
  \/ \E i \in IDs : GCRead(i)
  \/ GCRelease

Spec == Init /\ [][Next]_vars

-----------------------------------------------------------------------------
(* Properties.                                                             *)

\* Types of the allocator's maps and of its callers' local variables.
TypeOK ==
  /\ ids \in IdentityType
  /\ nodes \in [IDs -> SUBSET Nodes]
  /\ held \in [Clients -> IDs \cup {NoID}]
  /\ wants \in [Clients -> Labels \cup {NoLabels}]
  /\ ticks \in [Labels -> 0 .. MaxTicks]
  /\ gcList \in SUBSET IDs
  /\ gcDoomed \in IDs \cup {NoID}

\* A client that holds an identity finds it under its own labels: it is in the
\* map, indexed by the hash of the labels the client asked for.  No release by
\* anybody else, and no garbage collection, takes it away.
HeldIdentityIsLive ==
  \A c \in Clients : held[c] # NoID =>
    /\ held[c] \in ids.live
    /\ ids.labels[held[c]] = wants[c]
    /\ ids.hashToID[wants[c]] = held[c]

\* RefCount of a live identity is the number of clients that hold it and of
\* compilations that asked for it, so the last release, and no earlier one,
\* deletes it, and the identity of a compiled selector is never deleted.
RefCountIsExact ==
  /\ \A i \in ids.live :
       ids.refCount[i] = Cardinality({c \in Clients : held[c] = i}) + ticks[ids.labels[i]]
  /\ \A l \in Labels : ticks[l] > 0 => ids.hashToID[l] \in ids.live

\* What the collector found dead is dead: when it finally calls
\* ReleaseIdentity nobody can have brought the identity back.
DoomedStaysDead == gcDoomed # NoID => gcDoomed \notin ids.live

\* An ID is never given to a second label set, not even after its first owner
\* is gone: entries of the policy map may still name it.
IDNeverRelabelled ==
  [][\A i \in IDs : ids.labels[i] # NoLabels => ids'.labels[i] = ids.labels[i]]_vars
=============================================================================
