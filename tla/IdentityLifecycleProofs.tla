----------------------- MODULE IdentityLifecycleProofs -----------------------
(***************************************************************************)
(* Proofs about IdentityLifecycle for every finite set of clients, every   *)
(* set of label sets and every number of IDs, as long as nextID does not   *)
(* wrap (BoundsAssumption).  A held identity stays live only because the   *)
(* reference count is exact (otherwise a release by one holder could delete*)
(* what another holds), the count is exact only because a new ID has no    *)
(* holder yet, and that needs IDs at and above nextID to be unused.  The   *)
(* collector is safe for the same last reason: what it has put on its list *)
(* is below nextID, so an ID it found dead is never given out again.       *)
(***************************************************************************)
EXTENDS IdentityLifecycle, FiniteSetTheorems, TLAPS

\* The clients that hold ID i.
Holders(i) == {c \in Clients : held[c] = i}

\* identities and hashToID index each other, nothing live has a count of 0,
\* and no ID at or above nextID has ever been given out.
IndexInv ==
  /\ \A i \in ids.live : /\ ids.labels[i] \in Labels
                         /\ ids.hashToID[ids.labels[i]] = i
                         /\ ids.refCount[i] >= 1
  /\ \A l \in Labels : ids.hashToID[l] # NoID =>
       /\ ids.hashToID[l] \in ids.live
       /\ ids.labels[ids.hashToID[l]] = l
  /\ ids.nextID \in 1 .. MaxNextID
  /\ \A i \in IDs : i >= ids.nextID => ids.labels[i] = NoLabels

\* What the collector remembers was given out once.
CollectorInv ==
  /\ \A i \in gcList : ids.labels[i] # NoLabels
  /\ gcDoomed # NoID => ids.labels[gcDoomed] # NoLabels

\* The inductive invariant.
Inv ==
  /\ TypeOK
  /\ IndexInv
  /\ HeldIdentityIsLive
  /\ RefCountIsExact
  /\ CollectorInv
  /\ DoomedStaysDead

-----------------------------------------------------------------------------
(* What the allocator's operations do to each field.                       *)

LEMMA Bounds ==
  /\ MaxNextID \in Nat /\ 1 =< MaxNextID /\ MaxNextID < IDSpace
  /\ IDSpace \in Nat
  /\ NoID \notin IDs
  /\ \A n \in 1 .. MaxNextID : n \in IDs
  BY IDSpaceAssumption, BoundsAssumption DEF NoID, IDs

\* AllocateIdentity of a label set that has no identity.
LEMMA AllocateFresh ==
  ASSUME NEW a \in IdentityType, NEW l \in Labels, a.hashToID[l] = NoID,
         a.nextID \in 1 .. MaxNextID, a.nextID < MaxNextID
  PROVE  LET b == AfterAllocateIdentity(a, l)
         IN  /\ b \in IdentityType
             /\ b.live = a.live \cup {a.nextID}
             /\ b.refCount = [a.refCount EXCEPT ![a.nextID] = 1]
             /\ b.labels = [a.labels EXCEPT ![a.nextID] = l]
             /\ b.hashToID = [a.hashToID EXCEPT ![l] = a.nextID]
             /\ b.nextID = a.nextID + 1
<1>1. /\ (a.nextID + 1) % IDSpace = a.nextID + 1
      /\ a.nextID + 1 \in IDs
  BY Bounds DEF IDs
<1> QED BY <1>1, Bounds DEF AfterAllocateIdentity, IdentityType

\* AllocateIdentity of a label set that has one.
LEMMA AllocateShared ==
  ASSUME NEW a \in IdentityType, NEW l \in Labels, a.hashToID[l] # NoID
  PROVE  LET b == AfterAllocateIdentity(a, l)
             i == a.hashToID[l]
         IN  /\ b \in IdentityType
             /\ i \in IDs
             /\ b.live = a.live
             /\ b.refCount = [a.refCount EXCEPT ![i] = a.refCount[i] + 1]
             /\ b.labels = a.labels
             /\ b.hashToID = a.hashToID
             /\ b.nextID = a.nextID
  BY DEF AfterAllocateIdentity, IdentityType

\* ReleaseIdentity of a live identity.
LEMMA ReleaseLive ==
  ASSUME NEW a \in IdentityType, NEW i \in a.live, a.labels[i] \in Labels,
         a.refCount[i] >= 1
  PROVE  LET b == AfterReleaseIdentity(a, i)
         IN  /\ b \in IdentityType
             /\ b.refCount = [a.refCount EXCEPT ![i] = a.refCount[i] - 1]
             /\ b.labels = a.labels
             /\ b.nextID = a.nextID
             /\ a.refCount[i] > 1 => b.live = a.live /\ b.hashToID = a.hashToID
             /\ a.refCount[i] = 1 =>
                  /\ b.live = a.live \ {i}
                  /\ b.hashToID = [a.hashToID EXCEPT ![a.labels[i]] = NoID]
<1>1. i \in IDs /\ a.refCount[i] \in Nat
  BY DEF IdentityType
<1>2. CASE a.refCount[i] > 1
  <2>1. ~(a.refCount[i] - 1 <= 0) /\ a.refCount[i] - 1 \in Nat
    BY <1>1, <1>2
  <2>2. AfterReleaseIdentity(a, i)
          = [a EXCEPT !.refCount = [a.refCount EXCEPT ![i] = a.refCount[i] - 1]]
    BY <1>1, <2>1 DEF AfterReleaseIdentity, IdentityType
  <2> QED BY <1>1, <1>2, <2>1, <2>2 DEF IdentityType
<1>3. CASE a.refCount[i] = 1
  <2>1. a.refCount[i] - 1 <= 0 /\ a.refCount[i] - 1 \in Nat
    BY <1>3
  <2>2. AfterReleaseIdentity(a, i) =
          [live     |-> a.live \ {i},
           refCount |-> [a.refCount EXCEPT ![i] = a.refCount[i] - 1],
           labels   |-> a.labels,
           hashToID |-> [a.hashToID EXCEPT ![a.labels[i]] = NoID],
           nextID   |-> a.nextID]
    BY <1>1, <2>1 DEF AfterReleaseIdentity, IdentityType
  <2> QED BY <1>1, <1>3, <2>1, <2>2 DEF IdentityType
<1> QED BY <1>1, <1>2, <1>3

\* The number of holders of an ID is a natural number; one more client adds
\* one to it, one less takes one away.
LEMMA HoldersCount ==
  ASSUME NEW i
  PROVE  /\ IsFiniteSet(Holders(i))
         /\ Cardinality(Holders(i)) \in Nat
         /\ Cardinality(Holders(i)) = 0 <=> Holders(i) = {}
         /\ \A c : Cardinality(Holders(i) \cup {c})
                     = IF c \in Holders(i) THEN Cardinality(Holders(i))
                                           ELSE Cardinality(Holders(i)) + 1
         /\ \A c : Cardinality(Holders(i) \ {c})
                     = IF c \in Holders(i) THEN Cardinality(Holders(i)) - 1
                                           ELSE Cardinality(Holders(i))
<1>1. Holders(i) \in SUBSET Clients
  BY DEF Holders
<1>2. IsFiniteSet(Holders(i))
  BY <1>1, ClientsAssumption, FS_Subset
<1> QED BY <1>2, FS_CardinalityType, FS_EmptySet, FS_AddElement, FS_RemoveElement

-----------------------------------------------------------------------------
(* Inv is inductive: one lemma per action.                                 *)

LEMMA InitInv == Init => Inv
<1> SUFFICES ASSUME Init PROVE Inv
  OBVIOUS
<1>1. ids \in IdentityType
  BY Bounds DEF Init, NewIdentityAllocator, IdentityType, IDs
<1>2. /\ ids.live = {} /\ ids.nextID = 1
      /\ \A l \in Labels : ids.hashToID[l] = NoID
      /\ \A j \in IDs : ids.labels[j] = NoLabels
  BY DEF Init, NewIdentityAllocator
<1>3. TypeOK
  BY <1>1, BoundsAssumption DEF Init, TypeOK
<1>4. IndexInv
  BY <1>2, Bounds DEF IndexInv
<1>5. HeldIdentityIsLive /\ CollectorInv /\ DoomedStaysDead
  BY DEF Init, HeldIdentityIsLive, CollectorInv, DoomedStaysDead
<1>6. RefCountIsExact
  BY <1>2 DEF Init, RefCountIsExact
<1> QED BY <1>3, <1>4, <1>5, <1>6 DEF Inv

\* What the two callers of the allocator's AllocateIdentity share.
LEMMA AllocateEffect ==
  ASSUME Inv, NEW l \in Labels,
         ids.hashToID[l] = NoID => ids.nextID < MaxNextID,
         ids' = AfterAllocateIdentity(ids, l)
  PROVE  LET i == AllocatedID(ids, l)
         IN  /\ ids' \in IdentityType
             /\ IndexInv'
             /\ i \in IDs
             /\ ids'.live = ids.live \cup {i}
             /\ ids'.labels[i] = l
             /\ ids'.hashToID = [ids.hashToID EXCEPT ![l] = i]
             /\ ids'.refCount[i] = Cardinality(Holders(i)) + ticks[l] + 1
             /\ \A j \in ids.live \ {i} : ids'.refCount[j] = ids.refCount[j]
             /\ \A j \in IDs : ids.labels[j] # NoLabels => ids'.labels[j] = ids.labels[j]
             /\ ids.labels[i] # NoLabels => i \in ids.live
<1> DEFINE i == AllocatedID(ids, l)
<1>0. ids \in IdentityType /\ ids.nextID \in 1 .. MaxNextID
  BY DEF Inv, TypeOK, IndexInv
<1>1. CASE ids.hashToID[l] = NoID
  <2>1. i = ids.nextID /\ i \in IDs
    BY <1>0, <1>1, Bounds DEF AllocatedID
  <2>2. /\ ids' \in IdentityType
        /\ ids'.live = ids.live \cup {i}
        /\ ids'.refCount = [ids.refCount EXCEPT ![i] = 1]
        /\ ids'.labels = [ids.labels EXCEPT ![i] = l]
        /\ ids'.hashToID = [ids.hashToID EXCEPT ![l] = i]
        /\ ids'.nextID = i + 1
    BY <1>0, <1>1, <2>1, AllocateFresh
  <2> HIDE DEF i
  <2>3. ids.labels[i] = NoLabels /\ i \notin ids.live
    BY <2>1, NoLabelsAssumption, Bounds DEF Inv, IndexInv, IDs
  <2>4. Holders(i) = {} /\ ticks[l] = 0
    <3>1. Holders(i) = {}
      BY <2>1, <2>3, Bounds DEF Holders, Inv, HeldIdentityIsLive
    <3>2. ids.hashToID[l] \notin ids.live
      BY <1>0, <1>1, Bounds DEF IdentityType
    <3> QED BY <3>1, <3>2, BoundsAssumption DEF Inv, RefCountIsExact, TypeOK
  <2>5. /\ ids'.labels[i] = l /\ ids'.refCount[i] = 1
        /\ ids'.hashToID[l] = i
        /\ \A j \in IDs \ {i} : /\ ids'.labels[j] = ids.labels[j]
                                /\ ids'.refCount[j] = ids.refCount[j]
        /\ \A m \in Labels \ {l} : ids'.hashToID[m] = ids.hashToID[m]
    BY <1>0, <2>1, <2>2 DEF IdentityType
  <2>6. ids.live \subseteq IDs
    BY <1>0 DEF IdentityType
  <2>7. IndexInv'
    <3>1. \A j \in ids'.live : /\ ids'.labels[j] \in Labels
                               /\ ids'.hashToID[ids'.labels[j]] = j
                               /\ ids'.refCount[j] >= 1
      <4> TAKE j \in ids'.live
      <4>1. CASE j = i
        BY <4>1, <2>5
      <4>2. CASE j # i
        BY <4>2, <2>2, <2>5, <2>6, <1>1, Bounds DEF Inv, IndexInv
      <4> QED BY <4>1, <4>2
    <3>2. \A m \in Labels : ids'.hashToID[m] # NoID =>
            ids'.hashToID[m] \in ids'.live /\ ids'.labels[ids'.hashToID[m]] = m
      <4> SUFFICES ASSUME NEW m \in Labels, ids'.hashToID[m] # NoID
                   PROVE  /\ ids'.hashToID[m] \in ids'.live
                          /\ ids'.labels[ids'.hashToID[m]] = m
        OBVIOUS
      <4>1. CASE m = l
        BY <4>1, <2>2, <2>5
      <4>2. CASE m # l
        <5>1. ids'.hashToID[m] = ids.hashToID[m]
          BY <4>2, <2>5
        <5>2. /\ ids.hashToID[m] \in ids.live
              /\ ids.labels[ids.hashToID[m]] = m
          BY <5>1 DEF Inv, IndexInv
        <5>3. ids.hashToID[m] \in IDs \ {i}
          BY <5>2, <2>3, <2>6
        <5> QED BY <5>1, <5>2, <5>3, <2>2, <2>5
      <4> QED BY <4>1, <4>2
    <3>3. ids'.nextID \in 1 .. MaxNextID
      BY <1>0, <1>1, <2>1, <2>2, Bounds
    <3>4. \A j \in IDs : j >= ids'.nextID => ids'.labels[j] = NoLabels
      BY <2>1, <2>2, <2>5, Bounds DEF Inv, IndexInv, IDs
    <3> QED BY <3>1, <3>2, <3>3, <3>4 DEF IndexInv
  <2>8. Cardinality(Holders(i)) = 0
    BY <2>4, FS_EmptySet
  <2> QED BY <2>1, <2>2, <2>3, <2>4, <2>5, <2>6, <2>7, <2>8 DEF i
<1>2. CASE ids.hashToID[l] # NoID
  <2>1. i = ids.hashToID[l]
    BY <1>2 DEF AllocatedID
  <2>2. /\ ids' \in IdentityType
        /\ i \in IDs
        /\ ids'.live = ids.live
        /\ ids'.refCount = [ids.refCount EXCEPT ![i] = ids.refCount[i] + 1]
        /\ ids'.labels = ids.labels
        /\ ids'.hashToID = ids.hashToID
        /\ ids'.nextID = ids.nextID
    BY <1>0, <1>2, <2>1, AllocateShared
  <2> HIDE DEF i
  <2>3. i \in ids.live /\ ids.labels[i] = l
    BY <1>2, <2>1 DEF Inv, IndexInv
  <2>4. ids.refCount[i] = Cardinality(Holders(i)) + ticks[l]
    BY <2>3 DEF Inv, RefCountIsExact, Holders
  <2>5. /\ ids'.refCount[i] = ids.refCount[i] + 1
        /\ \A j \in IDs \ {i} : ids'.refCount[j] = ids.refCount[j]
        /\ ids'.hashToID = [ids.hashToID EXCEPT ![l] = i]
        /\ ids.live \subseteq IDs
        /\ \A j \in IDs : ids.refCount[j] \in Nat
    BY <1>0, <2>1, <2>2 DEF IdentityType
  <2>6. IndexInv'
    <3>1. \A j \in ids'.live : ids'.refCount[j] >= 1
      BY <2>2, <2>5 DEF Inv, IndexInv
    <3> QED BY <2>2, <3>1 DEF Inv, IndexInv
  <2>7. ids'.live = ids.live \cup {i}
    BY <2>2, <2>3
  <2> QED BY <2>2, <2>3, <2>4, <2>5, <2>6, <2>7 DEF i
<1> QED BY <1>1, <1>2
LEMMA AllocateIdentityInv ==
  ASSUME Inv, NEW c \in Clients, NEW l \in Labels, AllocateIdentity(c, l)
  PROVE  Inv'
<1> DEFINE i == AllocatedID(ids, l)
<1>1. /\ ids' \in IdentityType
      /\ IndexInv'
      /\ i \in IDs
      /\ ids'.live = ids.live \cup {i}
      /\ ids'.labels[i] = l
      /\ ids'.hashToID = [ids.hashToID EXCEPT ![l] = i]
      /\ ids'.refCount[i] = Cardinality(Holders(i)) + ticks[l] + 1
      /\ \A j \in ids.live \ {i} : ids'.refCount[j] = ids.refCount[j]
      /\ \A j \in IDs : ids.labels[j] # NoLabels => ids'.labels[j] = ids.labels[j]
      /\ ids.labels[i] # NoLabels => i \in ids.live
  BY AllocateEffect DEF AllocateIdentity
<1>2. /\ held' = [held EXCEPT ![c] = i]
      /\ wants' = [wants EXCEPT ![c] = l]
      /\ held[c] = NoID
      /\ UNCHANGED <<ticks, gcList, gcDoomed>>
  BY DEF AllocateIdentity
<1>3. nodes' \in [IDs -> SUBSET Nodes]
  BY DEF AllocateIdentity, NodesAfterAllocate, Inv, TypeOK
<1> HIDE DEF i
<1>4. TypeOK'
  BY <1>1, <1>2, <1>3 DEF Inv, TypeOK
<1>5. /\ held'[c] = i /\ wants'[c] = l
      /\ \A d \in Clients \ {c} : held'[d] = held[d] /\ wants'[d] = wants[d]
      /\ ids'.hashToID[l] = i
      /\ \A m \in Labels \ {l} : ids'.hashToID[m] = ids.hashToID[m]
      /\ ids.live \subseteq IDs
  BY <1>1, <1>2 DEF Inv, TypeOK, IdentityType
<1>6. \A j \in ids.live : ids'.labels[j] = ids.labels[j] /\ ids.labels[j] \in Labels
  BY <1>1, <1>5, NoLabelsAssumption DEF Inv, IndexInv
<1>7. HeldIdentityIsLive'
  <2> SUFFICES ASSUME NEW d \in Clients, held'[d] # NoID
               PROVE  /\ held'[d] \in ids'.live
                      /\ ids'.labels[held'[d]] = wants'[d]
                      /\ ids'.hashToID[wants'[d]] = held'[d]
    BY DEF HeldIdentityIsLive
  <2>1. CASE d = c
    BY <2>1, <1>1, <1>5
  <2>2. CASE d # c
    <3>1. /\ held[d] \in ids.live
          /\ ids.labels[held[d]] = wants[d]
          /\ ids.hashToID[wants[d]] = held[d]
      BY <2>2, <1>5 DEF Inv, HeldIdentityIsLive
    <3>2. wants[d] \in Labels
      BY <3>1, <1>6
    <3>3. wants[d] = l => held[d] = i
      <4> SUFFICES ASSUME wants[d] = l PROVE held[d] = i
        OBVIOUS
      <4>1. ids.hashToID[l] = held[d] /\ held[d] # NoID
        BY <3>1, <1>5, Bounds
      <4> QED BY <4>1 DEF AllocatedID, i
    <3> QED BY <2>2, <3>1, <3>2, <3>3, <1>1, <1>5, <1>6
  <2> QED BY <2>1, <2>2
<1>8. RefCountIsExact'
  <2>1. ASSUME NEW j \in ids'.live
        PROVE  ids'.refCount[j]
                 = Cardinality({d \in Clients : held'[d] = j}) + ticks'[ids'.labels[j]]
    <3>1. CASE j = i
      <4>1. {d \in Clients : held'[d] = i} = Holders(i) \cup {c}
        BY <1>5 DEF Holders
      <4>2. c \notin Holders(i)
        BY <1>1, <1>2, Bounds DEF Holders
      <4>3. Cardinality(Holders(i) \cup {c}) = Cardinality(Holders(i)) + 1
        BY <4>2, HoldersCount
      <4>4. ticks[l] \in Nat
        BY BoundsAssumption DEF Inv, TypeOK
      <4> QED BY <3>1, <4>1, <4>3, <4>4, <1>1, <1>2, HoldersCount
    <3>2. CASE j # i
      <4>1. j \in ids.live
        BY <3>2, <1>1
      <4>2. {d \in Clients : held'[d] = j} = Holders(j)
        BY <3>2, <4>1, <1>2, <1>5, Bounds DEF Holders
      <4>3. ids.refCount[j] = Cardinality(Holders(j)) + ticks[ids.labels[j]]
        BY <4>1 DEF Inv, RefCountIsExact, Holders
      <4> QED BY <3>2, <4>1, <4>2, <4>3, <1>1, <1>2, <1>6
    <3> QED BY <3>1, <3>2
  <2>2. \A m \in Labels : ticks'[m] > 0 => ids'.hashToID[m] \in ids'.live
    BY <1>1, <1>2, <1>5 DEF Inv, RefCountIsExact
  <2> QED BY <2>1, <2>2 DEF RefCountIsExact
<1>9. CollectorInv' /\ DoomedStaysDead'
  BY <1>1, <1>2, NoLabelsAssumption DEF Inv, CollectorInv, DoomedStaysDead, TypeOK
<1> QED BY <1>1, <1>4, <1>7, <1>8, <1>9 DEF Inv

LEMMA CompilePolicyInv ==
  ASSUME Inv, NEW l \in Labels, CompilePolicy(l)
  PROVE  Inv'
<1> DEFINE i == AllocatedID(ids, l)
<1>1. /\ ids' \in IdentityType
      /\ IndexInv'
      /\ i \in IDs
      /\ ids'.live = ids.live \cup {i}
      /\ ids'.labels[i] = l
      /\ ids'.hashToID = [ids.hashToID EXCEPT ![l] = i]
      /\ ids'.refCount[i] = Cardinality(Holders(i)) + ticks[l] + 1
      /\ \A j \in ids.live \ {i} : ids'.refCount[j] = ids.refCount[j]
      /\ \A j \in IDs : ids.labels[j] # NoLabels => ids'.labels[j] = ids.labels[j]
      /\ ids.labels[i] # NoLabels => i \in ids.live
  BY AllocateEffect DEF CompilePolicy
<1>2. /\ ticks' = [ticks EXCEPT ![l] = ticks[l] + 1]
      /\ ticks[l] < MaxTicks
      /\ UNCHANGED <<held, wants, gcList, gcDoomed>>
  BY DEF CompilePolicy
<1>3. nodes' \in [IDs -> SUBSET Nodes]
  BY DEF CompilePolicy, NodesAfterAllocate, Inv, TypeOK
<1> HIDE DEF i
<1>4. TypeOK'
  BY <1>1, <1>2, <1>3, BoundsAssumption DEF Inv, TypeOK
<1>5. /\ ticks[l] \in Nat /\ ticks'[l] = ticks[l] + 1
      /\ \A m \in Labels \ {l} : ticks'[m] = ticks[m]
      /\ ids'.hashToID[l] = i
      /\ \A m \in Labels \ {l} : ids'.hashToID[m] = ids.hashToID[m]
      /\ ids.live \subseteq IDs
  BY <1>1, <1>2, BoundsAssumption DEF Inv, TypeOK, IdentityType
<1>6. \A j \in ids.live : /\ ids'.labels[j] = ids.labels[j]
                          /\ ids.labels[j] \in Labels
                          /\ ids.hashToID[ids.labels[j]] = j
  BY <1>1, <1>5, NoLabelsAssumption DEF Inv, IndexInv
<1>7. \A j \in ids.live : ids.labels[j] = l => j = i
  BY <1>5, <1>6, Bounds DEF AllocatedID, i
<1>8. HeldIdentityIsLive'
  BY <1>1, <1>2, <1>5, <1>6, <1>7 DEF Inv, HeldIdentityIsLive
<1>9. RefCountIsExact'
  <2>1. ASSUME NEW j \in ids'.live
        PROVE  ids'.refCount[j]
                 = Cardinality({d \in Clients : held'[d] = j}) + ticks'[ids'.labels[j]]
    <3>1. {d \in Clients : held'[d] = j} = Holders(j)
      BY <1>2 DEF Holders
    <3>2. CASE j = i
      BY <3>1, <3>2, <1>1, <1>5, HoldersCount
    <3>3. CASE j # i
      <4>1. j \in ids.live /\ ids.labels[j] # l
        BY <3>3, <1>1, <1>7
      <4>2. ids.refCount[j] = Cardinality(Holders(j)) + ticks[ids.labels[j]]
        BY <4>1 DEF Inv, RefCountIsExact, Holders
      <4>3. ids'.refCount[j] = ids.refCount[j]
        BY <3>3, <4>1, <1>1
      <4>4. ids'.labels[j] = ids.labels[j] /\ ids.labels[j] \in Labels \ {l}
        BY <4>1, <1>6
      <4>5. ticks'[ids'.labels[j]] = ticks[ids.labels[j]]
        BY <4>4, <1>5
      <4> QED BY <3>1, <4>2, <4>3, <4>5
    <3> QED BY <3>2, <3>3
  <2>2. \A m \in Labels : ticks'[m] > 0 => ids'.hashToID[m] \in ids'.live
    BY <1>1, <1>5 DEF Inv, RefCountIsExact
  <2> QED BY <2>1, <2>2 DEF RefCountIsExact
<1>10. CollectorInv' /\ DoomedStaysDead'
  BY <1>1, <1>2, NoLabelsAssumption DEF Inv, CollectorInv, DoomedStaysDead, TypeOK
<1> QED BY <1>1, <1>4, <1>8, <1>9, <1>10 DEF Inv
LEMMA ReleaseIdentityInv ==
  ASSUME Inv, NEW c \in Clients, ReleaseIdentity(c)
  PROVE  Inv'
<1> DEFINE i == held[c]
           l == ids.labels[i]
           b == AfterReleaseIdentity(ids, i)
<1>1. /\ held' = [held EXCEPT ![c] = NoID]
      /\ wants' = [wants EXCEPT ![c] = NoLabels]
      /\ i # NoID
      /\ ids' = b
      /\ UNCHANGED <<nodes, ticks, gcList, gcDoomed>>
  BY DEF ReleaseIdentity
<1>2. i \in ids.live /\ l \in Labels /\ ids.hashToID[l] = i
  BY <1>1 DEF Inv, HeldIdentityIsLive, IndexInv
<1>3. /\ ids \in IdentityType /\ ids.live \subseteq IDs
      /\ \A j \in IDs : ids.refCount[j] \in Nat
      /\ \A m \in Labels : ticks[m] \in Nat
  BY BoundsAssumption DEF Inv, TypeOK, IdentityType
<1>4. ids.refCount[i] >= 1
  BY <1>2 DEF Inv, IndexInv
<1>5. /\ ids' \in IdentityType
      /\ ids'.refCount = [ids.refCount EXCEPT ![i] = ids.refCount[i] - 1]
      /\ ids'.labels = ids.labels
      /\ ids'.nextID = ids.nextID
      /\ ids.refCount[i] > 1 => ids'.live = ids.live /\ ids'.hashToID = ids.hashToID
      /\ ids.refCount[i] = 1 =>
           /\ ids'.live = ids.live \ {i}
           /\ ids'.hashToID = [ids.hashToID EXCEPT ![l] = NoID]
  BY <1>1, <1>2, <1>3, <1>4, ReleaseLive
<1> HIDE DEF b
<1>6. ids.refCount[i] = Cardinality(Holders(i)) + ticks[l]
  BY <1>2 DEF Inv, RefCountIsExact, Holders
<1> HIDE DEF i, l
<1>7. /\ held'[c] = NoID
      /\ \A d \in Clients \ {c} : held'[d] = held[d] /\ wants'[d] = wants[d]
      /\ ids'.refCount[i] = ids.refCount[i] - 1
      /\ \A j \in IDs \ {i} : ids'.refCount[j] = ids.refCount[j]
      /\ held[c] = i
      /\ ids.labels[i] = l
  BY <1>1, <1>2, <1>3, <1>5 DEF Inv, TypeOK, IdentityType, i, l
<1>8. TypeOK'
  BY <1>1, <1>5 DEF Inv, TypeOK
<1>9. c \in Holders(i) /\ Cardinality(Holders(i) \ {c}) = Cardinality(Holders(i)) - 1
  <2>1. c \in Holders(i)
    BY <1>7 DEF Holders
  <2> QED BY <2>1, HoldersCount
<1>10. /\ {d \in Clients : held'[d] = i} = Holders(i) \ {c}
       /\ \A j \in ids.live \ {i} : {d \in Clients : held'[d] = j} = Holders(j)
  BY <1>2, <1>3, <1>7, Bounds DEF Holders
<1>11. CASE ids.refCount[i] > 1
  <2>1. ids'.live = ids.live /\ ids'.hashToID = ids.hashToID
    BY <1>5, <1>11
  <2>2. \A j \in ids.live : ids'.refCount[j] >= 1
    BY <1>3, <1>7, <1>11 DEF Inv, IndexInv
  <2>3. IndexInv'
    BY <1>5, <2>1, <2>2 DEF Inv, IndexInv
  <2>4. HeldIdentityIsLive'
    BY <1>5, <1>7, <2>1 DEF Inv, HeldIdentityIsLive
  <2>5. RefCountIsExact'
    <3>1. ASSUME NEW j \in ids'.live
          PROVE  ids'.refCount[j]
                   = Cardinality({d \in Clients : held'[d] = j}) + ticks'[ids'.labels[j]]
      <4>1. CASE j = i
        BY <4>1, <1>1, <1>2, <1>3, <1>5, <1>6, <1>7, <1>9, <1>10, HoldersCount
      <4>2. CASE j # i
        <5>1. j \in ids.live
          BY <2>1
        <5>2. ids.refCount[j] = Cardinality(Holders(j)) + ticks[ids.labels[j]]
          BY <5>1 DEF Inv, RefCountIsExact, Holders
        <5>3. {d \in Clients : held'[d] = j} = Holders(j)
          BY <4>2, <5>1, <1>10
        <5>4. ids'.refCount[j] = ids.refCount[j]
          BY <4>2, <5>1, <1>3, <1>7
        <5> QED BY <5>2, <5>3, <5>4, <1>1, <1>5
      <4> QED BY <4>1, <4>2
    <3>2. \A m \in Labels : ticks'[m] > 0 => ids'.hashToID[m] \in ids'.live
      BY <1>1, <2>1 DEF Inv, RefCountIsExact
    <3> QED BY <3>1, <3>2 DEF RefCountIsExact
  <2>6. CollectorInv' /\ DoomedStaysDead'
    BY <1>1, <1>5, <2>1 DEF Inv, CollectorInv, DoomedStaysDead
  <2> QED BY <1>8, <2>3, <2>4, <2>5, <2>6 DEF Inv
<1>12. CASE ids.refCount[i] = 1
  <2>1. /\ ids'.live = ids.live \ {i}
        /\ ids'.hashToID[l] = NoID
        /\ \A m \in Labels \ {l} : ids'.hashToID[m] = ids.hashToID[m]
    BY <1>2, <1>3, <1>5, <1>12 DEF IdentityType
  <2>2. Holders(i) \ {c} = {} /\ ticks[l] = 0
    <3>1. Cardinality(Holders(i)) >= 1 /\ Cardinality(Holders(i)) \in Nat
      BY <1>9, HoldersCount
    <3>2. Cardinality(Holders(i)) = 1 /\ ticks[l] = 0
      BY <1>2, <1>3, <1>6, <1>12, <3>1
    <3>3. IsFiniteSet(Holders(i) \ {c}) /\ Cardinality(Holders(i) \ {c}) = 0
      BY <1>9, <3>2, HoldersCount, FS_RemoveElement
    <3> QED BY <3>2, <3>3, FS_EmptySet
  <2>3. \A j \in ids'.live : ids.labels[j] \in Labels \ {l}
    BY <1>2, <2>1 DEF Inv, IndexInv
  <2>4. IndexInv'
    <3>1. \A j \in ids'.live : /\ ids'.labels[j] \in Labels
                               /\ ids'.hashToID[ids'.labels[j]] = j
                               /\ ids'.refCount[j] >= 1
      BY <1>3, <1>5, <1>7, <2>1, <2>3 DEF Inv, IndexInv
    <3>2. \A m \in Labels : ids'.hashToID[m] # NoID =>
            ids'.hashToID[m] \in ids'.live /\ ids'.labels[ids'.hashToID[m]] = m
      BY <1>5, <1>7, <2>1 DEF Inv, IndexInv
    <3> QED BY <1>5, <3>1, <3>2 DEF Inv, IndexInv
  <2>5. HeldIdentityIsLive'
    <3> SUFFICES ASSUME NEW d \in Clients, held'[d] # NoID
                 PROVE  /\ held'[d] \in ids'.live
                        /\ ids'.labels[held'[d]] = wants'[d]
                        /\ ids'.hashToID[wants'[d]] = held'[d]
      BY DEF HeldIdentityIsLive
    <3>1. d # c /\ held'[d] = held[d] /\ wants'[d] = wants[d] /\ held[d] # NoID
      BY <1>7
    <3>2. held[d] # i
      BY <2>2, <3>1 DEF Holders
    <3>3. /\ held[d] \in ids.live
          /\ ids.labels[held[d]] = wants[d]
          /\ ids.hashToID[wants[d]] = held[d]
      BY <3>1 DEF Inv, HeldIdentityIsLive
    <3>4. held[d] \in ids'.live
      BY <2>1, <3>2, <3>3
    <3> QED BY <1>5, <2>1, <2>3, <3>1, <3>3, <3>4
  <2>6. RefCountIsExact'
    <3>1. ASSUME NEW j \in ids'.live
          PROVE  ids'.refCount[j]
                   = Cardinality({d \in Clients : held'[d] = j}) + ticks'[ids'.labels[j]]
      <4>1. j \in ids.live /\ j # i
        BY <2>1
      <4>2. ids.refCount[j] = Cardinality(Holders(j)) + ticks[ids.labels[j]]
        BY <4>1 DEF Inv, RefCountIsExact, Holders
      <4>3. {d \in Clients : held'[d] = j} = Holders(j)
        BY <4>1, <1>10
      <4>4. ids'.refCount[j] = ids.refCount[j]
        BY <4>1, <1>3, <1>7
      <4> QED BY <4>2, <4>3, <4>4, <1>1, <1>5
    <3>2. ASSUME NEW m \in Labels, ticks'[m] > 0
          PROVE  ids'.hashToID[m] \in ids'.live
      <4>1. m # l /\ ids.hashToID[m] \in ids.live
        BY <3>2, <1>1, <2>2 DEF Inv, RefCountIsExact
      <4>2. ids.hashToID[m] # NoID
        BY <4>1, <1>3, Bounds
      <4>3. ids.labels[ids.hashToID[m]] = m
        BY <4>2 DEF Inv, IndexInv
      <4> QED BY <4>1, <4>3, <1>7, <2>1
    <3> QED BY <3>1, <3>2 DEF RefCountIsExact
  <2>7. CollectorInv' /\ DoomedStaysDead'
    BY <1>1, <1>5, <2>1 DEF Inv, CollectorInv, DoomedStaysDead
  <2> QED BY <1>8, <2>4, <2>5, <2>6, <2>7 DEF Inv
<1> QED
  <2>1. i \in IDs /\ ids.refCount[i] \in Nat
    BY <1>2, <1>3
  <2>2. ids.refCount[i] > 1 \/ ids.refCount[i] = 1
    BY <1>4, <2>1 DEF i
  <2> QED BY <2>2, <1>11, <1>12
LEMMA NodeReferenceInv ==
  ASSUME Inv, NEW c \in Clients, NEW n \in Nodes,
         AddNodeReference(c, n) \/ RemoveNodeReference(c, n)
  PROVE  Inv'
<1>1. UNCHANGED <<ids, held, wants, ticks, gcList, gcDoomed>>
  BY DEF AddNodeReference, RemoveNodeReference
<1>2. nodes' \in [IDs -> SUBSET Nodes]
  BY DEF AddNodeReference, RemoveNodeReference, Inv, TypeOK, IdentityType
<1> QED BY <1>1, <1>2 DEF Inv, TypeOK, IndexInv, HeldIdentityIsLive,
           RefCountIsExact, CollectorInv, DoomedStaysDead

LEMMA GCListInv ==
  ASSUME Inv, NEW n \in Nodes, GCList(n)
  PROVE  Inv'
<1>1. /\ UNCHANGED <<ids, nodes, held, wants, ticks, gcDoomed>>
      /\ gcList' \subseteq ids.live
  BY DEF GCList
<1>2. TypeOK'
  BY <1>1 DEF Inv, TypeOK, IdentityType
<1>3. CollectorInv'
  BY <1>1, NoLabelsAssumption DEF Inv, CollectorInv, IndexInv
<1> QED BY <1>1, <1>2, <1>3 DEF Inv, IndexInv, HeldIdentityIsLive,
           RefCountIsExact, DoomedStaysDead

\* The read without the mutex is harmless: a live identity's count is not 0.
LEMMA GCReadInv ==
  ASSUME Inv, NEW i \in IDs, GCRead(i)
  PROVE  Inv'
<1>1. /\ UNCHANGED <<ids, nodes, held, wants, ticks>>
      /\ i \in gcList
      /\ gcList' = gcList \ {i}
      /\ gcDoomed' = IF ids.refCount[i] <= 0 THEN i ELSE NoID
  BY DEF GCRead
<1>2. TypeOK'
  BY <1>1 DEF Inv, TypeOK
<1>3. CollectorInv'
  BY <1>1 DEF Inv, CollectorInv
<1>4. DoomedStaysDead'
  <2>1. ids.refCount[i] \in Nat
    BY DEF Inv, TypeOK, IdentityType
  <2>2. ids.refCount[i] <= 0 => i \notin ids.live
    BY <2>1 DEF Inv, IndexInv
  <2> QED BY <1>1, <2>2 DEF DoomedStaysDead
<1> QED BY <1>1, <1>2, <1>3, <1>4 DEF Inv, IndexInv, HeldIdentityIsLive,
           RefCountIsExact

\* The collector's ReleaseIdentity finds nothing to release.
LEMMA GCReleaseInv ==
  ASSUME Inv, GCRelease
  PROVE  Inv'
<1>1. /\ UNCHANGED <<ids, nodes, held, wants, ticks, gcList>>
      /\ gcDoomed' = NoID
  BY DEF GCRelease, AfterReleaseIdentity, Inv, DoomedStaysDead
<1> QED BY <1>1 DEF Inv, TypeOK, IndexInv, HeldIdentityIsLive,
           RefCountIsExact, CollectorInv, DoomedStaysDead

LEMMA StutterInv == Inv /\ UNCHANGED vars => Inv'
  BY DEF vars, Inv, TypeOK, IndexInv, HeldIdentityIsLive, RefCountIsExact,
     CollectorInv, DoomedStaysDead

-----------------------------------------------------------------------------
(* Theorems.                                                               *)

\* The maps of the allocator index each other and agree with what its clients
\* hold, in every reachable state of clients, compiler and collector.
THEOREM LifecycleInvariant == Spec => []Inv
<1>1. Inv /\ [Next]_vars => Inv'
  <2> SUFFICES ASSUME Inv, [Next]_vars PROVE Inv'
    OBVIOUS
  <2>1. CASE \E c \in Clients, l \in Labels : AllocateIdentity(c, l)
    BY <2>1, AllocateIdentityInv
  <2>2. CASE \E c \in Clients : ReleaseIdentity(c)
    BY <2>2, ReleaseIdentityInv
  <2>3. CASE \E l \in Labels : CompilePolicy(l)
    BY <2>3, CompilePolicyInv
  <2>4. CASE \E c \in Clients, n \in Nodes : AddNodeReference(c, n)
    BY <2>4, NodeReferenceInv
  <2>5. CASE \E c \in Clients, n \in Nodes : RemoveNodeReference(c, n)
    BY <2>5, NodeReferenceInv
  <2>6. CASE \E n \in Nodes : GCList(n)
    BY <2>6, GCListInv
  <2>7. CASE \E i \in IDs : GCRead(i)
    BY <2>7, GCReadInv
  <2>8. CASE GCRelease
    BY <2>8, GCReleaseInv
  <2>9. CASE UNCHANGED vars
    BY <2>9, StutterInv
  <2> QED BY <2>1, <2>2, <2>3, <2>4, <2>5, <2>6, <2>7, <2>8, <2>9 DEF Next
<1> QED BY <1>1, InitInv, PTL DEF Spec

\* A client that holds an identity finds it in the map under its own labels
\* until it releases it, whatever other clients and the collector do.
THEOREM HeldIdentitiesAreLive == Spec => []HeldIdentityIsLive
<1>1. Inv => HeldIdentityIsLive
  BY DEF Inv
<1> QED BY <1>1, LifecycleInvariant, PTL

\* RefCount counts the holders and the compilations, neither more nor less.
THEOREM RefCountsAreExact == Spec => []RefCountIsExact
<1>1. Inv => RefCountIsExact
  BY DEF Inv
<1> QED BY <1>1, LifecycleInvariant, PTL

\* The collector's unlocked read cannot make it release a live identity.
THEOREM CollectorIsHarmless == Spec => []DoomedStaysDead
<1>1. Inv => DoomedStaysDead
  BY DEF Inv
<1> QED BY <1>1, LifecycleInvariant, PTL

\* An ID keeps the label set it was first given for, through releases and
\* collections: an action property, from the invariant of the state before.
THEOREM NoRelabelling == Spec => IDNeverRelabelled
<1> DEFINE Kept == \A i \in IDs : ids.labels[i] # NoLabels => ids'.labels[i] = ids.labels[i]
<1>1. Inv /\ [Next]_vars => [Kept]_vars
  <2> SUFFICES ASSUME Inv, Next PROVE Kept
    OBVIOUS
  <2>1. CASE \E c \in Clients, l \in Labels : AllocateIdentity(c, l)
    BY <2>1, AllocateEffect DEF AllocateIdentity
  <2>2. CASE \E l \in Labels : CompilePolicy(l)
    BY <2>2, AllocateEffect DEF CompilePolicy
  <2>3. CASE \E c \in Clients : ReleaseIdentity(c)
    <3>1. PICK c \in Clients : ReleaseIdentity(c)
      BY <2>3
    <3>2. /\ held[c] \in ids.live
          /\ ids.labels[held[c]] \in Labels
          /\ ids.refCount[held[c]] >= 1
          /\ ids \in IdentityType
      BY <3>1 DEF ReleaseIdentity, Inv, TypeOK, HeldIdentityIsLive, IndexInv
    <3>3. ids'.labels = ids.labels
      BY <3>1, <3>2, ReleaseLive DEF ReleaseIdentity
    <3> QED BY <3>3
  <2>4. CASE GCRelease
    BY <2>4 DEF GCRelease, AfterReleaseIdentity, Inv, DoomedStaysDead
  <2>5. CASE \/ \E c \in Clients, n \in Nodes : AddNodeReference(c, n)
             \/ \E c \in Clients, n \in Nodes : RemoveNodeReference(c, n)
             \/ \E n \in Nodes : GCList(n)
             \/ \E i \in IDs : GCRead(i)
    BY <2>5 DEF AddNodeReference, RemoveNodeReference, GCList, GCRead
  <2> QED BY <2>1, <2>2, <2>3, <2>4, <2>5 DEF Next
<1> HIDE DEF Kept
<1>2. Spec => [][Kept]_vars
  BY <1>1, LifecycleInvariant, PTL DEF Spec
<1> QED BY <1>2 DEF Kept, IDNeverRelabelled
==============================================================================
