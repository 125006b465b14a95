-------------------------- MODULE PolicyStoreProofs --------------------------
(***************************************************************************)
(* Proofs about PolicyStore for any callers, policies, pods and label sets,*)
(* and also when nextID wraps.  That nothing stays unpublished follows from*)
(* s.mu alone: what its holder compiles is the map.  That the compiled     *)
(* policy is right needs more, because compiling a policy allocates        *)
(* identities for selectors and so can change what a selector resolves to: *)
(* whatever was compiled is settled, that is, it was resolved to           *)
(* identities of pods or to an identity of the selector's own, and neither *)
(* can change any more without a step that clears undisturbed.             *)
(***************************************************************************)
EXTENDS PolicyStore, TLAPS

Resolving == {"evaluated", "looked", "peers"}

WorkType ==
  [input : [Names -> Specs \cup {NoPolicy}], todo : SUBSET Names,
   spec : Specs \cup {NoPolicy}, dst : SUBSET IDs, found : SUBSET Pods,
   got : SUBSET IDs, keys : SUBSET (IDs \X IDs)]

\* Types of what the proof is about: the store, its callers, the pods and the
\* identities.
TypeOK ==
  /\ policies \in [Names -> Specs \cup {NoPolicy}]
  /\ mu \in Threads \cup {NoThread}
  /\ pc \in [Threads -> States]
  /\ work \in [Threads -> WorkType]
  /\ podLabels \in [Pods -> PodLabels \cup {Absent}]
  /\ ids \in IdentityType
  /\ \A i \in ids.live : ids.refCount[i] >= 1
  /\ held \in [Pods -> IDs \cup {NoID}]
  /\ undisturbed \in BOOLEAN

\* s.mu is held by the caller that compiles, and the map it compiles is the
\* store's.
LockInv ==
  /\ \A t \in Threads : pc[t] \in Resolving \cup {"compiling"} <=> mu = t
  /\ \A t \in Threads : mu = t => work[t].input = policies

\* Where the locals of the compiler stand.
ShapeInv(t) ==
  /\ pc[t] = "compiling" => work[t].dst = {}
  /\ pc[t] \in Resolving =>
       /\ work[t].spec \in Specs
       /\ work[t].dst # {} => work[t].spec.from \notin {AnyPeer, NoRule}
  /\ pc[t] = "peers" => work[t].dst # {}
  /\ pc[t] \in Resolving \cup {"compiling"} =>
       \A n \in work[t].todo : policies[n] # NoPolicy

Defined == {n \in Names : policies[n] # NoPolicy}

\* The identities of the pods that selector s matches.
Got(s) == {ids.hashToID[podLabels[p]] : p \in Matching(s)} \ {NoID}

\* Selector s resolves to identities that exist.
Settled(s) == Got(s) # {} \/ ids.hashToID[s] # NoID

SettledSpec(spec) ==
  /\ Settled(spec.pods)
  /\ spec.from \notin {AnyPeer, NoRule} => Settled(spec.from)

Keys(ns) == UNION {CompilesTo(policies[n]) : n \in ns}

\* The policies ns are compiled, and their keys are ks.
AreCompiled(ns, ks) ==
  /\ \A n \in ns : SettledSpec(policies[n])
  /\ ks = Keys(ns)

\* Between two policies, with nothing changed since s.mu was taken.
CompilingInv(t) ==
  (pc[t] = "compiling" /\ undisturbed) =>
    AreCompiled(Defined \ work[t].todo, work[t].keys)

\* Within policy c: the rest is compiled, and so is the selector of c's pods
\* once its identities are known.
ResolvingPolicy(t, c) ==
  /\ work[t].spec = policies[c]
  /\ AreCompiled((Defined \ work[t].todo) \ {c}, work[t].keys)
  /\ work[t].dst # {} => /\ Settled(work[t].spec.pods)
                         /\ work[t].dst = ResolvesTo(work[t].spec.pods)
  /\ pc[t] = "evaluated" => work[t].found = Matching(Selector(work[t]))
  /\ pc[t] = "looked" => work[t].got = Got(Selector(work[t]))

ResolvingInv(t) ==
  (pc[t] \in Resolving /\ undisturbed) =>
    \E c \in Defined \ work[t].todo : ResolvingPolicy(t, c)

\* The inductive invariant.
Inv ==
  /\ TypeOK
  /\ LockInv
  /\ \A t \in Threads : ShapeInv(t) /\ CompilingInv(t) /\ ResolvingInv(t)
  /\ NothingUnpublished
  /\ PublishedMatchesStore

-----------------------------------------------------------------------------
(* The identity allocator.                                                 *)

LEMMA AllocateFacts ==
  ASSUME NEW a \in IdentityType, NEW l \in Labels,
         \A i \in a.live : a.refCount[i] >= 1
  PROVE  LET b == AfterAllocateIdentity(a, l)
         IN  /\ b \in IdentityType
             /\ \A i \in b.live : b.refCount[i] >= 1
             /\ AllocatedID(a, l) \in IDs
             /\ b.hashToID = [a.hashToID EXCEPT ![l] = AllocatedID(a, l)]
<1>1. CASE a.hashToID[l] # NoID
  <2>1. a.hashToID[l] \in IDs
    BY <1>1 DEF IdentityType
  <2>2. AfterAllocateIdentity(a, l) = [a EXCEPT !.refCount[a.hashToID[l]] = @ + 1]
    BY <1>1 DEF AfterAllocateIdentity
  <2> QED BY <1>1, <2>1, <2>2 DEF IdentityType, AllocatedID
<1>2. CASE a.hashToID[l] = NoID
  <2>1. a.nextID \in IDs /\ (a.nextID + 1) % IDSpace \in IDs
    BY IDSpaceAssumption DEF IdentityType, IDs
  <2> QED BY <1>2, <2>1 DEF AfterAllocateIdentity, IdentityType, AllocatedID
<1> QED BY <1>1, <1>2

LEMMA ReleaseFacts ==
  ASSUME NEW a \in IdentityType, NEW i \in IDs,
         \A j \in a.live : a.refCount[j] >= 1
  PROVE  LET b == AfterReleaseIdentity(a, i)
         IN  /\ b \in IdentityType
             /\ \A j \in b.live : b.refCount[j] >= 1
<1>1. CASE i \notin a.live
  BY <1>1 DEF AfterReleaseIdentity
<1>2. CASE i \in a.live
  <2> DEFINE n == a.refCount[i] - 1
  <2>1. n \in Nat
    BY <1>2 DEF IdentityType
  <2>2. AfterReleaseIdentity(a, i) =
          [live     |-> IF n <= 0 THEN a.live \ {i} ELSE a.live,
           refCount |-> [a.refCount EXCEPT ![i] = n],
           labels   |-> a.labels,
           hashToID |-> [a.hashToID EXCEPT ![a.labels[i]] = IF n <= 0 THEN NoID ELSE @],
           nextID   |-> a.nextID]
    BY <1>2 DEF AfterReleaseIdentity, IdentityType
  <2>3. [a.hashToID EXCEPT ![a.labels[i]] = IF n <= 0 THEN NoID ELSE @] \in [Labels -> IDs \cup {NoID}]
    BY DEF IdentityType
  <2>4. [a.refCount EXCEPT ![i] = n] \in [IDs -> Nat]
    BY <2>1 DEF IdentityType
  <2>5. AfterReleaseIdentity(a, i) \in IdentityType
    BY <2>2, <2>3, <2>4 DEF IdentityType
  <2>6. \A j \in AfterReleaseIdentity(a, i).live : AfterReleaseIdentity(a, i).refCount[j] >= 1
    BY <2>1, <2>2 DEF IdentityType
  <2> QED BY <2>5, <2>6
<1> QED BY <1>1, <1>2

-----------------------------------------------------------------------------
(* What selectors resolve to, from one state to the next.                  *)

\* The same pods and identities resolve to the same.
LEMMA SameResolution ==
  ASSUME podLabels' = podLabels, ids'.hashToID = ids.hashToID
  PROVE  /\ \A s : Matching(s)' = Matching(s)
         /\ \A s : Got(s)' = Got(s)
         /\ \A s : Settled(s)' <=> Settled(s)
         /\ \A s : ResolvesTo(s)' = ResolvesTo(s)
         /\ \A spec : CompilesTo(spec)' = CompilesTo(spec)
<1>1. \A s : Matching(s)' = Matching(s)
  BY DEF Matching
<1>2. \A s : Got(s)' = Got(s)
  BY <1>1 DEF Got
<1>3. \A s : Settled(s)' <=> Settled(s)
  BY <1>2 DEF Settled
<1>4. \A s : ResolvesTo(s)' = ResolvesTo(s)
  BY <1>1 DEF ResolvesTo
<1>5. \A spec : CompilesTo(spec)' = CompilesTo(spec)
  BY <1>4 DEF CompilesTo
<1> QED BY <1>1, <1>2, <1>3, <1>4, <1>5

\* A new identity for the labels of no pod leaves what is settled alone.
LEMMA NewIdentity ==
  ASSUME TypeOK, podLabels' = podLabels,
         NEW l \in Labels, NEW i \in IDs, ids.hashToID[l] = NoID,
         ids'.hashToID = [ids.hashToID EXCEPT ![l] = i],
         \A p \in Pods : podLabels[p] # l
  PROVE  /\ \A s : Matching(s)' = Matching(s)
         /\ \A s : Got(s)' = Got(s)
         /\ \A s \in Labels : Settled(s) => /\ Settled(s)'
                                            /\ ResolvesTo(s)' = ResolvesTo(s)
         /\ \A spec \in Specs : SettledSpec(spec) =>
              SettledSpec(spec)' /\ CompilesTo(spec)' = CompilesTo(spec)
<1>1. \A s : Matching(s)' = Matching(s)
  BY DEF Matching
<1>2. \A s : \A p \in Matching(s) : ids'.hashToID[podLabels'[p]] = ids.hashToID[podLabels[p]]
  <2> SUFFICES ASSUME NEW s, NEW p \in Matching(s)
               PROVE  ids'.hashToID[podLabels'[p]] = ids.hashToID[podLabels[p]]
    OBVIOUS
  <2>1. podLabels[p] \in Labels /\ podLabels[p] # l
    BY PodLabelsAssumption DEF Matching, TypeOK
  <2> QED BY <2>1 DEF TypeOK, IdentityType
<1>3. \A s : Got(s)' = Got(s)
  BY <1>1, <1>2 DEF Got
<1>4. \A s \in Labels : Settled(s) => Settled(s)' /\ ResolvesTo(s)' = ResolvesTo(s)
  <2> SUFFICES ASSUME NEW s \in Labels, Settled(s)
               PROVE  Settled(s)' /\ ResolvesTo(s)' = ResolvesTo(s)
    OBVIOUS
  <2>1. CASE Got(s) # {}
    BY <2>1, <1>3 DEF Settled, ResolvesTo, Got
  <2>2. CASE Got(s) = {}
    <3>1. ids.hashToID[s] # NoID
      BY <2>2 DEF Settled
    <3>2. ids'.hashToID[s] = ids.hashToID[s]
      BY <3>1 DEF TypeOK, IdentityType
    <3> QED BY <2>2, <3>1, <3>2, <1>3 DEF Settled, ResolvesTo, Got
  <2> QED BY <2>1, <2>2
<1>5. ASSUME NEW spec \in Specs, SettledSpec(spec)
      PROVE  SettledSpec(spec)' /\ CompilesTo(spec)' = CompilesTo(spec)
  <2>1. spec.pods \in Labels /\ spec.from \in Labels \cup {AnyPeer, NoRule}
    BY SpecsAssumption
  <2>2. Settled(spec.pods)' /\ ResolvesTo(spec.pods)' = ResolvesTo(spec.pods)
    BY <1>4, <1>5, <2>1 DEF SettledSpec
  <2>3. spec.from \notin {AnyPeer, NoRule} =>
          Settled(spec.from)' /\ ResolvesTo(spec.from)' = ResolvesTo(spec.from)
    BY <1>4, <1>5, <2>1 DEF SettledSpec
  <2>4. SettledSpec(spec)'
    BY <2>2, <2>3 DEF SettledSpec
  <2>5. CompilesTo(spec)' = CompilesTo(spec)
    BY <2>2, <2>3 DEF CompilesTo
  <2> QED BY <2>4, <2>5
<1> QED BY <1>1, <1>3, <1>4, <1>5

\* What a state function of unchanged arguments says of compiled policies.
LEMMA SameCompiled ==
  ASSUME policies' = policies, podLabels' = podLabels, ids'.hashToID = ids.hashToID
  PROVE  /\ Defined' = Defined
         /\ \A ns : Keys(ns)' = Keys(ns)
         /\ \A ns, ks : AreCompiled(ns, ks)' <=> AreCompiled(ns, ks)
<1>1. Defined' = Defined
  BY DEF Defined
<1>2. \A ns : Keys(ns)' = Keys(ns)
  BY SameResolution DEF Keys
<1>3. \A spec : SettledSpec(spec)' <=> SettledSpec(spec)
  BY SameResolution DEF SettledSpec
<1> QED BY <1>1, <1>2, <1>3 DEF AreCompiled

LEMMA StillCompiled ==
  ASSUME policies' = policies,
         \A spec \in Specs : SettledSpec(spec) =>
           SettledSpec(spec)' /\ CompilesTo(spec)' = CompilesTo(spec),
         NEW ns \in SUBSET Defined, NEW ks, AreCompiled(ns, ks), TypeOK
  PROVE  AreCompiled(ns, ks)'
<1>1. \A n \in ns : policies[n] \in Specs
  BY DEF Defined, TypeOK
<1>2. \A n \in ns : SettledSpec(policies[n])' /\ CompilesTo(policies[n])' = CompilesTo(policies[n])
  BY <1>1 DEF AreCompiled
<1>3. Keys(ns)' = Keys(ns)
  BY <1>2 DEF Keys
<1> QED BY <1>2, <1>3 DEF AreCompiled

\* A caller whose locals do not change, while pods and identities do not, or do
\* and are noticed.
LEMMA Bystander ==
  ASSUME NEW t \in Threads, ShapeInv(t), CompilingInv(t), ResolvingInv(t),
         policies' = policies, pc'[t] = pc[t], work'[t] = work[t],
         undisturbed' => /\ undisturbed
                         /\ podLabels' = podLabels
                         /\ ids'.hashToID = ids.hashToID
  PROVE  ShapeInv(t)' /\ CompilingInv(t)' /\ ResolvingInv(t)'
<1>1. ShapeInv(t)'
  BY DEF ShapeInv
<1>2. CompilingInv(t)'
  BY SameCompiled DEF CompilingInv
<1>3. ResolvingInv(t)'
  <2> SUFFICES ASSUME pc[t] \in Resolving, undisturbed'
               PROVE  \E c \in (Defined \ work[t].todo)' : ResolvingPolicy(t, c)'
    BY DEF ResolvingInv
  <2>1. PICK c \in Defined \ work[t].todo : ResolvingPolicy(t, c)
    BY DEF ResolvingInv
  <2>2. c \in (Defined \ work[t].todo)'
    BY SameCompiled
  <2>3. ResolvingPolicy(t, c)'
    BY <2>1, SameCompiled, SameResolution DEF ResolvingPolicy, Selector
  <2> QED BY <2>2, <2>3
<1> QED BY <1>1, <1>2, <1>3

\* A caller that does not compile.
LEMMA NotCompiling ==
  ASSUME NEW t \in Threads, pc'[t] \notin Resolving \cup {"compiling"}
  PROVE  ShapeInv(t)' /\ CompilingInv(t)' /\ ResolvingInv(t)'
  BY DEF ShapeInv, CompilingInv, ResolvingInv, Resolving

-----------------------------------------------------------------------------
(* The steps.                                                              *)

LEMMA InitInv == Init => Inv
<1> SUFFICES ASSUME Init PROVE Inv
  OBVIOUS
<1>1. TypeOK
  <2>1. NoWork \in WorkType
    BY DEF NoWork, WorkType, NoPolicies
  <2>2. NewIdentityAllocator \in IdentityType /\ NewIdentityAllocator.live = {}
    BY IDSpaceAssumption DEF NewIdentityAllocator, IdentityType, IDs
  <2> QED BY <2>1, <2>2 DEF Init, TypeOK, NoPolicies, States
<1>2. LockInv /\ \A t \in Threads : ShapeInv(t) /\ CompilingInv(t) /\ ResolvingInv(t)
  BY NoThreadAssumption DEF Init, LockInv, ShapeInv, CompilingInv, ResolvingInv, Resolving
<1>3. NothingUnpublished
  BY DEF Init, NothingUnpublished
<1>4. PublishedMatchesStore
  <2>1. {m \in Names : policies[m] # NoPolicy} = {}
    BY DEF Init, NoPolicies
  <2> QED BY <2>1 DEF Init, PublishedMatchesStore
<1> QED BY <1>1, <1>2, <1>3, <1>4 DEF Inv

\* AddPolicy and RemovePolicy: nobody compiles, and what is published is stale
\* until the caller has compiled.
LEMMA ChangeInv ==
  ASSUME Inv, NEW t \in Threads, NEW n \in Names, NEW s \in Specs \cup {NoPolicy},
         mu = NoThread, mu' = mu, policies' = [policies EXCEPT ![n] = s],
         pc' = [pc EXCEPT ![t] = "changed"], undisturbed' = FALSE,
         UNCHANGED <<work, podLabels, ids, held>>
  PROVE  Inv'
<1>1. TypeOK'
  BY DEF Inv, TypeOK, States
<1>2. \A u \in Threads : pc'[u] \notin Resolving \cup {"compiling"} /\ mu' # u
  BY NoThreadAssumption DEF Inv, TypeOK, LockInv, Resolving
<1>3. LockInv'
  BY <1>2 DEF LockInv
<1>4. \A u \in Threads : ShapeInv(u)' /\ CompilingInv(u)' /\ ResolvingInv(u)'
  BY <1>2, NotCompiling
<1>5. NothingUnpublished' /\ PublishedMatchesStore'
  BY DEF Inv, TypeOK, NothingUnpublished, PublishedMatchesStore
<1> QED BY <1>1, <1>3, <1>4, <1>5 DEF Inv

LEMMA RecompileLockInv ==
  ASSUME Inv, NEW t \in Threads, RecompileLock(t)
  PROVE  Inv'
<1> DEFINE w == [NoWork EXCEPT
                   !.input = policies, !.todo = {n \in Names : policies[n] # NoPolicy}]
<1>1. /\ mu' = t
      /\ pc' = [pc EXCEPT ![t] = "compiling"]
      /\ work' = [work EXCEPT ![t] = w]
      /\ undisturbed' = TRUE
      /\ UNCHANGED <<policies, source, podLabels, ids, held>>
      /\ mu = NoThread
  BY DEF RecompileLock, cluster
<1>2. /\ w \in WorkType
      /\ w.input = policies /\ w.todo = Defined /\ w.dst = {} /\ w.keys = {}
  BY SpecsAssumption DEF Inv, TypeOK, WorkType, NoWork, NoPolicies, Defined
<1> HIDE DEF w
<1>3. TypeOK'
  BY <1>1, <1>2 DEF Inv, TypeOK, States
<1>4. \A u \in Threads \ {t} : pc'[u] \notin Resolving \cup {"compiling"} /\ mu' # u
  BY <1>1, NoThreadAssumption DEF Inv, TypeOK, LockInv, Resolving
<1>5. pc'[t] = "compiling" /\ work'[t] = w
  BY <1>1 DEF Inv, TypeOK
<1>6. LockInv'
  BY <1>1, <1>2, <1>4, <1>5 DEF LockInv, Resolving
<1>7. ShapeInv(t)' /\ CompilingInv(t)' /\ ResolvingInv(t)'
  <2>1. ShapeInv(t)' /\ ResolvingInv(t)'
    BY <1>1, <1>2, <1>5 DEF ShapeInv, ResolvingInv, Resolving, Defined
  <2>2. Defined' \ work'[t].todo = {}
    BY <1>1, <1>2, <1>5 DEF Defined
  <2>3. AreCompiled({}, {})'
    BY DEF AreCompiled, Keys
  <2>4. CompilingInv(t)'
    BY <1>2, <1>5, <2>2, <2>3 DEF CompilingInv
  <2> QED BY <2>1, <2>4
<1>8. \A u \in Threads : ShapeInv(u)' /\ CompilingInv(u)' /\ ResolvingInv(u)'
  BY <1>4, <1>7, NotCompiling
<1>9. NothingUnpublished' /\ PublishedMatchesStore'
  BY <1>1, <1>5, NoThreadAssumption DEF Inv, NothingUnpublished, PublishedMatchesStore
<1> QED BY <1>3, <1>6, <1>8, <1>9 DEF Inv

\* A step of the compiler: what is left to show is about the caller that holds
\* s.mu.
LEMMA CompileStepInv ==
  ASSUME Inv, NEW t \in Threads, pc[t] \in Resolving \cup {"compiling"},
         UNCHANGED <<policies, mu, podLabels, held, source, compiled>>,
         NEW q \in Resolving \cup {"compiling"}, pc' = [pc EXCEPT ![t] = q],
         NEW w \in WorkType, w.input = work[t].input, work' = [work EXCEPT ![t] = w],
         ids' \in IdentityType, \A i \in ids'.live : ids'.refCount[i] >= 1,
         undisturbed' \in BOOLEAN,
         ShapeInv(t)' /\ CompilingInv(t)' /\ ResolvingInv(t)'
  PROVE  Inv'
<1>1. mu = t
  BY DEF Inv, LockInv
<1>2. TypeOK'
  BY DEF Inv, TypeOK, States, Resolving
<1>3. \A u \in Threads \ {t} : pc'[u] \notin Resolving \cup {"compiling"}
  BY <1>1 DEF Inv, TypeOK, LockInv
<1>4. pc'[t] = q /\ work'[t] = w
  BY DEF Inv, TypeOK
<1>5. LockInv'
  BY <1>1, <1>3, <1>4 DEF Inv, LockInv
<1>6. \A u \in Threads : ShapeInv(u)' /\ CompilingInv(u)' /\ ResolvingInv(u)'
  BY <1>3, NotCompiling
<1>7. NothingUnpublished' /\ PublishedMatchesStore'
  BY <1>1, <1>4, NoThreadAssumption DEF NothingUnpublished, PublishedMatchesStore, Resolving
<1> QED BY <1>2, <1>5, <1>6, <1>7 DEF Inv

LEMMA CompilePolicyInv ==
  ASSUME Inv, NEW t \in Threads, NEW n \in Names, CompilePolicy(t, n)
  PROVE  Inv'
<1> DEFINE w == work[t]
           v == [w EXCEPT !.todo = @ \ {n}, !.spec = w.input[n], !.dst = {},
                          !.found = Matching(w.input[n].pods)]
<1>1. /\ pc[t] = "compiling" /\ n \in w.todo
      /\ pc' = [pc EXCEPT ![t] = "evaluated"]
      /\ work' = [work EXCEPT ![t] = v]
      /\ UNCHANGED <<policies, mu, podLabels, held, source, compiled, ids, undisturbed>>
  BY DEF CompilePolicy, store, cluster, history
<1>2. w \in WorkType /\ mu = t /\ w.input = policies
  BY <1>1 DEF Inv, TypeOK, LockInv
<1>3. n \in Defined /\ policies[n] \in Specs
  BY <1>1 DEF Inv, TypeOK, ShapeInv, Defined
<1>4. /\ v \in WorkType
      /\ v.input = w.input /\ v.todo = w.todo \ {n} /\ v.spec = policies[n]
      /\ v.dst = {} /\ v.found = Matching(policies[n].pods) /\ v.keys = w.keys
  <2>1. Matching(w.input[n].pods) \in SUBSET Pods
    BY DEF Matching
  <2> QED BY <1>2, <2>1 DEF WorkType
<1> HIDE DEF v
<1>5. pc'[t] = "evaluated" /\ work'[t] = v
  BY <1>1 DEF Inv, TypeOK
<1>6. ShapeInv(t)' /\ CompilingInv(t)'
  BY <1>1, <1>2, <1>3, <1>4, <1>5 DEF Inv, ShapeInv, CompilingInv, Resolving
<1>7. ResolvingInv(t)'
  <2> SUFFICES ASSUME undisturbed'
               PROVE  \E c \in (Defined \ work[t].todo)' : ResolvingPolicy(t, c)'
    BY DEF ResolvingInv
  <2>1. AreCompiled(Defined \ w.todo, w.keys)
    BY <1>1 DEF Inv, CompilingInv
  <2>2. (Defined \ v.todo) \ {n} = Defined \ w.todo
    BY <1>1, <1>4
  <2>3. n \in (Defined \ work[t].todo)'
    BY <1>1, <1>3, <1>4, <1>5, SameCompiled
  <2>4. AreCompiled((Defined \ v.todo) \ {n}, v.keys)
    BY <1>4, <2>1, <2>2
  <2>5. Selector(v) = policies[n].pods
    BY <1>4 DEF Selector
  <2>6. ResolvingPolicy(t, n)'
    BY <1>1, <1>4, <1>5, <2>4, <2>5, SameCompiled, SameResolution DEF ResolvingPolicy
  <2> QED BY <2>3, <2>6
<1>8. "evaluated" \in Resolving \cup {"compiling"} /\ ids' \in IdentityType
      /\ (\A i \in ids'.live : ids'.refCount[i] >= 1) /\ undisturbed' \in BOOLEAN
  BY <1>1 DEF Resolving, Inv, TypeOK
<1> QED BY <1>1, <1>2, <1>4, <1>6, <1>7, <1>8, CompileStepInv DEF Resolving

LEMMA ResolvePeersInv ==
  ASSUME Inv, NEW t \in Threads, ResolvePeers(t)
  PROVE  Inv'
<1> DEFINE w == work[t]
           v == [w EXCEPT !.found = Matching(w.spec.from)]
<1>1. /\ pc[t] = "peers"
      /\ pc' = [pc EXCEPT ![t] = "evaluated"]
      /\ UNCHANGED <<policies, mu, podLabels, held, source, compiled, ids, undisturbed>>
  BY DEF ResolvePeers, store, cluster, history
<1>2. w \in WorkType /\ w.dst # {}
  BY <1>1 DEF Inv, TypeOK, ShapeInv
<1>3. work' = [work EXCEPT ![t] = v]
  BY DEF ResolvePeers
<1>4. /\ v \in WorkType
      /\ v.input = w.input /\ v.todo = w.todo /\ v.spec = w.spec /\ v.dst = w.dst
      /\ v.keys = w.keys /\ v.found = Matching(w.spec.from)
  <2>1. Matching(w.spec.from) \in SUBSET Pods
    BY DEF Matching
  <2> QED BY <1>2, <2>1 DEF WorkType
<1> HIDE DEF v
<1>5. pc'[t] = "evaluated" /\ work'[t] = v
  BY <1>1, <1>3 DEF Inv, TypeOK
<1>6. ShapeInv(t)' /\ CompilingInv(t)'
  BY <1>1, <1>4, <1>5 DEF Inv, ShapeInv, CompilingInv, Resolving
<1>7. ResolvingInv(t)'
  <2> SUFFICES ASSUME undisturbed'
               PROVE  \E c \in (Defined \ work[t].todo)' : ResolvingPolicy(t, c)'
    BY DEF ResolvingInv
  <2>1. PICK c \in Defined \ w.todo : ResolvingPolicy(t, c)
    BY <1>1 DEF Inv, ResolvingInv, Resolving
  <2>2. c \in (Defined \ work[t].todo)'
    BY <1>1, <1>4, <1>5, SameCompiled
  <2>3. Selector(v) = w.spec.from
    BY <1>2, <1>4 DEF Selector
  <2>4. ResolvingPolicy(t, c)'
    BY <1>1, <1>4, <1>5, <2>1, <2>3, SameCompiled, SameResolution DEF ResolvingPolicy
  <2> QED BY <2>2, <2>4
<1>8. /\ "evaluated" \in Resolving \cup {"compiling"} /\ ids' \in IdentityType
      /\ \A i \in ids'.live : ids'.refCount[i] >= 1
      /\ undisturbed' \in BOOLEAN
  BY <1>1 DEF Resolving, Inv, TypeOK
<1> QED BY <1>1, <1>3, <1>4, <1>6, <1>7, <1>8, CompileStepInv DEF Resolving

LEMMA LookUpIdentitiesInv ==
  ASSUME Inv, NEW t \in Threads, LookUpIdentities(t)
  PROVE  Inv'
<1> DEFINE w == work[t]
           ofPod(p) == IF podLabels[p] = Absent THEN {} ELSE podLabels[p]
           g == {IdentityByLabels(ids, ofPod(p)) : p \in w.found} \ {NoID}
           v == [w EXCEPT !.got = g]
<1>1. /\ pc[t] = "evaluated"
      /\ pc' = [pc EXCEPT ![t] = "looked"]
      /\ UNCHANGED <<policies, mu, podLabels, held, source, compiled, ids, undisturbed>>
  BY DEF LookUpIdentities, store, cluster, history
<1>2. w \in WorkType /\ w.found \subseteq Pods
  BY DEF Inv, TypeOK, WorkType
<1>3. work' = [work EXCEPT ![t] = v]
  BY DEF LookUpIdentities
<1>4. g \in SUBSET IDs
  <2>1. \A p \in Pods : ofPod(p) \in Labels
    BY PodLabelsAssumption DEF Inv, TypeOK
  <2>2. \A l \in Labels : ids.hashToID[l] \in IDs \cup {NoID}
    BY DEF Inv, TypeOK, IdentityType
  <2> QED BY <1>2, <2>1, <2>2 DEF IdentityByLabels
<1>5. undisturbed => (w.found = Matching(Selector(w)) => g = Got(Selector(w)))
  BY DEF Matching, Got, IdentityByLabels
<1> HIDE DEF g
<1>6. /\ v \in WorkType
      /\ v.input = w.input /\ v.todo = w.todo /\ v.spec = w.spec /\ v.dst = w.dst
      /\ v.keys = w.keys /\ v.got = g
  BY <1>2, <1>4 DEF WorkType
<1> HIDE DEF v
<1>7. pc'[t] = "looked" /\ work'[t] = v
  BY <1>1, <1>3 DEF Inv, TypeOK
<1>8. ShapeInv(t)' /\ CompilingInv(t)'
  BY <1>1, <1>6, <1>7 DEF Inv, ShapeInv, CompilingInv, Resolving
<1>9. ResolvingInv(t)'
  <2> SUFFICES ASSUME undisturbed'
               PROVE  \E c \in (Defined \ work[t].todo)' : ResolvingPolicy(t, c)'
    BY DEF ResolvingInv
  <2>1. PICK c \in Defined \ w.todo : ResolvingPolicy(t, c)
    BY <1>1 DEF Inv, ResolvingInv, Resolving
  <2>2. c \in (Defined \ work[t].todo)'
    BY <1>1, <1>6, <1>7, SameCompiled
  <2>3. Selector(v) = Selector(w)
    BY <1>6 DEF Selector
  <2>4. g = Got(Selector(w))
    BY <1>1, <1>5, <2>1 DEF ResolvingPolicy
  <2>5. ResolvingPolicy(t, c)'
    BY <1>1, <1>6, <1>7, <2>1, <2>3, <2>4, SameCompiled, SameResolution DEF ResolvingPolicy
  <2> QED BY <2>2, <2>5
<1>10. /\ "looked" \in Resolving \cup {"compiling"} /\ ids' \in IdentityType
       /\ \A i \in ids'.live : ids'.refCount[i] >= 1
       /\ undisturbed' \in BOOLEAN
  BY <1>1 DEF Resolving, Inv, TypeOK
<1> QED BY <1>1, <1>3, <1>6, <1>8, <1>9, <1>10, CompileStepInv DEF Resolving

\* What Resolve leaves for the selector, and for the ones resolved before.
LEMMA ResolveFacts ==
  ASSUME TypeOK, NEW s \in Labels, podLabels' = podLabels,
         ids' = IF Got(s) = {} THEN AfterAllocateIdentity(ids, s) ELSE ids,
         ids'.hashToID = ids.hashToID \/ \A p \in Pods : podLabels[p] # s
  PROVE  /\ Settled(s)'
         /\ ResolvesTo(s)' = IF Got(s) = {} THEN {AllocatedID(ids, s)} ELSE Got(s)
         /\ \A r \in Labels : Settled(r) => Settled(r)' /\ ResolvesTo(r)' = ResolvesTo(r)
         /\ \A spec \in Specs : SettledSpec(spec) =>
              SettledSpec(spec)' /\ CompilesTo(spec)' = CompilesTo(spec)
<1> DEFINE i == AllocatedID(ids, s)
<1>1. /\ Got(s) = {} => i \in IDs /\ ids'.hashToID = [ids.hashToID EXCEPT ![s] = i]
      /\ Got(s) # {} => ids' = ids
  BY AllocateFacts DEF TypeOK
<1>2. i \in IDs => i # NoID
  BY DEF IDs, NoID
<1>3. CASE ids'.hashToID = ids.hashToID
  <2>1. \A spec : SettledSpec(spec)' <=> SettledSpec(spec)
    BY <1>3, SameResolution DEF SettledSpec
  <2>2. Got(s)' = Got(s)
    BY <1>3, SameResolution
  <2>3. CASE Got(s) = {}
    <3>1. ids'.hashToID[s] = i /\ i # NoID
      BY <1>1, <1>2, <2>3 DEF TypeOK, IdentityType
    <3> QED BY <1>3, <2>1, <2>2, <2>3, <3>1, SameResolution DEF Settled, ResolvesTo, Got
  <2>4. CASE Got(s) # {}
    BY <1>3, <2>1, <2>2, <2>4, SameResolution DEF Settled, ResolvesTo, Got
  <2> QED BY <2>3, <2>4
<1>4. CASE ids'.hashToID # ids.hashToID
  <2>1. /\ Got(s) = {} /\ i \in IDs
        /\ ids'.hashToID = [ids.hashToID EXCEPT ![s] = i]
        /\ \A p \in Pods : podLabels[p] # s
    BY <1>1, <1>4
  <2>2. ids.hashToID[s] = NoID
    <3> SUFFICES ASSUME ids.hashToID[s] # NoID PROVE FALSE
      OBVIOUS
    <3>1. i = ids.hashToID[s]
      BY DEF AllocatedID
    <3> QED BY <1>4, <2>1, <3>1 DEF TypeOK, IdentityType
  <2> HIDE DEF i
  <2>3. /\ Got(s)' = {}
        /\ \A r \in Labels : Settled(r) => Settled(r)' /\ ResolvesTo(r)' = ResolvesTo(r)
        /\ \A spec \in Specs : SettledSpec(spec) =>
             SettledSpec(spec)' /\ CompilesTo(spec)' = CompilesTo(spec)
    BY <2>1, <2>2, NewIdentity
  <2>4. ids'.hashToID[s] = i
    BY <2>1 DEF TypeOK, IdentityType
  <2>5. Settled(s)' /\ ResolvesTo(s)' = {i}
    BY <1>2, <2>1, <2>3, <2>4 DEF Settled, ResolvesTo, Got
  <2> QED BY <2>1, <2>3, <2>5 DEF i
<1> QED BY <1>3, <1>4

\* One more policy is compiled.
LEMMA OneMoreCompiled ==
  ASSUME NEW ns, NEW ks, NEW c \in ns, NEW js,
         AreCompiled(ns \ {c}, ks)', SettledSpec(policies[c])',
         js = CompilesTo(policies[c])'
  PROVE  AreCompiled(ns, ks \cup js)'
<1>1. Keys(ns)' = Keys(ns \ {c})' \cup js
  BY DEF Keys
<1> QED BY <1>1 DEF AreCompiled

LEMMA ResolveInv ==
  ASSUME Inv, NEW t \in Threads, Resolve(t)
  PROVE  Inv'
<1> DEFINE w == work[t]
           s == Selector(w)
           resolved == IF w.got = {} THEN {AllocatedID(ids, s)} ELSE w.got
           peersLeft == w.dst = {} /\ w.spec.from \notin {AnyPeer, NoRule}
           q == IF peersLeft THEN "peers" ELSE "compiling"
           v == [w EXCEPT !.found = {}, !.got = {},
                          !.dst = IF peersLeft THEN resolved ELSE {},
                          !.spec = IF peersLeft THEN @ ELSE NoPolicy,
                          !.keys = @ \cup Compiled(w, resolved)]
<1>1. /\ pc[t] = "looked"
      /\ pc' = [pc EXCEPT ![t] = q]
      /\ work' = [work EXCEPT ![t] = v]
      /\ ids' = IF w.got = {} THEN AfterAllocateIdentity(ids, s) ELSE ids
      /\ undisturbed' = (undisturbed /\ (ids'.hashToID = ids.hashToID
                                         \/ \A p \in Pods : podLabels[p] # s))
      /\ UNCHANGED <<policies, mu, podLabels, held, source, compiled>>
  BY DEF Resolve, store, cluster
<1>2. w \in WorkType /\ mu = t
  BY <1>1 DEF Inv, TypeOK, LockInv, Resolving
<1>3. /\ w.spec \in Specs
      /\ w.dst # {} => w.spec.from \notin {AnyPeer, NoRule}
      /\ \A n \in w.todo : policies[n] # NoPolicy
  BY <1>1 DEF Inv, ShapeInv, Resolving
<1>4. /\ w.spec.pods \in Labels /\ w.spec.from \in Labels \cup {AnyPeer, NoRule}
      /\ s \in Labels
  BY <1>3, SpecsAssumption DEF Selector
<1>5. TypeOK /\ ids \in IdentityType /\ \A i \in ids.live : ids.refCount[i] >= 1
  BY DEF Inv, TypeOK
<1>6. /\ AllocatedID(ids, s) \in IDs
      /\ ids' \in IdentityType /\ \A i \in ids'.live : ids'.refCount[i] >= 1
  BY <1>1, <1>4, <1>5, AllocateFacts
<1>7. resolved \in SUBSET IDs /\ resolved # {}
  BY <1>2, <1>6 DEF WorkType
<1>8. Compiled(w, resolved) \in SUBSET (IDs \X IDs)
  <2>1. 0 \in IDs
    BY IDSpaceAssumption DEF IDs
  <2>2. w.dst \in SUBSET IDs
    BY <1>2 DEF WorkType
  <2> QED BY <1>7, <2>1, <2>2 DEF Compiled
<1> HIDE DEF s, resolved
<1>9. /\ v \in WorkType
      /\ v.input = w.input /\ v.todo = w.todo
      /\ v.dst = (IF peersLeft THEN resolved ELSE {})
      /\ v.spec = (IF peersLeft THEN w.spec ELSE NoPolicy)
      /\ v.keys = w.keys \cup Compiled(w, resolved)
  BY <1>2, <1>7, <1>8 DEF WorkType
<1> HIDE DEF v
<1>10. pc'[t] = q /\ work'[t] = v
  BY <1>1 DEF Inv, TypeOK
<1>11. ShapeInv(t)'
  BY <1>1, <1>3, <1>7, <1>9, <1>10 DEF ShapeInv, Resolving
<1>12. ASSUME undisturbed'
       PROVE  CompilingInv(t)' /\ ResolvingInv(t)'
  <2>1. undisturbed
    BY <1>1, <1>12 DEF Inv, TypeOK
  <2>2. PICK c \in Defined \ w.todo : ResolvingPolicy(t, c)
    BY <1>1, <2>1 DEF Inv, ResolvingInv, Resolving
  <2>3. PICK sel, rs, spec, ns, ks, dst :
          /\ sel = s /\ rs = resolved /\ spec = w.spec
          /\ ns = Defined \ w.todo /\ ks = w.keys /\ dst = w.dst
    OBVIOUS
  <2>4. /\ sel \in Labels /\ spec \in Specs /\ ns \in SUBSET Defined /\ c \in ns
        /\ spec = policies[c]
        /\ AreCompiled(ns \ {c}, ks)
        /\ dst # {} => Settled(spec.pods) /\ dst = ResolvesTo(spec.pods)
        /\ w.got = Got(sel)
    BY <1>1, <1>3, <1>4, <2>2, <2>3 DEF ResolvingPolicy, s
  <2>5. /\ Settled(sel)' /\ ResolvesTo(sel)' = rs
        /\ \A r \in Labels : Settled(r) => Settled(r)' /\ ResolvesTo(r)' = ResolvesTo(r)
        /\ \A r \in Specs : SettledSpec(r) => SettledSpec(r)' /\ CompilesTo(r)' = CompilesTo(r)
    <3>1. ids'.hashToID = ids.hashToID \/ \A p \in Pods : podLabels[p] # sel
      BY <1>1, <1>12, <2>3
    <3>2. ids' = IF Got(sel) = {} THEN AfterAllocateIdentity(ids, sel) ELSE ids
      BY <1>1, <2>3, <2>4
    <3>3. rs = IF Got(sel) = {} THEN {AllocatedID(ids, sel)} ELSE Got(sel)
      BY <2>3, <2>4 DEF resolved
    <3> QED BY <1>1, <1>5, <2>4, <3>1, <3>2, <3>3, ResolveFacts
  <2>6. AreCompiled(ns \ {c}, ks)'
    BY <1>1, <1>5, <2>4, <2>5, StillCompiled
  <2>7. Defined' = Defined /\ ns = Defined' \ work'[t].todo
    BY <1>1, <1>9, <1>10, <2>3 DEF Defined
  <2>8. CASE peersLeft
    <3>1. sel = spec.pods /\ v.dst = rs
      BY <1>9, <2>3, <2>8 DEF s, Selector
    <3>2. v.keys = ks
      BY <1>9, <2>3, <2>8 DEF Compiled
    <3>3. CompilingInv(t)'
      BY <1>10, <2>8 DEF CompilingInv
    <3>4. ResolvingPolicy(t, c)'
      BY <1>1, <1>9, <1>10, <2>3, <2>4, <2>5, <2>6, <2>7, <2>8, <3>1, <3>2 DEF ResolvingPolicy
    <3> QED BY <2>4, <2>7, <3>3, <3>4 DEF ResolvingInv
  <2>9. CASE ~peersLeft
    <3>1. PICK js : js = Compiled(w, resolved)
      OBVIOUS
    <3>2. SettledSpec(spec)' /\ js = CompilesTo(spec)'
      <4>1. CASE dst = {}
        <5>1. sel = spec.pods /\ spec.from \in {AnyPeer, NoRule}
          BY <2>3, <2>9, <4>1 DEF s, Selector
        <5>2. SettledSpec(spec)'
          BY <2>5, <5>1 DEF SettledSpec
        <5>3. js = CompilesTo(spec)'
          BY <2>3, <2>5, <3>1, <4>1, <5>1, SpecsAssumption DEF Compiled, CompilesTo
        <5> QED BY <5>2, <5>3
      <4>2. CASE dst # {}
        <5>1. sel = spec.from /\ spec.from \notin {AnyPeer, NoRule}
          BY <1>3, <2>3, <4>2 DEF s, Selector
        <5>2. Settled(spec.pods)' /\ ResolvesTo(spec.pods)' = dst
          BY <1>4, <2>3, <2>4, <2>5, <4>2
        <5>3. SettledSpec(spec)'
          BY <2>5, <5>1, <5>2 DEF SettledSpec
        <5>4. js = CompilesTo(spec)'
          BY <2>3, <2>5, <3>1, <4>2, <5>1, <5>2 DEF Compiled, CompilesTo
        <5> QED BY <5>3, <5>4
      <4> QED BY <4>1, <4>2
    <3>3. SettledSpec(policies[c])' /\ js = CompilesTo(policies[c])'
      BY <1>1, <2>4, <3>2
    <3>4. AreCompiled(ns, ks \cup js)'
      BY <2>4, <2>6, <3>3, OneMoreCompiled
    <3>5. ResolvingInv(t)'
      BY <1>10, <2>9 DEF ResolvingInv, Resolving
    <3>6. v.keys = ks \cup js
      BY <1>9, <2>3, <3>1
    <3>7. CompilingInv(t)'
      BY <1>10, <2>7, <3>4, <3>6 DEF CompilingInv
    <3> QED BY <3>5, <3>7
  <2> QED BY <2>8, <2>9
<1>13. CompilingInv(t)' /\ ResolvingInv(t)'
  BY <1>12 DEF CompilingInv, ResolvingInv
<1>14. q \in Resolving \cup {"compiling"} /\ undisturbed' \in BOOLEAN
  BY <1>1 DEF Resolving
<1>15. pc[t] \in Resolving \cup {"compiling"}
  BY <1>1 DEF Resolving
<1> HIDE DEF q
<1> QED BY <1>1, <1>6, <1>9, <1>11, <1>13, <1>14, <1>15, CompileStepInv

LEMMA PublishInv ==
  ASSUME Inv, NEW t \in Threads, Publish(t)
  PROVE  Inv'
<1>1. /\ pc[t] = "compiling" /\ work[t].todo = {}
      /\ compiled' = work[t].keys
      /\ source' = work[t].input
      /\ mu' = NoThread
      /\ pc' = [pc EXCEPT ![t] = "idle"]
      /\ work' = [work EXCEPT ![t] = NoWork]
      /\ UNCHANGED <<policies, podLabels, held, ids, undisturbed>>
  BY DEF Publish, cluster
<1>2. mu = t /\ work[t].input = policies
  BY <1>1 DEF Inv, LockInv
<1>3. TypeOK'
  <2>1. NoWork \in WorkType
    BY DEF NoWork, WorkType, NoPolicies
  <2> QED BY <1>1, <2>1 DEF Inv, TypeOK, States
<1>4. \A u \in Threads : pc'[u] \notin Resolving \cup {"compiling"} /\ mu' # u
  BY <1>1, <1>2, NoThreadAssumption DEF Inv, TypeOK, LockInv, Resolving
<1>5. LockInv' /\ \A u \in Threads : ShapeInv(u)' /\ CompilingInv(u)' /\ ResolvingInv(u)'
  BY <1>4, NotCompiling DEF LockInv
<1>6. NothingUnpublished'
  BY <1>1, <1>2 DEF NothingUnpublished
<1>7. PublishedMatchesStore'
  <2>1. undisturbed => compiled' = Keys(Defined)
    <3>1. Defined \ work[t].todo = Defined
      BY <1>1
    <3> QED BY <1>1, <3>1 DEF Inv, CompilingInv, AreCompiled
  <2>2. undisturbed => compiled' = Keys(Defined)'
    BY <1>1, <2>1, SameCompiled
  <2>3. Defined' = Defined
    BY <1>1 DEF Defined
  <2> QED BY <1>1, <2>2, <2>3 DEF PublishedMatchesStore, Keys, Defined
<1> QED BY <1>3, <1>5, <1>6, <1>7 DEF Inv

\* A step that leaves the store and its callers' locals alone, and pods and
\* their identities too unless undisturbed is cleared.
LEMMA OutsideInv ==
  ASSUME Inv, UNCHANGED <<policies, mu, work, source, compiled>>,
         pc' = pc \/ \E t \in Threads : pc[t] = "idle" /\ pc' = [pc EXCEPT ![t] = "changed"],
         podLabels' \in [Pods -> PodLabels \cup {Absent}],
         ids' \in IdentityType, \A i \in ids'.live : ids'.refCount[i] >= 1,
         held' \in [Pods -> IDs \cup {NoID}],
         undisturbed' \in BOOLEAN,
         undisturbed' => /\ undisturbed
                         /\ podLabels' = podLabels
                         /\ ids'.hashToID = ids.hashToID
  PROVE  Inv'
<1>1. TypeOK'
  BY DEF Inv, TypeOK, States
<1>2. /\ \A t \in Threads : pc[t] \in Resolving \cup {"compiling"}
                            <=> pc'[t] \in Resolving \cup {"compiling"}
      /\ \A t \in Threads : pc[t] \in Resolving \cup {"compiling"} => pc'[t] = pc[t]
      /\ \A t \in Threads : pc'[t] = "idle" => pc[t] = "idle"
  BY DEF Inv, TypeOK, Resolving
<1>3. LockInv'
  BY <1>2 DEF Inv, LockInv
<1>4. \A t \in Threads : ShapeInv(t)' /\ CompilingInv(t)' /\ ResolvingInv(t)'
  <2> TAKE t \in Threads
  <2>1. CASE pc[t] \in Resolving \cup {"compiling"}
    BY <1>2, <2>1, Bystander DEF Inv
  <2>2. CASE pc[t] \notin Resolving \cup {"compiling"}
    BY <1>2, <2>2, NotCompiling
  <2> QED BY <2>1, <2>2
<1>5. NothingUnpublished'
  BY <1>2 DEF Inv, NothingUnpublished
<1>6. PublishedMatchesStore'
  BY SameResolution DEF Inv, PublishedMatchesStore
<1> QED BY <1>1, <1>3, <1>4, <1>5, <1>6 DEF Inv

LEMMA NextInv == Inv /\ [Next]_vars => Inv'
<1> SUFFICES ASSUME Inv, [Next]_vars PROVE Inv'
  OBVIOUS
<1>1. /\ podLabels \in [Pods -> PodLabels \cup {Absent}]
      /\ ids \in IdentityType /\ \A i \in ids.live : ids.refCount[i] >= 1
      /\ held \in [Pods -> IDs \cup {NoID}]
      /\ undisturbed \in BOOLEAN
  BY DEF Inv, TypeOK
<1>2. ASSUME NEW t \in Threads, NEW n \in Names, NEW spec \in Specs, AddPolicy(t, n, spec)
      PROVE  Inv'
  BY <1>2, ChangeInv DEF AddPolicy, cluster
<1>3. ASSUME NEW t \in Threads, NEW n \in Names, RemovePolicy(t, n)
      PROVE  Inv'
  BY <1>3, ChangeInv DEF RemovePolicy, cluster
<1>4. ASSUME NEW t \in Threads, CallRecompile(t)
      PROVE  Inv'
  BY <1>1, <1>4, OutsideInv DEF CallRecompile, MayCall, store, cluster, history
<1>5. ASSUME NEW t \in Threads, Compile(t)
      PROVE  Inv'
  BY <1>5, CompilePolicyInv, ResolvePeersInv, LookUpIdentitiesInv, ResolveInv, PublishInv
     DEF Compile
<1>6. CASE SetOnChangeCallback \/ CallbackReads
  BY <1>1, <1>6, OutsideInv DEF SetOnChangeCallback, CallbackReads, cluster, history
<1>7. ASSUME NEW p \in Pods, NEW l \in PodLabels, AddPod(p, l)
      PROVE  Inv'
  BY <1>1, <1>7, OutsideInv DEF AddPod, store
<1>8. ASSUME NEW p \in Pods, NEW l \in PodLabels, AllocateIdentity(p, l)
      PROVE  Inv'
  <2>1. /\ ids' = AfterAllocateIdentity(ids, l)
        /\ held' = [held EXCEPT ![p] = AllocatedID(ids, l)]
        /\ undisturbed' = (undisturbed /\ ids'.hashToID = ids.hashToID)
        /\ UNCHANGED <<policies, mu, work, source, compiled, pc, podLabels>>
    BY <1>8 DEF AllocateIdentity, store
  <2>2. l \in Labels
    BY PodLabelsAssumption
  <2>3. /\ ids' \in IdentityType /\ \A i \in ids'.live : ids'.refCount[i] >= 1
        /\ AllocatedID(ids, l) \in IDs
    BY <1>1, <2>1, <2>2, AllocateFacts
  <2>4. held' \in [Pods -> IDs \cup {NoID}]
    BY <1>1, <2>1, <2>3
  <2> QED BY <1>1, <2>1, <2>3, <2>4, OutsideInv
<1>9. ASSUME NEW p \in Pods, ReleaseIdentity(p)
      PROVE  Inv'
  <2>1. /\ held[p] # NoID
        /\ ids' = AfterReleaseIdentity(ids, held[p])
        /\ held' = [held EXCEPT ![p] = NoID]
        /\ undisturbed' = (undisturbed /\ ids'.hashToID = ids.hashToID)
        /\ UNCHANGED <<policies, mu, work, source, compiled, pc, podLabels>>
    BY <1>9 DEF ReleaseIdentity, store
  <2>2. held[p] \in IDs
    BY <1>1, <2>1
  <2>3. ids' \in IdentityType /\ \A i \in ids'.live : ids'.refCount[i] >= 1
    BY <1>1, <2>1, <2>2, ReleaseFacts
  <2>4. held' \in [Pods -> IDs \cup {NoID}]
    BY <1>1, <2>1
  <2> QED BY <1>1, <2>1, <2>3, <2>4, OutsideInv
<1>10. ASSUME NEW p \in Pods, RemovePod(p)
       PROVE  Inv'
  BY <1>1, <1>10, OutsideInv DEF RemovePod, store
<1>11. CASE UNCHANGED vars
  BY <1>1, <1>11, OutsideInv DEF vars, store, cluster, history
<1> QED
  BY <1>2, <1>3, <1>4, <1>5, <1>6, <1>7, <1>8, <1>9, <1>10, <1>11, RecompileLockInv DEF Next

\* The lock, the compiler's locals and what is published fit together in every
\* reachable state, however callers, pods and identities interleave.
THEOREM StoreInvariant == Spec => []Inv
<1>1. Init => Inv
  BY InitInv
<1>2. Inv /\ [Next]_vars => Inv'
  BY NextInv
<1> QED BY <1>1, <1>2, PTL DEF Spec

\* Once every AddPolicy, RemovePolicy and Recompile has returned, what is
\* published was compiled from the policies in the store, although the map is
\* changed and compiled in two critical sections.
THEOREM NothingStaysUnpublished == Spec => []NothingUnpublished
<1>1. Inv => NothingUnpublished
  BY DEF Inv
<1> QED BY <1>1, StoreInvariant, PTL

\* A Recompile that no change of policies, pods or identities overlapped
\* publishes exactly the rules of the policies, for any policies, pods and
\* labels, in any order of the policies, also when it allocates identities for
\* selectors while it compiles and when nextID wraps.
THEOREM PublishedIsExact == Spec => []PublishedMatchesStore
<1>1. Inv => PublishedMatchesStore
  BY DEF Inv
<1> QED BY <1>1, StoreInvariant, PTL
==============================================================================
