----------------------------- MODULE PolicyStore -----------------------------
(***************************************************************************)
(* policy.PolicyStore (pkg/policy/policy_store.go) with several callers,   *)
(* and the compiler it drives (compiler.go) beside pods and identities that*)
(* come and go.  AddPolicy and RemovePolicy change the map in one critical *)
(* section of s.mu and recompile in a second one.  Recompile keeps s.mu,   *)
(* but the selector cache and the identity allocator have locks of their   *)
(* own: resolving one selector takes them three times.                     *)
(*                                                                         *)
(* A label set is a set of key=value pairs, of a pod or of a selector; it  *)
(* stands for its hash.  EvaluateSelector is one step (its own steps are in*)
(* SelectorCache), and so are the identity lookups of the pods a selector  *)
(* matched.  A compiled policy is the set of its keys <<src, dst>>: all    *)
(* rules are tenants' and allow; ports, priority and the merge are in      *)
(* PolicyMap.  The agent passes no platform rules.                         *)
(*                                                                         *)
(* Of CompilePolicy a spec has at most one ingress rule with at most one   *)
(* peer, a selector.  More rules and peers, and the egress loop (compiler  *)
(* .go:146-169), would repeat the steps of that peer and are left out.     *)
(***************************************************************************)
EXTENDS IdentityAllocator, FiniteSets

CONSTANTS Threads,       \* callers of the store
          Names,         \* "namespace/name"
          Specs,         \* [pods : Selectors, from : Selectors or AnyPeer or NoRule]
          AnyPeer,       \* an ingress rule without peers
          NoRule,        \* no ingress rule
          NoPolicy,      \* policies[n] when there is none
          Pods,          \* Labels: the label sets of pods and selectors, and {}
          PodLabels,     \* label sets pods may have
          Absent,        \* labels of a pod that is not known
          NoThread,
          MaxVersion,    \* bound on version
          MaxSteps       \* bound on the changes of pods and their identities

ASSUME SpecsAssumption ==
  /\ Specs \subseteq [pods : Labels, from : Labels \cup {AnyPeer, NoRule}]
  /\ NoPolicy \notin Specs
  /\ AnyPeer # NoRule
ASSUME PodLabelsAssumption ==
  /\ PodLabels \cup {{}} \subseteq Labels
  /\ Absent \notin PodLabels
ASSUME NoThreadAssumption == NoThread \notin Threads

VARIABLES policies,      \* s.policies
          compiled,      \* keys of s.compiled
          version,       \* s.version
          onChange,      \* a callback is set
          mu,            \* who holds s.mu for writing
          pc,            \* pc[t]: see States
          work,          \* work[t]: locals of Recompile, see NoWork
          callbacks,     \* goroutines running onChange that have not read yet
          podLabels,     \* the selector cache
          ids,           \* the IdentityAllocator
          held,          \* held[p]: identity taken for pod p, or NoID
          steps,         \* changes of pods and their identities
          source,        \* history: the policies compiled was made from
          undisturbed,   \* history: nothing it depends on changed since mu was taken
          due,           \* history: last version published with a callback
          seen           \* history: newest version a callback has read

store == <<policies, compiled, version, onChange, mu, callbacks>>
cluster == <<podLabels, held, steps>>
history == <<source, undisturbed, due, seen>>
vars == <<store, pc, work, cluster, ids, history>>

States == {"idle", "changed", "compiling", "evaluated", "looked", "peers"}

NoPolicies == [n \in Names |-> NoPolicy]

\* input: the policies Recompile ranges over; todo: those not compiled yet;
\* spec: the one being compiled; dst: its pods' identities, once resolved;
\* found, got: pods and identities of the selector being resolved; keys: what
\* is compiled so far.
NoWork == [input |-> NoPolicies, todo |-> {}, spec |-> NoPolicy, dst |-> {},
           found |-> {}, got |-> {}, keys |-> {}]

Matching(s) == {p \in Pods : podLabels[p] # Absent /\ s \subseteq podLabels[p]}

Init ==
  /\ policies = NoPolicies
  /\ compiled = {}
  /\ version = 1
  /\ onChange = FALSE
  /\ mu = NoThread
  /\ pc = [t \in Threads |-> "idle"]
  /\ work = [t \in Threads |-> NoWork]
  /\ callbacks = 0
  /\ podLabels = [p \in Pods |-> Absent]
  /\ ids = NewIdentityAllocator
  /\ held = [p \in Pods |-> NoID]
  /\ steps = 0
  /\ source = NoPolicies
  /\ undisturbed = TRUE
  /\ due = 1 /\ seen = 1

-----------------------------------------------------------------------------
(* AddPolicy, RemovePolicy, Recompile, SetOnChangeCallback.                *)

\* Room for the versions of the calls under way and of one more.
MayCall(t) ==
  /\ pc[t] = "idle"
  /\ version + Cardinality({u \in Threads : pc[u] # "idle"}) < MaxVersion

\* The first critical section.
AddPolicy(t, n, spec) ==
  /\ MayCall(t) /\ mu = NoThread
  /\ policies' = [policies EXCEPT ![n] = spec]
  /\ pc' = [pc EXCEPT ![t] = "changed"]
  /\ undisturbed' = FALSE
  /\ UNCHANGED <<compiled, version, onChange, mu, callbacks, work, cluster, ids, source, due, seen>>

\* A policy that is not there is an error, and nothing happens.
RemovePolicy(t, n) ==
  /\ MayCall(t) /\ mu = NoThread /\ policies[n] # NoPolicy
  /\ policies' = [policies EXCEPT ![n] = NoPolicy]
  /\ pc' = [pc EXCEPT ![t] = "changed"]
  /\ undisturbed' = FALSE
  /\ UNCHANGED <<compiled, version, onChange, mu, callbacks, work, cluster, ids, source, due, seen>>

CallRecompile(t) ==
  /\ MayCall(t)
  /\ pc' = [pc EXCEPT ![t] = "changed"]
  /\ UNCHANGED <<store, work, cluster, ids, history>>

SetOnChangeCallback ==
  /\ mu = NoThread /\ ~onChange
  /\ onChange' = TRUE
  /\ UNCHANGED <<policies, compiled, version, mu, callbacks, pc, work, cluster, ids, history>>

\* Bug: compiles a copy of the map, and takes the lock only to publish.
RecompileLock_Copies(t) ==
  /\ pc[t] = "changed" /\ mu = NoThread
  /\ pc' = [pc EXCEPT ![t] = "compiling"]
  /\ work' = [work EXCEPT ![t] = [NoWork EXCEPT
       !.input = policies, !.todo = {n \in Names : policies[n] # NoPolicy}]]
  /\ undisturbed' = TRUE
  /\ UNCHANGED <<policies, compiled, version, onChange, mu, callbacks, cluster, ids, source, due, seen>>

\* Recompile: lock; range s.policies.
RecompileLock(t) ==
  /\ pc[t] = "changed" /\ mu = NoThread
  /\ mu' = t
  /\ pc' = [pc EXCEPT ![t] = "compiling"]
  /\ work' = [work EXCEPT ![t] = [NoWork EXCEPT
       !.input = policies, !.todo = {n \in Names : policies[n] # NoPolicy}]]
  /\ undisturbed' = TRUE
  /\ UNCHANGED <<policies, compiled, version, onChange, callbacks, cluster, ids, source, due, seen>>

-----------------------------------------------------------------------------
(* CompilePolicy, and resolveSelectorToIdentities for each of its selectors.*)

\* The next policy, in map iteration order: EvaluateSelector(spec.PodSelector).
CompilePolicy(t, n) ==
  /\ pc[t] = "compiling" /\ n \in work[t].todo
  /\ pc' = [pc EXCEPT ![t] = "evaluated"]
  /\ work' = [work EXCEPT ![t] = [work[t] EXCEPT
       !.todo = @ \ {n}, !.spec = work[t].input[n], !.dst = {},
       !.found = Matching(work[t].input[n].pods)]]
  /\ UNCHANGED <<store, cluster, ids, history>>

\* resolvePeers: EvaluateSelector(peer.PodSelector).
ResolvePeers(t) ==
  /\ pc[t] = "peers"
  /\ pc' = [pc EXCEPT ![t] = "evaluated"]
  /\ work' = [work EXCEPT ![t].found = Matching(work[t].spec.from)]
  /\ UNCHANGED <<store, cluster, ids, history>>

\* A second critical section of the cache: the identities of the labels the
\* pods have now.  A pod that is gone has a nil map, the empty label set.
LookUpIdentities(t) ==
  /\ pc[t] = "evaluated"
  /\ pc' = [pc EXCEPT ![t] = "looked"]
  /\ work' = [work EXCEPT ![t].got =
       {IdentityByLabels(ids, IF podLabels[p] = Absent THEN {} ELSE podLabels[p]) :
          p \in work[t].found} \ {NoID}]
  /\ UNCHANGED <<store, cluster, ids, history>>

\* The selector being resolved; resolved pods are never an empty set.
Selector(w) == IF w.dst = {} THEN w.spec.pods ELSE w.spec.from

\* The loops over pods and peers, when the last selector is resolved.
Compiled(w, resolved) ==
  IF w.dst # {} THEN resolved \X w.dst
  ELSE IF w.spec.from = AnyPeer THEN {0} \X resolved ELSE {}

\* Bug: a selector whose pods have no identity yet resolves to nothing.
Resolve_IfNoPods(t) ==
  /\ pc[t] = "looked"
  /\ LET w == work[t]
         s == Selector(w)
         resolved == IF w.found = {} THEN {AllocatedID(ids, s)} ELSE w.got
         peersLeft == w.dst = {} /\ w.spec.from \notin {AnyPeer, NoRule}
     IN  /\ ids' = IF w.found = {} THEN AfterAllocateIdentity(ids, s) ELSE ids
         /\ undisturbed' = (undisturbed /\ (ids'.hashToID = ids.hashToID
                                            \/ \A p \in Pods : podLabels[p] # s))
         /\ pc' = [pc EXCEPT ![t] = IF peersLeft THEN "peers" ELSE "compiling"]
         /\ work' = [work EXCEPT
              ![t] = [w EXCEPT !.found = {}, !.got = {},
                               !.dst = IF peersLeft THEN resolved ELSE {},
                               !.spec = IF peersLeft THEN @ ELSE NoPolicy,
                               !.keys = @ \cup Compiled(w, resolved)]]
  /\ UNCHANGED <<store, cluster, source, due, seen>>

\* No identity found: one is allocated for the selector, and never released.
\* Then go on with the peers, or with the next policy.
Resolve(t) ==
  /\ pc[t] = "looked"
  /\ LET w == work[t]
         s == Selector(w)
         resolved == IF w.got = {} THEN {AllocatedID(ids, s)} ELSE w.got
         peersLeft == w.dst = {} /\ w.spec.from \notin {AnyPeer, NoRule}
     IN  /\ ids' = IF w.got = {} THEN AfterAllocateIdentity(ids, s) ELSE ids
         /\ undisturbed' = (undisturbed /\ (ids'.hashToID = ids.hashToID
                                            \/ \A p \in Pods : podLabels[p] # s))
         /\ pc' = [pc EXCEPT ![t] = IF peersLeft THEN "peers" ELSE "compiling"]
         /\ work' = [work EXCEPT
              ![t] = [w EXCEPT !.found = {}, !.got = {},
                               !.dst = IF peersLeft THEN resolved ELSE {},
                               !.spec = IF peersLeft THEN @ ELSE NoPolicy,
                               !.keys = @ \cup Compiled(w, resolved)]]
  /\ UNCHANGED <<store, cluster, source, due, seen>>

\* Bug: the callback runs before the lock is given back, and waits for it.
Publish_CallsBack(t) ==
  /\ pc[t] = "compiling" /\ work[t].todo = {}
  /\ compiled' = work[t].keys
  /\ version' = version + 1
  /\ source' = work[t].input
  /\ mu' = IF onChange THEN t ELSE NoThread
  /\ pc' = [pc EXCEPT ![t] = "idle"]
  /\ work' = [work EXCEPT ![t] = NoWork]
  /\ callbacks' = IF onChange THEN callbacks + 1 ELSE callbacks
  /\ due' = IF onChange THEN version + 1 ELSE due
  /\ UNCHANGED <<policies, onChange, cluster, ids, undisturbed, seen>>

\* Merge, publish, start the callback's goroutine, unlock.
Publish(t) ==
  /\ pc[t] = "compiling" /\ work[t].todo = {}
  /\ compiled' = work[t].keys
  /\ version' = version + 1
  /\ source' = work[t].input
  /\ mu' = NoThread
  /\ pc' = [pc EXCEPT ![t] = "idle"]
  /\ work' = [work EXCEPT ![t] = NoWork]
  /\ callbacks' = IF onChange THEN callbacks + 1 ELSE callbacks
  /\ due' = IF onChange THEN version + 1 ELSE due
  /\ UNCHANGED <<policies, onChange, cluster, ids, undisturbed, seen>>

\* A callback reads the store (GetCompiledPolicy, GetVersion) under the read lock.
CallbackReads ==
  /\ callbacks > 0 /\ mu = NoThread
  /\ callbacks' = callbacks - 1
  /\ seen' = version
  /\ UNCHANGED <<policies, compiled, version, onChange, mu, pc, work, cluster, ids, source, undisturbed, due>>

-----------------------------------------------------------------------------
(* Pods and their identities.  Nobody recompiles when they change.         *)

MayChange == steps < MaxSteps /\ steps' = steps + 1

AddPod(p, l) ==
  /\ MayChange
  /\ podLabels[p] # l
  /\ podLabels' = [podLabels EXCEPT ![p] = l]
  /\ undisturbed' = FALSE
  /\ UNCHANGED <<store, pc, work, held, ids, source, due, seen>>

RemovePod(p) ==
  /\ MayChange
  /\ podLabels[p] # Absent
  /\ podLabels' = [podLabels EXCEPT ![p] = Absent]
  /\ undisturbed' = FALSE
  /\ UNCHANGED <<store, pc, work, held, ids, source, due, seen>>

AllocateIdentity(p, l) ==
  /\ MayChange
  /\ held[p] = NoID /\ podLabels[p] = l
  /\ ids' = AfterAllocateIdentity(ids, l)
  /\ held' = [held EXCEPT ![p] = AllocatedID(ids, l)]
  /\ undisturbed' = (undisturbed /\ ids'.hashToID = ids.hashToID)
  /\ UNCHANGED <<store, pc, work, podLabels, source, due, seen>>

ReleaseIdentity(p) ==
  /\ MayChange
  /\ held[p] # NoID
  /\ ids' = AfterReleaseIdentity(ids, held[p])
  /\ held' = [held EXCEPT ![p] = NoID]
  /\ undisturbed' = (undisturbed /\ ids'.hashToID = ids.hashToID)
  /\ UNCHANGED <<store, pc, work, podLabels, source, due, seen>>

-----------------------------------------------------------------------------

Compile(t) ==
  \/ \E n \in Names : CompilePolicy(t, n)
  \/ ResolvePeers(t) \/ LookUpIdentities(t) \/ Resolve(t) \/ Publish(t)

Next ==
  \/ \E t \in Threads :
       \/ \E n \in Names, spec \in Specs : AddPolicy(t, n, spec)
       \/ \E n \in Names : RemovePolicy(t, n)
       \/ CallRecompile(t) \/ RecompileLock(t) \/ Compile(t)
  \/ SetOnChangeCallback \/ CallbackReads
  \/ \E p \in Pods, l \in PodLabels : AddPod(p, l) \/ AllocateIdentity(p, l)
  \/ \E p \in Pods : RemovePod(p) \/ ReleaseIdentity(p)

\* A goroutine that holds s.mu goes on; a waiting RWMutex writer stops new
\* readers and readers that wait are let in by the next unlock, so nobody waits
\* for s.mu forever.  Nothing is assumed of the callers.
Fairness ==
  /\ \A t \in Threads : SF_vars(RecompileLock(t)) /\ WF_vars(Compile(t))
  /\ SF_vars(CallbackReads)

Spec == Init /\ [][Next]_vars /\ Fairness

-----------------------------------------------------------------------------
(* Properties.                                                             *)

\* Two callers change the map and compile in any order, and the compiled policy
\* never ends up older than the map: once every AddPolicy and RemovePolicy has
\* returned, what is published was compiled from the policies in the store.
NothingUnpublished == (\A t \in Threads : pc[t] = "idle") => source = policies

\* What a selector resolves to, and what the policies compile to, if nothing
\* else happens meanwhile.
ResolvesTo(s) ==
  LET got == {ids.hashToID[podLabels[p]] : p \in Matching(s)} \ {NoID}
  IN  IF got = {} THEN {ids.hashToID[s]} ELSE got

CompilesTo(spec) ==
  IF spec.from = NoRule THEN {}
  ELSE (IF spec.from = AnyPeer THEN {0} ELSE ResolvesTo(spec.from)) \X ResolvesTo(spec.pods)

\* A Recompile that no change of policies, pods or identities overlapped has
\* published exactly the rules of the policies for the pods there are, whatever
\* the order of the policies and whatever earlier compilations left behind.
PublishedMatchesStore ==
  (mu = NoThread /\ undisturbed) =>
    compiled = UNION {CompilesTo(policies[n]) : n \in {m \in Names : policies[m] # NoPolicy}}

\* Every version published while a callback is set is read by a callback, or a
\* newer one is, however callers and callbacks interleave: the goroutine never
\* waits for a lock whose holder waits for the callback.
ChangesAreAnnounced == []<>(seen >= due)
==============================================================================
