---------------------------- MODULE SelectorCache ----------------------------
(***************************************************************************)
(* policy.SelectorCache (pkg/policy/selector_cache.go), used by several    *)
(* goroutines at once.  A label set is a set of key=value pairs; the hash  *)
(* of a label set stands for the set.                                      *)
(*                                                                         *)
(* EvaluateSelector hands a cached map to copyMap after it has given the   *)
(* read lock back, so the copy runs key by key beside writers: AddPod's    *)
(* removal and insertion, one critical section, are two steps here.        *)
(*                                                                         *)
(* Its reader, Compiler.resolveSelectorToIdentities, is in PolicyStore.    *)
(***************************************************************************)
EXTENDS Integers, FiniteSets

CONSTANTS Threads, Pods,
          LabelSets,     \* label sets pods may have
          Selectors,     \* label sets used as selectors
          Absent,        \* no labels: the pod is not known
          NotCached      \* no map for the selector

ASSUME AbsentAssumption == Absent \notin LabelSets \cup Threads
ASSUME NotCachedAssumption == \A m \in SUBSET Pods : m # NotCached

VARIABLES podLabels,     \* podLabels[p]
          podsByLabels,  \* podsByLabels[l]: pods with exactly these labels
          specs,         \* keys of selectorSpecs
          results,       \* selectorResults[s]
          writer,        \* thread inside AddPod, between its two steps
          pc,            \* where thread t is
          arg,           \* arg[t]: [sel, pod, labels]
          detached,      \* detached[t]: the map t copies, once invalidated
          visited,       \* visited[t]: keys copyMap has passed
          copy,          \* copy[t]: what EvaluateSelector returns
          ever           \* history: ever[t].some, ever[t].all: pods that matched
                         \* at some, at every moment of t's EvaluateSelector;
                         \* ever[t].touched: pods that AddPod wrote while t copied

cache == <<podLabels, podsByLabels, specs, results>>
locals == <<arg, detached, visited, copy>>
vars == <<cache, writer, pc, locals, ever>>

NoHistory == [some |-> {}, all |-> {}, touched |-> {}]

NoArg == [sel |-> {}, pod |-> Absent, labels |-> {}]

\* Everything of the selector; an empty selector matches all.
MatchesSelector(labels, selector) == selector \subseteq labels

Matching(s) == {p \in Pods : podLabels[p] # Absent /\ MatchesSelector(podLabels[p], s)}

Init ==
  /\ podLabels = [p \in Pods |-> Absent]
  /\ podsByLabels = [l \in LabelSets |-> {}]
  /\ specs = {}
  /\ results = [s \in Selectors |-> NotCached]
  /\ writer = Absent
  /\ pc = [t \in Threads |-> "idle"]
  /\ arg = [t \in Threads |-> NoArg]
  /\ detached = [t \in Threads |-> NotCached]
  /\ visited = [t \in Threads |-> {}]
  /\ copy = [t \in Threads |-> {}]
  /\ ever = [t \in Threads |-> NoHistory]

Unlocked == writer = Absent

\* History of the evaluations under way, after a change of the pods.
Witness ==
  ever' = [t \in Threads |->
    LET now == {p \in Pods : podLabels'[p] # Absent
                             /\ MatchesSelector(podLabels'[p], arg[t].sel)}
    IN  IF pc[t] \in {"copying", "missed"}
        THEN [ever[t] EXCEPT !.some = @ \cup now, !.all = @ \cap now]
        ELSE ever[t]]

-----------------------------------------------------------------------------
(* Writers.                                                                *)

\* Bug: the cached results keep the pod.
RemovePodInternal_KeepsResults(p) ==
  /\ podLabels' = [podLabels EXCEPT ![p] = Absent]
  /\ podsByLabels' = [l \in LabelSets |-> podsByLabels[l] \ {p}]
  /\ UNCHANGED <<specs, results>>

\* removePodInternal.
RemovePodInternal(p) ==
  /\ podLabels' = [podLabels EXCEPT ![p] = Absent]
  /\ podsByLabels' = [l \in LabelSets |->
       IF l = podLabels[p] THEN podsByLabels[l] \ {p} ELSE podsByLabels[l]]
  /\ results' = [s \in Selectors |->
       IF podLabels[p] = Absent \/ results[s] = NotCached THEN results[s]
       ELSE results[s] \ {p}]
  /\ UNCHANGED specs

\* AddPod: lock, drop what is known of the pod.
AddPodRemove(t, p, l) ==
  /\ pc[t] = "idle" /\ Unlocked
  /\ writer' = t
  /\ pc' = [pc EXCEPT ![t] = "adding"]
  /\ arg' = [arg EXCEPT ![t] = [sel |-> {}, pod |-> p, labels |-> l]]
  /\ RemovePodInternal(p)
  /\ ever' = [u \in Threads |->
       IF pc[u] = "copying" THEN [ever[u] EXCEPT !.touched = @ \cup {p}] ELSE ever[u]]
  /\ UNCHANGED <<detached, visited, copy>>

\* Bug: the cached results are not brought up to date.
AddPodInsert_NoUpdate(t) ==
  /\ pc[t] = "adding"
  /\ podLabels' = [podLabels EXCEPT ![arg[t].pod] = arg[t].labels]
  /\ podsByLabels' = [podsByLabels EXCEPT ![arg[t].labels] = @ \cup {arg[t].pod}]
  /\ writer' = Absent
  /\ pc' = [pc EXCEPT ![t] = "idle"]
  /\ arg' = [arg EXCEPT ![t] = NoArg]
  /\ Witness
  /\ UNCHANGED <<specs, results, detached, visited, copy>>

\* AddPod: record the labels, add the pod to the selectors it matches, unlock.
AddPodInsert(t) ==
  /\ pc[t] = "adding"
  /\ LET p == arg[t].pod
         l == arg[t].labels
     IN  /\ podLabels' = [podLabels EXCEPT ![p] = l]
         /\ podsByLabels' = [podsByLabels EXCEPT ![l] = @ \cup {p}]
         /\ results' = [s \in Selectors |->
              IF s \in specs /\ MatchesSelector(l, s)
              THEN (IF results[s] = NotCached THEN {} ELSE results[s]) \cup {p}
              ELSE results[s]]
  /\ writer' = Absent
  /\ pc' = [pc EXCEPT ![t] = "idle"]
  /\ arg' = [arg EXCEPT ![t] = NoArg]
  /\ Witness
  /\ UNCHANGED <<specs, detached, visited, copy>>

RemovePod(t, p) ==
  /\ pc[t] = "idle" /\ Unlocked
  /\ RemovePodInternal(p)
  /\ Witness
  /\ UNCHANGED <<writer, pc, locals>>

\* Bug: the selector stays in selectorSpecs.
InvalidateSelector_KeepsSpec(t, s) ==
  /\ pc[t] = "idle" /\ Unlocked
  /\ results' = [results EXCEPT ![s] = NotCached]
  /\ detached' = [u \in Threads |->
       IF pc[u] = "copying" /\ arg[u].sel = s /\ detached[u] = NotCached
       THEN results[s] ELSE detached[u]]
  /\ UNCHANGED <<podLabels, podsByLabels, specs, writer, pc, arg, visited, copy, ever>>

\* Whoever copies the map goes on copying it; nobody updates it any more.
InvalidateSelector(t, s) ==
  /\ pc[t] = "idle" /\ Unlocked
  /\ results' = [results EXCEPT ![s] = NotCached]
  /\ specs' = specs \ {s}
  /\ detached' = [u \in Threads |->
       IF pc[u] = "copying" /\ arg[u].sel = s /\ detached[u] = NotCached
       THEN results[s] ELSE detached[u]]
  /\ UNCHANGED <<podLabels, podsByLabels, writer, pc, arg, visited, copy, ever>>

-----------------------------------------------------------------------------
(* EvaluateSelector.                                                       *)

\* Under the read lock: is there a map?
EvaluateLookup(t, s) ==
  /\ pc[t] = "idle" /\ Unlocked
  /\ pc' = [pc EXCEPT ![t] = IF results[s] = NotCached THEN "missed" ELSE "copying"]
  /\ arg' = [arg EXCEPT ![t] = [NoArg EXCEPT !.sel = s]]
  /\ ever' = [ever EXCEPT ![t] =
       [some |-> Matching(s), all |-> Matching(s), touched |-> {}]]
  /\ UNCHANGED <<cache, writer, detached, visited, copy>>

\* copyMap passes one more key of the map, without a lock.
CopyKey(t, p) ==
  /\ pc[t] = "copying" /\ p \notin visited[t]
  /\ LET map == IF detached[t] # NotCached THEN detached[t] ELSE results[arg[t].sel]
     IN  copy' = [copy EXCEPT ![t] = IF p \in map THEN @ \cup {p} ELSE @]
  /\ visited' = [visited EXCEPT ![t] = @ \cup {p}]
  /\ UNCHANGED <<cache, writer, pc, arg, detached, ever>>

CopyEnd(t) ==
  /\ pc[t] = "copying" /\ visited[t] = Pods
  /\ pc' = [pc EXCEPT ![t] = "evaluated"]
  /\ detached' = [detached EXCEPT ![t] = NotCached]
  /\ visited' = [visited EXCEPT ![t] = {}]
  /\ UNCHANGED <<cache, writer, arg, copy, ever>>

\* A miss, under the write lock: look again, else evaluate and cache.
EvaluateMiss(t) ==
  /\ pc[t] = "missed" /\ Unlocked
  /\ LET s == arg[t].sel IN
       IF results[s] # NotCached
       THEN /\ copy' = [copy EXCEPT ![t] = results[s]]
            /\ UNCHANGED <<specs, results>>
       ELSE /\ copy' = [copy EXCEPT ![t] = Matching(s)]
            /\ specs' = specs \cup {s}
            /\ results' = [results EXCEPT ![s] = Matching(s)]
  /\ pc' = [pc EXCEPT ![t] = "evaluated"]
  /\ UNCHANGED <<podLabels, podsByLabels, writer, arg, detached, visited, ever>>

Return(t) ==
  /\ pc[t] = "evaluated"
  /\ pc' = [pc EXCEPT ![t] = "idle"]
  /\ arg' = [arg EXCEPT ![t] = NoArg]
  /\ copy' = [copy EXCEPT ![t] = {}]
  /\ ever' = [ever EXCEPT ![t] = NoHistory]
  /\ UNCHANGED <<cache, writer, detached, visited>>

Next ==
  \E t \in Threads :
    \/ \E p \in Pods, l \in LabelSets : AddPodRemove(t, p, l)
    \/ AddPodInsert(t)
    \/ \E p \in Pods : RemovePod(t, p) \/ CopyKey(t, p)
    \/ \E s \in Selectors : InvalidateSelector(t, s) \/ EvaluateLookup(t, s)
    \/ CopyEnd(t) \/ EvaluateMiss(t) \/ Return(t)

Spec == Init /\ [][Next]_vars

-----------------------------------------------------------------------------
(* Properties.                                                             *)

\* Whenever the lock is free a cached result is what a new evaluation would
\* give, a selector has a spec exactly when it has a result, and the index by
\* labels agrees with the pods: the incremental updates miss nothing.
CacheCoherent ==
  Unlocked =>
    /\ \A s \in Selectors :
         /\ results[s] # NotCached => results[s] = Matching(s)
         /\ s \in specs <=> results[s] # NotCached
    /\ \A l \in LabelSets : podsByLabels[l] = {p \in Pods : podLabels[p] = l}

\* A pod that EvaluateSelector returns matched the selector at some moment of
\* the call, even when the map was changed or dropped while it was copied.
NoGhostPods ==
  \A t \in Threads : pc[t] \in {"copying", "evaluated"} => copy[t] \subseteq ever[t].some

\* A pod that matched from the beginning of EvaluateSelector to its end is in
\* the result, although the map is copied without a lock; the only pods that can
\* be missed are those AddPod wrote during the copy, which passed them between
\* removal and insertion.
NoPodMissed ==
  \A t \in Threads : pc[t] = "evaluated" =>
    ever[t].all \subseteq copy[t] \cup ever[t].touched
=============================================================================
