------------------------- MODULE SelectorCacheProofs -------------------------
(***************************************************************************)
(* Proofs about SelectorCache for any threads, pods, label sets and        *)
(* selectors.  The results are coherent even while AddPod is half done     *)
(* (the pod is then nowhere), so that CacheCoherent needs no case split on *)
(* the lock.  What EvaluateSelector returns is bounded from both sides by  *)
(* what it still has to read: everything left to copy matched at some      *)
(* moment of the call, and every pod that matched all along and was not    *)
(* written meanwhile is either copied or still in the map being copied,    *)
(* also when the map was detached by InvalidateSelector.                   *)
(***************************************************************************)
EXTENDS SelectorCache, TLAPS

\* Types of the cache's maps, of the threads' locals and of the history.
TypeOK ==
  /\ podLabels \in [Pods -> LabelSets \cup {Absent}]
  /\ podsByLabels \in [LabelSets -> SUBSET Pods]
  /\ specs \in SUBSET Selectors
  /\ results \in [Selectors -> {NotCached} \cup SUBSET Pods]
  /\ writer \in Threads \cup {Absent}
  /\ pc \in [Threads -> {"idle", "adding", "copying", "missed", "evaluated"}]
  /\ arg \in [Threads -> [sel : Selectors \cup {{}}, pod : Pods \cup {Absent},
                          labels : LabelSets \cup {{}}]]
  /\ detached \in [Threads -> {NotCached} \cup SUBSET Pods]
  /\ visited \in [Threads -> SUBSET Pods]
  /\ copy \in [Threads -> SUBSET Pods]
  /\ ever \in [Threads -> [some : SUBSET Pods, all : SUBSET Pods, touched : SUBSET Pods]]

\* CacheCoherent, whoever holds the lock.
Coherent ==
  /\ \A s \in Selectors : results[s] # NotCached => results[s] = Matching(s)
  /\ \A s \in Selectors : s \in specs <=> results[s] # NotCached
  /\ \A l \in LabelSets : podsByLabels[l] = {p \in Pods : podLabels[p] = l}

\* The lock's holder is inside AddPod, its pod is known to nobody.
WriterInv ==
  /\ \A t \in Threads : pc[t] = "adding" <=> writer = t
  /\ \A t \in Threads : pc[t] = "adding" =>
       /\ arg[t].pod \in Pods /\ arg[t].labels \in LabelSets
       /\ podLabels[arg[t].pod] = Absent

\* An evaluation that copies a map.
CopyingInv(t) ==
  pc[t] = "copying" =>
    /\ arg[t].sel \in Selectors
    /\ Matching(arg[t].sel) \subseteq ever[t].some
    /\ ever[t].all \ ever[t].touched \subseteq Matching(arg[t].sel)
    /\ detached[t] = NotCached => results[arg[t].sel] # NotCached
    /\ detached[t] # NotCached =>
         /\ detached[t] \subseteq ever[t].some
         /\ ever[t].all \ ever[t].touched \subseteq detached[t]
    /\ copy[t] \subseteq ever[t].some
    /\ ever[t].all \cap visited[t] \subseteq copy[t] \cup ever[t].touched

\* One that found no map and waits for the lock.
MissedInv(t) ==
  pc[t] = "missed" =>
    /\ arg[t].sel \in Selectors
    /\ Matching(arg[t].sel) \subseteq ever[t].some
    /\ Unlocked => ever[t].all \subseteq Matching(arg[t].sel)

\* One that is about to return.
EvaluatedInv(t) ==
  pc[t] = "evaluated" =>
    /\ copy[t] \subseteq ever[t].some
    /\ ever[t].all \subseteq copy[t] \cup ever[t].touched

\* Locals that are reset.
RestInv(t) ==
  /\ pc[t] # "copying" => detached[t] = NotCached /\ visited[t] = {}
  /\ pc[t] \notin {"copying", "evaluated"} => copy[t] = {}

ThreadInv(t) == CopyingInv(t) /\ MissedInv(t) /\ EvaluatedInv(t) /\ RestInv(t)

\* The inductive invariant.
Inv == TypeOK /\ Coherent /\ WriterInv /\ \A t \in Threads : ThreadInv(t)

-----------------------------------------------------------------------------
(* What the writers do, and what the others must not notice.               *)

\* Matching(s) after the step, for a selector of the state before it.
Now(s) == {p \in Pods : podLabels'[p] # Absent /\ MatchesSelector(podLabels'[p], s)}

\* removePodInternal takes the pod out of everything, and nothing else.
LEMMA RemoveEffect ==
  ASSUME Inv, NEW p \in Pods, RemovePodInternal(p)
  PROVE  /\ podLabels' \in [Pods -> LabelSets \cup {Absent}]
         /\ podsByLabels' \in [LabelSets -> SUBSET Pods]
         /\ results' \in [Selectors -> {NotCached} \cup SUBSET Pods]
         /\ specs' = specs
         /\ podLabels'[p] = Absent
         /\ \A s \in Selectors : results'[s] = NotCached <=> results[s] = NotCached
         /\ \A s : Now(s) = Matching(s) \ {p}
         /\ Coherent'
<1>1. /\ podLabels' = [podLabels EXCEPT ![p] = Absent]
      /\ podsByLabels' = [l \in LabelSets |->
           IF l = podLabels[p] THEN podsByLabels[l] \ {p} ELSE podsByLabels[l]]
      /\ results' = [s \in Selectors |->
           IF podLabels[p] = Absent \/ results[s] = NotCached THEN results[s]
           ELSE results[s] \ {p}]
      /\ specs' = specs
  BY DEF RemovePodInternal
<1>2. /\ podLabels \in [Pods -> LabelSets \cup {Absent}]
      /\ podsByLabels \in [LabelSets -> SUBSET Pods]
      /\ results \in [Selectors -> {NotCached} \cup SUBSET Pods]
  BY DEF Inv, TypeOK
<1>3. /\ podLabels' \in [Pods -> LabelSets \cup {Absent}]
      /\ podLabels'[p] = Absent
      /\ \A q \in Pods \ {p} : podLabels'[q] = podLabels[q]
  BY <1>1, <1>2
<1>4. podsByLabels' \in [LabelSets -> SUBSET Pods]
  BY <1>1, <1>2
<1>5. \A s \in Selectors : /\ results'[s] \in {NotCached} \cup SUBSET Pods
                           /\ results'[s] = NotCached <=> results[s] = NotCached
  <2> TAKE s \in Selectors
  <2>1. results[s] # NotCached => results[s] \in SUBSET Pods /\ results[s] \ {p} \in SUBSET Pods
    BY <1>2
  <2>2. results[s] # NotCached => results[s] \ {p} # NotCached
    BY <2>1, NotCachedAssumption
  <2> QED BY <1>1, <1>2, <2>1, <2>2
<1>6. \A s : Now(s) = Matching(s) \ {p}
  BY <1>3 DEF Now, Matching
<1>7. Coherent'
  <2>1. \A s \in Selectors : results'[s] # NotCached => results'[s] = Now(s)
    <3> SUFFICES ASSUME NEW s \in Selectors, results'[s] # NotCached
                 PROVE  results'[s] = Matching(s) \ {p}
      BY <1>6
    <3>1. results[s] = Matching(s)
      BY <1>5 DEF Inv, Coherent
    <3>2. podLabels[p] = Absent => p \notin Matching(s)
      BY DEF Matching
    <3> QED BY <1>1, <1>5, <3>1, <3>2
  <2>2. \A s \in Selectors : s \in specs' <=> results'[s] # NotCached
    BY <1>1, <1>5 DEF Inv, Coherent
  <2>3. \A l \in LabelSets : podsByLabels'[l] = {q \in Pods : podLabels'[q] = l}
    BY <1>1, <1>3, AbsentAssumption DEF Inv, Coherent
  <2> QED BY <2>1, <2>2, <2>3 DEF Coherent, Now, Matching
<1> QED BY <1>1, <1>3, <1>4, <1>5, <1>6, <1>7

\* A thread that does not move keeps its part of the invariant when the history
\* follows the pods and the map it may be copying is not taken away.
LEMMA ThreadFrame ==
  ASSUME Inv, NEW u \in Threads,
         pc'[u] = pc[u], arg'[u] = arg[u], visited'[u] = visited[u],
         copy'[u] = copy[u], detached'[u] = detached[u],
         pc[u] = "evaluated" => ever'[u] = ever[u],
         pc[u] = "copying" =>
           /\ results[arg[u].sel] # NotCached => results'[arg[u].sel] # NotCached
           /\ ever[u].some \cup Now(arg[u].sel) \subseteq ever'[u].some
           /\ ever'[u].all \subseteq ever[u].all
           /\ ever[u].touched \subseteq ever'[u].touched
           /\ ever'[u].all \ ever'[u].touched \subseteq Now(arg[u].sel),
         pc[u] = "missed" =>
           /\ Now(arg[u].sel) \subseteq ever'[u].some
           /\ Unlocked' => ever'[u].all \subseteq Now(arg[u].sel)
  PROVE  ThreadInv(u)'
<1>1. Matching(arg[u].sel)' = Now(arg[u].sel)
  BY DEF Matching, Now
<1>2. ThreadInv(u)
  BY DEF Inv
<1>3. CopyingInv(u)'
  BY <1>1, <1>2 DEF ThreadInv, CopyingInv
<1>4. MissedInv(u)'
  BY <1>1, <1>2 DEF ThreadInv, MissedInv
<1>5. EvaluatedInv(u)' /\ RestInv(u)'
  BY <1>2 DEF ThreadInv, EvaluatedInv, RestInv
<1> QED BY <1>3, <1>4, <1>5 DEF ThreadInv

\* The same when nothing at all changes but the locals of another thread and
\* what is cached for a selector that had no map.
LEMMA OtherThread ==
  ASSUME Inv, NEW u \in Threads,
         pc'[u] = pc[u], arg'[u] = arg[u], visited'[u] = visited[u],
         copy'[u] = copy[u], detached'[u] = detached[u], ever'[u] = ever[u],
         podLabels' = podLabels, writer' = writer,
         \A s \in Selectors : results[s] # NotCached => results'[s] # NotCached
  PROVE  ThreadInv(u)'
<1>1. Now(arg[u].sel) = Matching(arg[u].sel)
  BY DEF Matching, Now
<1>2. ThreadInv(u) /\ (Unlocked' <=> Unlocked)
  BY DEF Inv, Unlocked
<1>3. pc[u] = "copying" =>
           /\ results[arg[u].sel] # NotCached => results'[arg[u].sel] # NotCached
           /\ ever[u].some \cup Now(arg[u].sel) \subseteq ever'[u].some
           /\ ever'[u].all \ ever'[u].touched \subseteq Now(arg[u].sel)
  BY <1>1, <1>2 DEF ThreadInv, CopyingInv
<1>4. pc[u] = "missed" =>
           /\ Now(arg[u].sel) \subseteq ever'[u].some
           /\ Unlocked' => ever'[u].all \subseteq Now(arg[u].sel)
  BY <1>1, <1>2 DEF ThreadInv, MissedInv
<1> QED BY <1>3, <1>4, ThreadFrame

\* The history after Witness.
LEMMA WitnessEffect ==
  ASSUME Inv, Witness
  PROVE  /\ ever' \in [Threads -> [some : SUBSET Pods, all : SUBSET Pods,
                                   touched : SUBSET Pods]]
         /\ \A u \in Threads :
              /\ pc[u] \notin {"copying", "missed"} => ever'[u] = ever[u]
              /\ pc[u] \in {"copying", "missed"} =>
                   /\ ever'[u].some = ever[u].some \cup Now(arg[u].sel)
                   /\ ever'[u].all = ever[u].all \cap Now(arg[u].sel)
                   /\ ever'[u].touched = ever[u].touched
<1>1. \A u : Now(arg[u].sel) \in SUBSET Pods
  BY DEF Now
<1>2. ever' = [u \in Threads |->
        IF pc[u] \in {"copying", "missed"}
        THEN [ever[u] EXCEPT !.some = ever[u].some \cup Now(arg[u].sel),
                             !.all = ever[u].all \cap Now(arg[u].sel)]
        ELSE ever[u]]
  BY DEF Witness, Now
<1>3. ever \in [Threads -> [some : SUBSET Pods, all : SUBSET Pods, touched : SUBSET Pods]]
  BY DEF Inv, TypeOK
<1>4. ASSUME NEW u \in Threads, pc[u] \in {"copying", "missed"}
      PROVE  /\ ever'[u] \in [some : SUBSET Pods, all : SUBSET Pods, touched : SUBSET Pods]
             /\ ever'[u].some = ever[u].some \cup Now(arg[u].sel)
             /\ ever'[u].all = ever[u].all \cap Now(arg[u].sel)
             /\ ever'[u].touched = ever[u].touched
  BY <1>1, <1>2, <1>3, <1>4
<1>5. ASSUME NEW u \in Threads, pc[u] \notin {"copying", "missed"}
      PROVE  ever'[u] = ever[u]
  BY <1>2, <1>5
<1>6. \A u \in Threads : ever'[u] \in [some : SUBSET Pods, all : SUBSET Pods,
                                       touched : SUBSET Pods]
  BY <1>3, <1>4, <1>5
<1>7. ever' \in [Threads -> [some : SUBSET Pods, all : SUBSET Pods, touched : SUBSET Pods]]
  BY <1>2, <1>6
<1> QED BY <1>4, <1>5, <1>7
-----------------------------------------------------------------------------
(* Inv is inductive: one lemma per step.                                   *)

LEMMA InitInv == Init => Inv
<1> SUFFICES ASSUME Init PROVE Inv
  OBVIOUS
<1>1. NoArg \in [sel : Selectors \cup {{}}, pod : Pods \cup {Absent},
                 labels : LabelSets \cup {{}}]
  BY DEF NoArg
<1>2. NoHistory \in [some : SUBSET Pods, all : SUBSET Pods, touched : SUBSET Pods]
  BY DEF NoHistory
<1>3. TypeOK
  BY <1>1, <1>2 DEF Init, TypeOK
<1>4. Coherent
  BY AbsentAssumption DEF Init, Coherent
<1>5. WriterInv
  BY AbsentAssumption DEF Init, WriterInv
<1>6. \A t \in Threads : ThreadInv(t)
  BY DEF Init, ThreadInv, CopyingInv, MissedInv, EvaluatedInv, RestInv
<1> QED BY <1>3, <1>4, <1>5, <1>6 DEF Inv

LEMMA AddPodRemoveInv ==
  ASSUME Inv, NEW t \in Threads, NEW p \in Pods, NEW l \in LabelSets,
         AddPodRemove(t, p, l)
  PROVE  Inv'
<1>1. /\ pc[t] = "idle" /\ writer = Absent
      /\ writer' = t
      /\ pc' = [pc EXCEPT ![t] = "adding"]
      /\ arg' = [arg EXCEPT ![t] = [sel |-> {}, pod |-> p, labels |-> l]]
      /\ RemovePodInternal(p)
      /\ ever' = [u \in Threads |->
           IF pc[u] = "copying"
           THEN [ever[u] EXCEPT !.touched = ever[u].touched \cup {p}] ELSE ever[u]]
      /\ UNCHANGED <<detached, visited, copy>>
  BY DEF AddPodRemove, Unlocked
<1>2. /\ podLabels' \in [Pods -> LabelSets \cup {Absent}]
      /\ podsByLabels' \in [LabelSets -> SUBSET Pods]
      /\ results' \in [Selectors -> {NotCached} \cup SUBSET Pods]
      /\ specs' = specs
      /\ podLabels'[p] = Absent
      /\ \A s \in Selectors : results'[s] = NotCached <=> results[s] = NotCached
      /\ \A s : Now(s) = Matching(s) \ {p}
      /\ Coherent'
  BY <1>1, RemoveEffect
<1>3. /\ pc'[t] = "adding" /\ arg'[t] = [sel |-> {}, pod |-> p, labels |-> l]
      /\ \A u \in Threads \ {t} : pc'[u] = pc[u] /\ arg'[u] = arg[u]
  BY <1>1 DEF Inv, TypeOK
<1>4. \A u \in Threads :
        /\ ever'[u] \in [some : SUBSET Pods, all : SUBSET Pods, touched : SUBSET Pods]
        /\ ever'[u].some = ever[u].some /\ ever'[u].all = ever[u].all
        /\ pc[u] = "copying" => ever'[u].touched = ever[u].touched \cup {p}
        /\ pc[u] # "copying" => ever'[u] = ever[u]
  <2>1. ever \in [Threads -> [some : SUBSET Pods, all : SUBSET Pods, touched : SUBSET Pods]]
    BY DEF Inv, TypeOK
  <2> QED BY <1>1, <2>1
<1>5. TypeOK'
  <2>1. ever' \in [Threads -> [some : SUBSET Pods, all : SUBSET Pods, touched : SUBSET Pods]]
    BY <1>1, <1>4
  <2>2. arg' \in [Threads -> [sel : Selectors \cup {{}}, pod : Pods \cup {Absent},
                              labels : LabelSets \cup {{}}]]
    BY <1>1 DEF Inv, TypeOK
  <2>3. pc' \in [Threads -> {"idle", "adding", "copying", "missed", "evaluated"}]
    BY <1>1 DEF Inv, TypeOK
  <2> QED BY <1>1, <1>2, <2>1, <2>2, <2>3 DEF Inv, TypeOK
<1>6. WriterInv'
  <2>1. \A u \in Threads : pc[u] # "adding"
    BY <1>1, AbsentAssumption DEF Inv, WriterInv
  <2> QED BY <1>1, <1>2, <1>3, <2>1 DEF WriterInv
<1>7. \A u \in Threads : ThreadInv(u)'
  <2> TAKE u \in Threads
  <2>1. ThreadInv(u)
    BY DEF Inv
  <2>2. CASE u = t
    BY <2>1, <2>2, <1>1, <1>3 DEF ThreadInv, CopyingInv, MissedInv, EvaluatedInv, RestInv
  <2>3. CASE u # t
    <3>1. pc[u] = "copying" =>
            /\ results[arg[u].sel] # NotCached => results'[arg[u].sel] # NotCached
            /\ ever[u].some \cup Now(arg[u].sel) \subseteq ever'[u].some
            /\ ever'[u].all \subseteq ever[u].all
            /\ ever[u].touched \subseteq ever'[u].touched
            /\ ever'[u].all \ ever'[u].touched \subseteq Now(arg[u].sel)
      BY <2>1, <1>2, <1>4 DEF ThreadInv, CopyingInv
    <3>2. pc[u] = "missed" => Now(arg[u].sel) \subseteq ever'[u].some
      BY <2>1, <1>2, <1>4 DEF ThreadInv, MissedInv
    <3>3. ~Unlocked'
      BY <1>1, AbsentAssumption DEF Unlocked
    <3> QED BY <2>3, <3>1, <3>2, <3>3, <1>1, <1>3, <1>4, ThreadFrame
  <2> QED BY <2>2, <2>3
<1> QED BY <1>2, <1>5, <1>6, <1>7 DEF Inv

LEMMA RemovePodInv ==
  ASSUME Inv, NEW t \in Threads, NEW p \in Pods, RemovePod(t, p)
  PROVE  Inv'
<1>1. /\ writer = Absent
      /\ RemovePodInternal(p)
      /\ Witness
      /\ UNCHANGED <<writer, pc, arg, detached, visited, copy>>
  BY DEF RemovePod, Unlocked, locals
<1>2. /\ podLabels' \in [Pods -> LabelSets \cup {Absent}]
      /\ podsByLabels' \in [LabelSets -> SUBSET Pods]
      /\ results' \in [Selectors -> {NotCached} \cup SUBSET Pods]
      /\ specs' = specs
      /\ \A s \in Selectors : results'[s] = NotCached <=> results[s] = NotCached
      /\ Coherent'
  BY <1>1, RemoveEffect
<1>3. ever' \in [Threads -> [some : SUBSET Pods, all : SUBSET Pods, touched : SUBSET Pods]]
  BY <1>1, WitnessEffect
<1>4. TypeOK'
  BY <1>1, <1>2, <1>3 DEF Inv, TypeOK
<1>5. WriterInv'
  BY <1>1, AbsentAssumption DEF Inv, WriterInv
<1>6. \A u \in Threads : ThreadInv(u)'
  <2> TAKE u \in Threads
  <2>1. ThreadInv(u)
    BY DEF Inv
  <2>2. /\ pc[u] \notin {"copying", "missed"} => ever'[u] = ever[u]
        /\ pc[u] \in {"copying", "missed"} =>
             /\ ever'[u].some = ever[u].some \cup Now(arg[u].sel)
             /\ ever'[u].all = ever[u].all \cap Now(arg[u].sel)
             /\ ever'[u].touched = ever[u].touched
    BY <1>1, WitnessEffect
  <2>3. pc[u] = "copying" =>
          (results[arg[u].sel] # NotCached => results'[arg[u].sel] # NotCached)
    BY <2>1, <1>2 DEF ThreadInv, CopyingInv
  <2> QED BY <2>2, <2>3, <1>1, ThreadFrame
<1> QED BY <1>2, <1>4, <1>5, <1>6 DEF Inv

LEMMA AddPodInsertInv ==
  ASSUME Inv, NEW t \in Threads, AddPodInsert(t)
  PROVE  Inv'
<1> DEFINE p == arg[t].pod
           l == arg[t].labels
<1>1. /\ pc[t] = "adding" /\ writer' = Absent
      /\ podLabels' = [podLabels EXCEPT ![p] = l]
      /\ podsByLabels' = [podsByLabels EXCEPT ![l] = podsByLabels[l] \cup {p}]
      /\ results' = [s \in Selectors |->
              IF s \in specs /\ MatchesSelector(l, s)
              THEN (IF results[s] = NotCached THEN {} ELSE results[s]) \cup {p}
              ELSE results[s]]
      /\ pc' = [pc EXCEPT ![t] = "idle"]
      /\ arg' = [arg EXCEPT ![t] = NoArg]
      /\ Witness
      /\ UNCHANGED <<specs, detached, visited, copy>>
  BY DEF AddPodInsert
<1>2. p \in Pods /\ l \in LabelSets /\ podLabels[p] = Absent /\ l # Absent /\ writer = t
  BY <1>1, AbsentAssumption DEF Inv, WriterInv
<1> HIDE DEF p, l
<1>3. /\ podLabels' \in [Pods -> LabelSets \cup {Absent}]
      /\ podLabels'[p] = l
      /\ \A q \in Pods \ {p} : podLabels'[q] = podLabels[q]
  BY <1>1, <1>2 DEF Inv, TypeOK
<1>4. \A s : Now(s) = IF MatchesSelector(l, s) THEN Matching(s) \cup {p} ELSE Matching(s)
  BY <1>2, <1>3 DEF Now, Matching
<1>5. \A s \in Selectors :
        /\ results'[s] \in {NotCached} \cup SUBSET Pods
        /\ results'[s] = NotCached <=> results[s] = NotCached
        /\ results'[s] # NotCached => results'[s] = Now(s)
  <2> TAKE s \in Selectors
  <2>1. s \in specs <=> results[s] # NotCached
    BY DEF Inv, Coherent
  <2>2. CASE s \in specs
    <3>1. results[s] \in SUBSET Pods /\ results[s] = Matching(s)
      BY <2>1, <2>2 DEF Inv, Coherent, TypeOK
    <3>2. results'[s] = IF MatchesSelector(l, s) THEN results[s] \cup {p} ELSE results[s]
      BY <1>1, <2>1, <2>2
    <3>3. results'[s] \in SUBSET Pods
      BY <1>2, <3>1, <3>2
    <3> QED BY <1>4, <2>1, <2>2, <3>1, <3>2, <3>3, NotCachedAssumption
  <2>3. CASE s \notin specs
    BY <1>1, <2>1, <2>3
  <2> QED BY <2>2, <2>3
<1>6. Coherent'
  <2>1. \A s \in Selectors : s \in specs' <=> results'[s] # NotCached
    BY <1>1, <1>5 DEF Inv, Coherent
  <2>2. \A m \in LabelSets : podsByLabels'[m] = {q \in Pods : podLabels'[q] = m}
    BY <1>1, <1>2, <1>3, AbsentAssumption DEF Inv, Coherent, TypeOK
  <2> QED BY <1>5, <2>1, <2>2 DEF Coherent, Now, Matching
<1>7. /\ pc'[t] = "idle"
      /\ \A u \in Threads \ {t} : pc'[u] = pc[u] /\ arg'[u] = arg[u]
  BY <1>1 DEF Inv, TypeOK
<1>8. TypeOK'
  <2>1. NoArg \in [sel : Selectors \cup {{}}, pod : Pods \cup {Absent},
                   labels : LabelSets \cup {{}}]
    BY DEF NoArg
  <2>2. ever' \in [Threads -> [some : SUBSET Pods, all : SUBSET Pods, touched : SUBSET Pods]]
    BY <1>1, WitnessEffect
  <2>3. results' \in [Selectors -> {NotCached} \cup SUBSET Pods]
    BY <1>1, <1>5
  <2>4. podsByLabels' \in [LabelSets -> SUBSET Pods]
    BY <1>1, <1>2 DEF Inv, TypeOK
  <2> QED BY <1>1, <1>3, <2>1, <2>2, <2>3, <2>4 DEF Inv, TypeOK
<1>9. WriterInv'
  BY <1>1, <1>2, <1>7, AbsentAssumption DEF Inv, WriterInv
<1>10. \A u \in Threads : ThreadInv(u)'
  <2> TAKE u \in Threads
  <2>1. ThreadInv(u)
    BY DEF Inv
  <2>2. CASE u = t
    BY <2>1, <2>2, <1>1, <1>7 DEF ThreadInv, CopyingInv, MissedInv, EvaluatedInv, RestInv
  <2>3. CASE u # t
    <3>1. /\ pc[u] \notin {"copying", "missed"} => ever'[u] = ever[u]
          /\ pc[u] \in {"copying", "missed"} =>
               /\ ever'[u].some = ever[u].some \cup Now(arg[u].sel)
               /\ ever'[u].all = ever[u].all \cap Now(arg[u].sel)
               /\ ever'[u].touched = ever[u].touched
      BY <1>1, WitnessEffect
    <3>2. pc[u] = "copying" =>
            (results[arg[u].sel] # NotCached => results'[arg[u].sel] # NotCached)
      BY <2>1, <1>5 DEF ThreadInv, CopyingInv
    <3> QED BY <2>3, <3>1, <3>2, <1>1, <1>7, ThreadFrame
  <2> QED BY <2>2, <2>3
<1> QED BY <1>6, <1>8, <1>9, <1>10 DEF Inv
LEMMA InvalidateSelectorInv ==
  ASSUME Inv, NEW t \in Threads, NEW s \in Selectors, InvalidateSelector(t, s)
  PROVE  Inv'
<1>1. /\ writer = Absent
      /\ results' = [results EXCEPT ![s] = NotCached]
      /\ specs' = specs \ {s}
      /\ detached' = [u \in Threads |->
           IF pc[u] = "copying" /\ arg[u].sel = s /\ detached[u] = NotCached
           THEN results[s] ELSE detached[u]]
      /\ UNCHANGED <<podLabels, podsByLabels, writer, pc, arg, visited, copy, ever>>
  BY DEF InvalidateSelector, Unlocked
<1>2. /\ results'[s] = NotCached
      /\ \A r \in Selectors \ {s} : results'[r] = results[r]
  BY <1>1 DEF Inv, TypeOK
<1>3. TypeOK'
  BY <1>1 DEF Inv, TypeOK
<1>4. Coherent'
  BY <1>1, <1>2 DEF Inv, Coherent, Matching
<1>5. WriterInv'
  BY <1>1 DEF Inv, WriterInv
<1>6. \A u \in Threads : ThreadInv(u)'
  <2> TAKE u \in Threads
  <2>1. ThreadInv(u) /\ Matching(arg[u].sel)' = Matching(arg[u].sel)
    BY <1>1 DEF Inv, Matching
  <2>2. Unlocked' <=> Unlocked
    BY <1>1 DEF Unlocked
  <2>3. MissedInv(u)' /\ EvaluatedInv(u)'
    BY <2>1, <2>2, <1>1 DEF ThreadInv, MissedInv, EvaluatedInv
  <2>4. RestInv(u)'
    BY <2>1, <1>1 DEF ThreadInv, RestInv
  <2>5. CopyingInv(u)'
    <3> SUFFICES ASSUME pc[u] = "copying" PROVE CopyingInv(u)'
      BY <1>1 DEF CopyingInv
    <3>1. CASE arg[u].sel = s /\ detached[u] = NotCached
      <4>1. results[s] # NotCached /\ results[s] = Matching(arg[u].sel)
        BY <2>1, <3>1 DEF ThreadInv, CopyingInv, Inv, Coherent
      <4>2. detached'[u] = results[s]
        BY <3>1, <1>1
      <4> QED BY <2>1, <4>1, <4>2, <1>1 DEF ThreadInv, CopyingInv
    <3>2. CASE ~(arg[u].sel = s /\ detached[u] = NotCached)
      <4>1. detached'[u] = detached[u]
        BY <3>2, <1>1
      <4>2. detached[u] = NotCached => results'[arg[u].sel] # NotCached
        BY <2>1, <3>2, <1>2 DEF ThreadInv, CopyingInv
      <4> QED BY <2>1, <4>1, <4>2, <1>1 DEF ThreadInv, CopyingInv
    <3> QED BY <3>1, <3>2
  <2> QED BY <2>3, <2>4, <2>5 DEF ThreadInv
<1> QED BY <1>3, <1>4, <1>5, <1>6 DEF Inv

LEMMA EvaluateLookupInv ==
  ASSUME Inv, NEW t \in Threads, NEW s \in Selectors, EvaluateLookup(t, s)
  PROVE  Inv'
<1> DEFINE h == [some |-> Matching(s), all |-> Matching(s), touched |-> {}]
<1>1. /\ pc[t] = "idle" /\ writer = Absent
      /\ pc' = [pc EXCEPT ![t] = IF results[s] = NotCached THEN "missed" ELSE "copying"]
      /\ arg' = [arg EXCEPT ![t] = [NoArg EXCEPT !.sel = s]]
      /\ ever' = [ever EXCEPT ![t] = h]
      /\ UNCHANGED <<podLabels, podsByLabels, specs, results, writer, detached, visited, copy>>
  BY DEF EvaluateLookup, Unlocked, cache
<1>2. Matching(s) \in SUBSET Pods
  BY DEF Matching
<1>3. [NoArg EXCEPT !.sel = s] = [sel |-> s, pod |-> Absent, labels |-> {}]
  BY DEF NoArg
<1>4. /\ pc'[t] = IF results[s] = NotCached THEN "missed" ELSE "copying"
      /\ arg'[t].sel = s /\ ever'[t] = h
      /\ \A u \in Threads \ {t} : pc'[u] = pc[u] /\ arg'[u] = arg[u] /\ ever'[u] = ever[u]
  BY <1>1, <1>3 DEF Inv, TypeOK
<1>5. TypeOK'
  BY <1>1, <1>2, <1>3 DEF Inv, TypeOK
<1>6. Coherent'
  BY <1>1 DEF Inv, Coherent, Matching
<1>7. WriterInv'
  BY <1>1, <1>4, AbsentAssumption DEF Inv, WriterInv
<1>8. \A u \in Threads : ThreadInv(u)'
  <2> TAKE u \in Threads
  <2>1. CASE u = t
    <3>1. Matching(arg[t].sel)' = Matching(s)
      BY <1>1, <1>4 DEF Matching
    <3>2. ThreadInv(t)
      BY DEF Inv
    <3>3. detached[t] = NotCached /\ visited[t] = {} /\ copy[t] = {}
      BY <1>1, <3>2 DEF ThreadInv, RestInv
    <3>4. h.some = Matching(s) /\ h.all = Matching(s) /\ h.touched = {}
      OBVIOUS
    <3> HIDE DEF h
    <3>5. CopyingInv(t)'
      BY <3>1, <3>3, <3>4, <1>1, <1>4 DEF CopyingInv
    <3>6. MissedInv(t)'
      BY <3>1, <3>4, <1>4 DEF MissedInv
    <3>7. EvaluatedInv(t)' /\ RestInv(t)'
      BY <3>3, <1>1, <1>4 DEF EvaluatedInv, RestInv
    <3> QED BY <2>1, <3>5, <3>6, <3>7 DEF ThreadInv
  <2>2. CASE u # t
    BY <2>2, <1>1, <1>4, OtherThread
  <2> QED BY <2>1, <2>2
<1> QED BY <1>5, <1>6, <1>7, <1>8 DEF Inv

LEMMA CopyKeyInv ==
  ASSUME Inv, NEW t \in Threads, NEW p \in Pods, CopyKey(t, p)
  PROVE  Inv'
<1> DEFINE map == IF detached[t] # NotCached THEN detached[t] ELSE results[arg[t].sel]
<1>1. /\ pc[t] = "copying"
      /\ copy' = [copy EXCEPT ![t] = IF p \in map THEN copy[t] \cup {p} ELSE copy[t]]
      /\ visited' = [visited EXCEPT ![t] = visited[t] \cup {p}]
      /\ UNCHANGED <<podLabels, podsByLabels, specs, results, writer, pc, arg, detached, ever>>
  BY DEF CopyKey, cache
<1>2. ThreadInv(t)
  BY DEF Inv
<1>3. map \subseteq ever[t].some /\ ever[t].all \ ever[t].touched \subseteq map
  <2>1. CASE detached[t] # NotCached
    BY <2>1, <1>1, <1>2 DEF ThreadInv, CopyingInv
  <2>2. CASE detached[t] = NotCached
    <3>1. map = Matching(arg[t].sel)
      BY <2>2, <1>1, <1>2 DEF ThreadInv, CopyingInv, Inv, Coherent
    <3> QED BY <3>1, <1>1, <1>2 DEF ThreadInv, CopyingInv
  <2> QED BY <2>1, <2>2
<1> HIDE DEF map
<1>4. /\ copy'[t] = IF p \in map THEN copy[t] \cup {p} ELSE copy[t]
      /\ visited'[t] = visited[t] \cup {p}
      /\ \A u \in Threads \ {t} : copy'[u] = copy[u] /\ visited'[u] = visited[u]
  BY <1>1 DEF Inv, TypeOK
<1>5. TypeOK'
  BY <1>1 DEF Inv, TypeOK
<1>6. Coherent' /\ WriterInv'
  BY <1>1 DEF Inv, Coherent, Matching, WriterInv
<1>7. \A u \in Threads : ThreadInv(u)'
  <2> TAKE u \in Threads
  <2>1. CASE u = t
    <3>1. Matching(arg[t].sel)' = Matching(arg[t].sel)
      BY <1>1 DEF Matching
    <3>2. copy'[t] \subseteq ever[t].some
      BY <1>1, <1>2, <1>3, <1>4 DEF ThreadInv, CopyingInv
    <3>3. ever[t].all \cap visited'[t] \subseteq copy'[t] \cup ever[t].touched
      BY <1>1, <1>2, <1>3, <1>4 DEF ThreadInv, CopyingInv
    <3>4. CopyingInv(t)'
      BY <3>1, <3>2, <3>3, <1>1, <1>2 DEF ThreadInv, CopyingInv
    <3>5. MissedInv(t)' /\ EvaluatedInv(t)' /\ RestInv(t)'
      BY <1>1 DEF MissedInv, EvaluatedInv, RestInv
    <3> QED BY <2>1, <3>4, <3>5 DEF ThreadInv
  <2>2. CASE u # t
    BY <2>2, <1>1, <1>4, OtherThread
  <2> QED BY <2>1, <2>2
<1> QED BY <1>5, <1>6, <1>7 DEF Inv

LEMMA CopyEndInv ==
  ASSUME Inv, NEW t \in Threads, CopyEnd(t)
  PROVE  Inv'
<1>1. /\ pc[t] = "copying" /\ visited[t] = Pods
      /\ pc' = [pc EXCEPT ![t] = "evaluated"]
      /\ detached' = [detached EXCEPT ![t] = NotCached]
      /\ visited' = [visited EXCEPT ![t] = {}]
      /\ UNCHANGED <<podLabels, podsByLabels, specs, results, writer, arg, copy, ever>>
  BY DEF CopyEnd, cache
<1>2. /\ pc'[t] = "evaluated" /\ detached'[t] = NotCached /\ visited'[t] = {}
      /\ \A u \in Threads \ {t} : /\ pc'[u] = pc[u]
                                  /\ detached'[u] = detached[u]
                                  /\ visited'[u] = visited[u]
  BY <1>1 DEF Inv, TypeOK
<1>3. TypeOK'
  BY <1>1 DEF Inv, TypeOK
<1>4. Coherent'
  BY <1>1 DEF Inv, Coherent, Matching
<1>5. WriterInv'
  BY <1>1, <1>2 DEF Inv, WriterInv
<1>6. \A u \in Threads : ThreadInv(u)'
  <2> TAKE u \in Threads
  <2>1. CASE u = t
    <3>1. ThreadInv(t) /\ ever[t].all \subseteq Pods
      BY DEF Inv, TypeOK
    <3>2. EvaluatedInv(t)'
      BY <3>1, <1>1 DEF ThreadInv, CopyingInv, EvaluatedInv
    <3>3. CopyingInv(t)' /\ MissedInv(t)' /\ RestInv(t)'
      BY <1>2 DEF CopyingInv, MissedInv, RestInv
    <3> QED BY <2>1, <3>2, <3>3 DEF ThreadInv
  <2>2. CASE u # t
    BY <2>2, <1>1, <1>2, OtherThread
  <2> QED BY <2>1, <2>2
<1> QED BY <1>3, <1>4, <1>5, <1>6 DEF Inv

LEMMA EvaluateMissInv ==
  ASSUME Inv, NEW t \in Threads, EvaluateMiss(t)
  PROVE  Inv'
<1> DEFINE s == arg[t].sel
<1>1. /\ pc[t] = "missed" /\ writer = Absent
      /\ pc' = [pc EXCEPT ![t] = "evaluated"]
      /\ UNCHANGED <<podLabels, podsByLabels, writer, arg, detached, visited, ever>>
  BY DEF EvaluateMiss, Unlocked
<1>2. ThreadInv(t) /\ s \in Selectors /\ Matching(s) \in SUBSET Pods
  BY <1>1 DEF Inv, ThreadInv, MissedInv, Matching
<1>3. /\ copy' = [copy EXCEPT ![t] = Matching(s)]
      /\ \/ results' = results /\ specs' = specs
         \/ /\ results[s] = NotCached
            /\ results' = [results EXCEPT ![s] = Matching(s)]
            /\ specs' = specs \cup {s}
  <2>1. CASE results[s] # NotCached
    <3>1. results[s] = Matching(s)
      BY <2>1, <1>2 DEF Inv, Coherent
    <3> QED BY <2>1, <3>1 DEF EvaluateMiss
  <2>2. CASE results[s] = NotCached
    BY <2>2 DEF EvaluateMiss
  <2> QED BY <2>1, <2>2
<1>4. Matching(s) # NotCached
  BY <1>2, NotCachedAssumption
<1> HIDE DEF s
<1>5. /\ pc'[t] = "evaluated" /\ copy'[t] = Matching(s)
      /\ \A u \in Threads \ {t} : pc'[u] = pc[u] /\ copy'[u] = copy[u]
  BY <1>1, <1>3 DEF Inv, TypeOK
<1>6. TypeOK'
  BY <1>1, <1>2, <1>3 DEF Inv, TypeOK
<1>7. \A r \in Selectors : results[r] # NotCached => results'[r] # NotCached
  BY <1>2, <1>3, <1>4 DEF Inv, TypeOK
<1>8. Coherent'
  <2>1. \A r \in Selectors : results'[r] # NotCached => results'[r] = Matching(r)
    BY <1>2, <1>3 DEF Inv, TypeOK, Coherent
  <2>2. \A r \in Selectors : r \in specs' <=> results'[r] # NotCached
    BY <1>2, <1>3, <1>4 DEF Inv, TypeOK, Coherent
  <2>3. \A l \in LabelSets : podsByLabels'[l] = {p \in Pods : podLabels'[p] = l}
    BY <1>1 DEF Inv, Coherent
  <2> QED BY <2>1, <2>2, <2>3, <1>1 DEF Coherent, Matching
<1>9. WriterInv'
  BY <1>1, <1>5 DEF Inv, WriterInv
<1>10. \A u \in Threads : ThreadInv(u)'
  <2> TAKE u \in Threads
  <2>1. CASE u = t
    <3>1. Matching(s) \subseteq ever[t].some /\ ever[t].all \subseteq Matching(s)
      BY <1>1, <1>2 DEF ThreadInv, MissedInv, Unlocked, s
    <3>2. EvaluatedInv(t)'
      BY <3>1, <1>1, <1>5 DEF EvaluatedInv
    <3>3. CopyingInv(t)' /\ MissedInv(t)' /\ RestInv(t)'
      BY <1>1, <1>2, <1>5 DEF CopyingInv, MissedInv, RestInv, ThreadInv
    <3> QED BY <2>1, <3>2, <3>3 DEF ThreadInv
  <2>2. CASE u # t
    BY <2>2, <1>1, <1>5, <1>7, OtherThread
  <2> QED BY <2>1, <2>2
<1> QED BY <1>6, <1>8, <1>9, <1>10 DEF Inv

LEMMA ReturnInv ==
  ASSUME Inv, NEW t \in Threads, Return(t)
  PROVE  Inv'
<1>1. /\ pc[t] = "evaluated"
      /\ pc' = [pc EXCEPT ![t] = "idle"]
      /\ arg' = [arg EXCEPT ![t] = NoArg]
      /\ copy' = [copy EXCEPT ![t] = {}]
      /\ ever' = [ever EXCEPT ![t] = NoHistory]
      /\ UNCHANGED <<podLabels, podsByLabels, specs, results, writer, detached, visited>>
  BY DEF Return, cache
<1>2. /\ pc'[t] = "idle" /\ copy'[t] = {}
      /\ \A u \in Threads \ {t} : /\ pc'[u] = pc[u] /\ arg'[u] = arg[u]
                                  /\ copy'[u] = copy[u] /\ ever'[u] = ever[u]
  BY <1>1 DEF Inv, TypeOK
<1>3. TypeOK'
  <2>1. NoArg \in [sel : Selectors \cup {{}}, pod : Pods \cup {Absent},
                   labels : LabelSets \cup {{}}]
    BY DEF NoArg
  <2>2. NoHistory \in [some : SUBSET Pods, all : SUBSET Pods, touched : SUBSET Pods]
    BY DEF NoHistory
  <2> QED BY <1>1, <2>1, <2>2 DEF Inv, TypeOK
<1>4. Coherent'
  BY <1>1 DEF Inv, Coherent, Matching
<1>5. WriterInv'
  BY <1>1, <1>2 DEF Inv, WriterInv
<1>6. \A u \in Threads : ThreadInv(u)'
  <2> TAKE u \in Threads
  <2>1. CASE u = t
    <3>1. ThreadInv(t)
      BY DEF Inv
    <3> QED BY <2>1, <3>1, <1>1, <1>2
            DEF ThreadInv, CopyingInv, MissedInv, EvaluatedInv, RestInv
  <2>2. CASE u # t
    BY <2>2, <1>1, <1>2, OtherThread
  <2> QED BY <2>1, <2>2
<1> QED BY <1>3, <1>4, <1>5, <1>6 DEF Inv

LEMMA StutterInv ==
  ASSUME Inv, UNCHANGED vars
  PROVE  Inv'
<1>1. UNCHANGED <<podLabels, podsByLabels, specs, results, writer, pc, arg,
                  detached, visited, copy, ever>>
  BY DEF vars, cache, locals
<1>2. \A u \in Threads : ThreadInv(u)'
  BY <1>1, OtherThread
<1>3. TypeOK' /\ Coherent' /\ WriterInv'
  BY <1>1 DEF Inv, TypeOK, Coherent, WriterInv, Matching
<1> QED BY <1>2, <1>3 DEF Inv

-----------------------------------------------------------------------------
(* Theorems.                                                               *)

\* The cache and every evaluation under way are consistent in every reachable
\* state.
THEOREM CacheInvariant == Spec => []Inv
<1>1. Inv /\ [Next]_vars => Inv'
  <2> SUFFICES ASSUME Inv, [Next]_vars PROVE Inv'
    OBVIOUS
  <2>1. CASE Next
    <3>1. PICK t \in Threads :
            \/ \E p \in Pods, l \in LabelSets : AddPodRemove(t, p, l)
            \/ AddPodInsert(t)
            \/ \E p \in Pods : RemovePod(t, p) \/ CopyKey(t, p)
            \/ \E s \in Selectors : InvalidateSelector(t, s) \/ EvaluateLookup(t, s)
            \/ CopyEnd(t) \/ EvaluateMiss(t) \/ Return(t)
      BY <2>1 DEF Next
    <3>2. CASE \E p \in Pods, l \in LabelSets : AddPodRemove(t, p, l)
      BY <3>2, AddPodRemoveInv
    <3>3. CASE AddPodInsert(t)
      BY <3>3, AddPodInsertInv
    <3>4. CASE \E p \in Pods : RemovePod(t, p) \/ CopyKey(t, p)
      BY <3>4, RemovePodInv, CopyKeyInv
    <3>5. CASE \E s \in Selectors : InvalidateSelector(t, s) \/ EvaluateLookup(t, s)
      BY <3>5, InvalidateSelectorInv, EvaluateLookupInv
    <3>6. CASE CopyEnd(t) \/ EvaluateMiss(t) \/ Return(t)
      BY <3>6, CopyEndInv, EvaluateMissInv, ReturnInv
    <3> QED BY <3>1, <3>2, <3>3, <3>4, <3>5, <3>6
  <2>2. CASE UNCHANGED vars
    BY <2>2, StutterInv
  <2> QED BY <2>1, <2>2
<1> QED BY <1>1, InitInv, PTL DEF Spec

\* The incremental updates of AddPod and RemovePod keep every cached result
\* equal to a fresh evaluation.
THEOREM CachedResultsAreFresh == Spec => []CacheCoherent
<1>1. Inv => CacheCoherent
  BY DEF Inv, Coherent, CacheCoherent
<1> QED BY <1>1, CacheInvariant, PTL

\* EvaluateSelector returns no pod that did not match during the call, although
\* it copies the map without a lock.
THEOREM NoGhosts == Spec => []NoGhostPods
<1>1. Inv => NoGhostPods
  BY DEF Inv, ThreadInv, CopyingInv, EvaluatedInv, NoGhostPods
<1> QED BY <1>1, CacheInvariant, PTL

\* It misses no pod that matched throughout and that AddPod left alone.
THEOREM NothingMissed == Spec => []NoPodMissed
<1>1. Inv => NoPodMissed
  BY DEF Inv, ThreadInv, EvaluatedInv, NoPodMissed
<1> QED BY <1>1, CacheInvariant, PTL
==============================================================================
