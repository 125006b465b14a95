----------------------------- MODULE Controller -----------------------------
(***************************************************************************)
(* The controller's replicas (cmd/controller/main.go): leader election by  *)
(* flock on a file, the nodeRegistrationLoop of whoever leads, SIGTERM and *)
(* crashes.  Each replica has its own IPAMController, in memory only.      *)
(***************************************************************************)
EXTENDS BlockTable

CONSTANTS Replicas, Nobody,
          Hosts, HostOf, \* HostOf[r]: where r runs; the lock file is under /tmp
          MaxStops       \* bound on signals and crashes together

\* nodeRegistrationLoop registers "node-0", "node-1", ...; the last one here
\* finds no block left.
ASSUME NodesAssumption == Nodes = 0 .. TotalBlocks
ASSUME ReplicasAssumption == Nobody \notin Replicas /\ MaxStops \in Nat
ASSUME HostsAssumption == HostOf \in [Replicas -> Hosts]

VARIABLES pc,            \* "down", "electing", "running", "released"
          sig,           \* sig[r]: a signal is waiting in sigCh
          lock,          \* lock[h]: holder of the flock on host h
          table,         \* table[r]: the IPAMController of r
          nodeIdx,       \* local variable of r's nodeRegistrationLoop
          stops          \* signals and crashes so far

vars == <<pc, sig, lock, table, nodeIdx, stops>>

Init ==
  /\ pc = [r \in Replicas |-> "down"]
  /\ sig = [r \in Replicas |-> FALSE]
  /\ lock = [h \in Hosts |-> Nobody]
  /\ table = [r \in Replicas |-> NewIPAMController]
  /\ nodeIdx = [r \in Replicas |-> 0]
  /\ stops = 0

\* main, NewController: external supervision starts a replica that is down.
StartReplica(r) ==
  /\ pc[r] = "down"
  /\ pc' = [pc EXCEPT ![r] = "electing"]
  /\ sig' = [sig EXCEPT ![r] = FALSE]
  /\ table' = [table EXCEPT ![r] = NewIPAMController]
  /\ nodeIdx' = [nodeIdx EXCEPT ![r] = 0]
  /\ UNCHANGED <<lock, stops>>

\* Bug: the error of Flock is ignored.
TryAcquire_IgnoresError(r) ==
  /\ pc[r] = "electing"
  /\ lock' = [lock EXCEPT ![HostOf[r]] = r]
  /\ pc' = [pc EXCEPT ![r] = "running"]
  /\ UNCHANGED <<sig, table, nodeIdx, stops>>

\* TryAcquire from Run's election loop; with the lock the loops start.  When
\* another replica has it, TryAcquire closes the file and the loop goes on.
TryAcquire(r) ==
  /\ pc[r] = "electing"
  /\ lock[HostOf[r]] = Nobody
  /\ lock' = [lock EXCEPT ![HostOf[r]] = r]
  /\ pc' = [pc EXCEPT ![r] = "running"]
  /\ UNCHANGED <<sig, table, nodeIdx, stops>>

\* The reconciliation loops stop with the process, not before.
LoopsRun(r) == pc[r] \in {"running", "released"}

\* Bug: nodes are registered in no particular order.
RegisterNode_AnyOrder(r) ==
  /\ LoopsRun(r)
  /\ \E n \in Nodes : table' = [table EXCEPT ![r] = AfterAssignBlock(@, n)]
  /\ UNCHANGED <<pc, sig, lock, nodeIdx, stops>>

\* One tick of nodeRegistrationLoop; a refused node is tried again.
RegisterNode(r) ==
  /\ LoopsRun(r)
  /\ table' = [table EXCEPT ![r] = AfterAssignBlock(@, nodeIdx[r])]
  /\ nodeIdx' = IF AssignedBlock(table[r], nodeIdx[r]) = NoBlock THEN nodeIdx
                ELSE [nodeIdx EXCEPT ![r] = @ + 1]
  /\ UNCHANGED <<pc, sig, lock, stops>>

\* SIGTERM or SIGINT: a standby has nobody to read it before it leads.
Signal(r) ==
  /\ pc[r] # "down" /\ stops < MaxStops
  /\ sig' = [sig EXCEPT ![r] = TRUE]
  /\ stops' = stops + 1
  /\ UNCHANGED <<pc, lock, table, nodeIdx>>

\* main after <-sigCh: Release unlocks and closes the file.
Release(r) ==
  /\ pc[r] = "running" /\ sig[r]
  /\ lock' = [lock EXCEPT ![HostOf[r]] = Nobody]
  /\ pc' = [pc EXCEPT ![r] = "released"]
  /\ UNCHANGED <<sig, table, nodeIdx, stops>>

\* main returns.
Exit(r) ==
  /\ pc[r] = "released"
  /\ pc' = [pc EXCEPT ![r] = "down"]
  /\ UNCHANGED <<sig, lock, table, nodeIdx, stops>>

\* Bug: a lock that outlives its holder, as the mere existence of a file does.
Crash_KeepsLock(r) ==
  /\ pc[r] # "down" /\ stops < MaxStops
  /\ pc' = [pc EXCEPT ![r] = "down"]
  /\ stops' = stops + 1
  /\ UNCHANGED <<sig, lock, table, nodeIdx>>

\* The kernel closes the files of a dead process, and with them its flock.
Crash(r) ==
  /\ pc[r] # "down" /\ stops < MaxStops
  /\ pc' = [pc EXCEPT ![r] = "down"]
  /\ lock' = [h \in Hosts |-> IF lock[h] = r THEN Nobody ELSE lock[h]]
  /\ stops' = stops + 1
  /\ UNCHANGED <<sig, table, nodeIdx>>

Next ==
  \E r \in Replicas :
    \/ StartReplica(r) \/ TryAcquire(r) \/ RegisterNode(r)
    \/ Signal(r) \/ Release(r) \/ Exit(r) \/ Crash(r)

Spec == Init /\ [][Next]_vars

\* The election loop's ticker, main's receive on sigCh and the supervisor of
\* the Deployment's replicas all go on.
Fairness ==
  \A r \in Replicas :
    WF_vars(StartReplica(r)) /\ WF_vars(TryAcquire(r))
    /\ WF_vars(Release(r)) /\ WF_vars(Exit(r))

FairSpec == Spec /\ Fairness

-----------------------------------------------------------------------------
(* Properties.                                                             *)

\* A replica that got past the election holds the lock until it gives it up,
\* through any crashes and restarts of the others: never two leaders on a host.
LeaderHoldsLock == \A r \in Replicas : pc[r] = "running" => lock[HostOf[r]] = r

\* Replicas share no state, yet a node is given the same block by every leader
\* that ever registers it: neither failover nor two leaders at a time renumber
\* the cluster.
LeadersAgree ==
  \A r, s \in Replicas, n \in Nodes :
    (table[r].assignments[n] # <<>> /\ table[s].assignments[n] # <<>>)
      => table[r].assignments[n] = table[s].assignments[n]

\* Whatever crashes or is told to stop, some replica leads again on its host.
AlwaysLedAgain ==
  \A h \in Hosts : []<>(\E r \in Replicas : HostOf[r] = h /\ pc[r] = "running")
=============================================================================
