------------------------------ MODULE NodeAgent ------------------------------
(***************************************************************************)
(* The node agent (cmd/node-agent/main.go) with what it owns: the address  *)
(* allocator, the identity allocator, the data plane, podEndpoints, the    *)
(* pods' interfaces (pkg/netns/netns.go) and the checkpoint file           *)
(* (pkg/ipam/checkpoint.go); and the callers it serves over the Unix socket*)
(* (internal/grpc/protocol.go, the CNI plugin).                            *)
(*                                                                         *)
(* A handler holds agent.mu from its first to its last step, but its steps *)
(* are separate actions: Stop saves the checkpoint without agent.mu, and   *)
(* the process can die between any two of them.  What outlives the process *)
(* is the checkpoint file and the pods' interfaces (links).                *)
(***************************************************************************)
EXTENDS Integers, FiniteSets, Sequences, SequencesExt

CONSTANTS Pods,          \* "podName/podNamespace"
          Sandboxes,     \* container IDs; each is added at most once
          PodOf,         \* PodOf[c]: the pod sandbox c belongs to
          Args,          \* what CNI_ARGS says beside the pod's name
          ArgsOf,        \* ArgsOf[c]: AddRequest.Args of sandbox c
          Gateway,       \* "gateway/kube-system"
          BlockSize, IDSpace, NoLabels,
          DataPlanes,    \* data planes the node's kernel may support
          Faults,        \* what may go wrong in this instance, see below
          Stuck,         \* sandboxes whose interface DeleteLink may fail to delete
          MaxRestarts    \* bound on the number of times the agent goes down

\* netns, dataplane: SetupPodNetwork, AddPodEndpoint may return an error.
\* save, load: writing, reading the checkpoint may fail.  lost: an answer may not
\* reach the caller.  redel: the runtime repeats DEL for a sandbox it deleted
\* before.  crash: the process may be killed.  stop: it may get SIGTERM; drain:
\* it may get SIGTERM, but only while it has no request.
AllFaults == {"netns", "dataplane", "save", "load", "lost", "redel",
              "crash", "stop", "drain"}

ASSUME SandboxAssumption ==
  /\ PodOf \in [Sandboxes -> Pods]
  /\ ArgsOf \in [Sandboxes -> Args]
ASSUME PodsAssumption == IsFiniteSet(Pods)
ASSUME GatewayAssumption == Gateway \notin Pods
ASSUME LockAssumption == {"free", "reconcile"} \cap Sandboxes = {}
\* A pod CIDR has at least one usable address, the gateway's.
ASSUME BlockSizeAssumption == BlockSize \in Nat /\ BlockSize >= 3
\* nextID does not wrap: an ADD takes at most one ID.
ASSUME IDSpaceAssumption ==
  /\ IsFiniteSet(Sandboxes)
  /\ IDSpace \in Nat /\ Cardinality(Sandboxes) + 1 < IDSpace
ASSUME FaultsAssumption == Faults \subseteq AllFaults /\ Stuck \subseteq Sandboxes
ASSUME MaxRestartsAssumption == MaxRestarts \in Nat

VARIABLES agent,         \* "restoring", "starting" (NewNodeAgent during and
                         \* after Restore), "up", "stopping", "saved" (Stop
                         \* after Save), "down"
          restarts,      \* times the agent went down
          restored,      \* records of the file the running Restore is done with
          mu,            \* holder of agent.mu: a sandbox, "reconcile", "free"
          alloc,         \* NodeAgent.allocator
          ids,           \* NodeAgent.identityAllocator
          podEndpoints,  \* podEndpoints[p]: [ip, id]
          dp,            \* NodeAgent.dp
          add,           \* locals of the running HandleAdd: [ip, id]
          phase,         \* phase[c]: the runtime's view of sandbox c
          links,         \* links[c]: c's veth pair: where its pod end is, its address
          undeleted,     \* history: sandboxes whose DeleteLink returned an error
          file           \* checkpoint records in file order; <<>>: no file

process == <<alloc, ids, podEndpoints, dp>>
life == <<agent, restarts, restored>>
net == <<links, undeleted>>
vars == <<life, mu, process, add, phase, net, file>>

Keys == Pods \cup {Gateway}

\* The labels HandleAdd builds: pod name and namespace, then every argument.
Labels == Pods \X Args
LabelsOf(c) == <<PodOf[c], ArgsOf[c]>>

IP == INSTANCE NodeAllocator
ID == INSTANCE IdentityAllocator

NoIP == IP!NoIP
NoID == ID!NoID

DP == INSTANCE DataPlane WITH Addresses <- IP!Offsets, NoIdentity <- NoID

ASSUME DataPlanesAssumption == DataPlanes \subseteq DP!Kinds

NoEndpoint == [ip |-> NoIP, id |-> NoID]
NoLink == [end |-> "none", ip |-> NoIP]

\* Requests the agent has accepted and not answered.
InFlight == {"addWait", "addVeth", "addMove", "addAddress", "addDp",
             "delWait", "delRelease"}

\* Index of a host veth that net.InterfaceByName finds; 0 when it does not.
VethIndex == 1
Indices == {0, VethIndex}

\* nextIP(podCIDR base): the gateway address told to every pod.
GatewayIP == 1

-----------------------------------------------------------------------------
(* Checkpoint (pkg/ipam/checkpoint.go).                                    *)

Record(k) == [key |-> k, ip |-> alloc.allocated[k]]

\* Bug: the new records go after the old ones.
Save_Appends ==
  \E records \in SetToSeqs({Record(k) : k \in IP!AllocatedKeys(alloc)}) :
     file' = file \o records

\* Save: the records of a snapshot of the allocator, in map iteration order,
\* put in place by a rename; or nothing, when a write fails.
Save ==
  \/ file' \in SetToSeqs({Record(k) : k \in IP!AllocatedKeys(alloc)})
  \/ "save" \in Faults /\ file' = file

-----------------------------------------------------------------------------
(* The agent's process.                                                    *)

Init ==
  /\ agent = "up" /\ restarts = 0 /\ restored = 0 /\ mu = "free"
  /\ alloc = IP!AfterAllocate(IP!NewNodeAllocator, Gateway)
  /\ ids = ID!NewIdentityAllocator
  /\ podEndpoints = [p \in Pods |-> NoEndpoint]
  /\ dp \in {DP!LoadPrograms(DP!NewDataPlane(kind)) : kind \in DataPlanes}
  /\ add = NoEndpoint
  /\ phase = [c \in Sandboxes |-> "idle"]
  /\ links = [c \in Sandboxes |-> NoLink]
  /\ undeleted = {}
  /\ file = <<>>

Running == agent \in {"up", "stopping", "saved"}

\* An answer reaches the runtime, or is lost and counts as a failure.
Answer(c, result) ==
  \/ phase' = [phase EXCEPT ![c] = result]
  \/ "lost" \in Faults /\ phase' = [phase EXCEPT ![c] = "failed"]

\* Bugs: the address is kept; the identity is kept.
Rollback_KeepsAddress ==
  /\ ids' = ID!AfterReleaseIdentity(ids, add.id)
  /\ mu' = "free" /\ add' = NoEndpoint /\ UNCHANGED alloc
Rollback_KeepsIdentity ==
  /\ alloc' = IP!AfterRelease(alloc, PodOf[mu])
  /\ mu' = "free" /\ add' = NoEndpoint /\ UNCHANGED ids

\* HandleAdd's error paths: give the address and the identity back.
Rollback ==
  /\ alloc' = IP!AfterRelease(alloc, PodOf[mu])
  /\ ids' = ID!AfterReleaseIdentity(ids, add.id)
  /\ mu' = "free"
  /\ add' = NoEndpoint

\* Removes the host end of the pair, and with it the pair, wherever the other is;
\* or returns an error, which all three callers drop.
DeleteLink(c) ==
  \/ links' = [links EXCEPT ![c] = NoLink] /\ UNCHANGED undeleted
  \/ c \in Stuck /\ undeleted' = undeleted \cup {c} /\ UNCHANGED links

\* HandleAdd, steps 1 and 2: lock, identity, address.
AddAllocate(c) ==
  /\ Running /\ mu = "free" /\ phase[c] = "addWait"
  /\ LET l == LabelsOf(c)
         id == ID!AllocatedID(ids, l)
         ip == IP!AllocateIP(alloc, PodOf[c])
     IN  IF ip = NoIP
         THEN /\ ids' = ID!AfterReleaseIdentity(ID!AfterAllocateIdentity(ids, l), id)
              /\ Answer(c, "failed")
              /\ UNCHANGED <<mu, add, alloc>>
         ELSE /\ ids' = ID!AfterAllocateIdentity(ids, l)
              /\ alloc' = IP!AfterAllocate(alloc, PodOf[c])
              /\ add' = [ip |-> ip, id |-> id]
              /\ mu' = c
              /\ phase' = [phase EXCEPT ![c] = "addVeth"]
  /\ UNCHANGED <<life, podEndpoints, dp, net, file>>

\* HandleAdd, step 4: SetupPodNetwork, with the effects SimulatedNetlinkOperator
\* gives the netlink calls (the Linux operator is a stub).  CreateVethPair makes
\* both ends in the host's namespace, under a name derived from the container ID.
AddCreateVeth(c) ==
  /\ Running /\ mu = c /\ phase[c] = "addVeth"
  /\ links' = [links EXCEPT ![c] = [end |-> "host", ip |-> NoIP]]
  /\ phase' = [phase EXCEPT ![c] = "addMove"]
  /\ UNCHANGED <<life, mu, process, add, undeleted, file>>

AddMoveToNetns(c) ==
  /\ Running /\ mu = c /\ phase[c] = "addMove"
  /\ links' = [links EXCEPT ![c].end = "pod"]
  /\ phase' = [phase EXCEPT ![c] = "addAddress"]
  /\ UNCHANGED <<life, mu, process, add, undeleted, file>>

\* AddAddress, and then both ends up, the default route, MTU and MAC addresses.
AddConfigure(c) ==
  /\ Running /\ mu = c /\ phase[c] = "addAddress"
  /\ links' = [links EXCEPT ![c].ip = add.ip]
  /\ phase' = [phase EXCEPT ![c] = "addDp"]
  /\ UNCHANGED <<life, mu, process, add, undeleted, file>>

\* Bug: no deferred DeleteLink.
AddNetnsFails_KeepsLink(c) ==
  /\ "netns" \in Faults
  /\ Running /\ mu = c /\ phase[c] \in {"addVeth", "addMove", "addAddress"}
  /\ Rollback
  /\ Answer(c, "failed")
  /\ UNCHANGED <<life, podEndpoints, dp, net, file>>

\* A netlink call fails.  Once there is a pair the deferred DeleteLink is called.
\* (DeleteLink and Rollback are one step: a Save or a crash between them leaves
\* what one before or after them does.)
AddNetnsFails(c) ==
  /\ "netns" \in Faults
  /\ Running /\ mu = c /\ phase[c] \in {"addVeth", "addMove", "addAddress"}
  /\ IF phase[c] = "addVeth" THEN UNCHANGED net ELSE DeleteLink(c)
  /\ Rollback
  /\ Answer(c, "failed")
  /\ UNCHANGED <<life, podEndpoints, dp, file>>

\* The entry of the pod being added, with the index i of its host veth.
ProgramEntry(i) == [ip \in {add.ip} |-> [id |-> add.id, ifIndex |-> i]]

\* Bug: the endpoint is not remembered.
AddProgram_Forgets(c) ==
  /\ Running /\ mu = c /\ phase[c] = "addDp"
  /\ \E i \in Indices : dp' = DP!AddPodEndpoints(dp, ProgramEntry(i))
  /\ mu' = "free"
  /\ add' = NoEndpoint
  /\ Answer(c, "up")
  /\ UNCHANGED <<life, podEndpoints, alloc, ids, net, file>>

\* HandleAdd, steps 5 and 6: program the data plane, remember the endpoint.
AddProgram(c) ==
  /\ Running /\ mu = c /\ phase[c] = "addDp"
  /\ \E i \in Indices : dp' = DP!AddPodEndpoints(dp, ProgramEntry(i))
  /\ podEndpoints' = [podEndpoints EXCEPT ![PodOf[c]] = add]
  /\ mu' = "free"
  /\ add' = NoEndpoint
  /\ Answer(c, "up")
  /\ UNCHANGED <<life, alloc, ids, net, file>>

\* TeardownPodNetwork's error is dropped.
AddProgramFails(c) ==
  /\ "dataplane" \in Faults
  /\ Running /\ mu = c /\ phase[c] = "addDp"
  /\ DeleteLink(c)
  /\ Rollback
  /\ Answer(c, "failed")
  /\ UNCHANGED <<life, podEndpoints, dp, file>>

\* HandleDel of a pod the agent knows nothing of: the interface is not looked for.
DelUnknown(c) ==
  /\ Running /\ mu = "free" /\ phase[c] = "delWait"
  /\ podEndpoints[PodOf[c]] = NoEndpoint
  /\ alloc' = IP!AfterRelease(alloc, PodOf[c])
  /\ Answer(c, "gone")
  /\ UNCHANGED <<life, mu, ids, podEndpoints, dp, add, net, file>>

\* HandleDel, steps 1 and 2: lock, RemovePodEndpoint, TeardownPodNetwork, whose
\* errors are dropped.  (RemovePodEndpoint has none for an IPv4 address.)  The
\* interface is found by the container ID of the request, all else by the pod.
DelTeardown(c) ==
  /\ Running /\ mu = "free" /\ phase[c] = "delWait"
  /\ podEndpoints[PodOf[c]] # NoEndpoint
  /\ mu' = c
  /\ phase' = [phase EXCEPT ![c] = "delRelease"]
  /\ dp' = DP!RemovePodEndpoint(dp, podEndpoints[PodOf[c]].ip)
  /\ DeleteLink(c)
  /\ UNCHANGED <<life, alloc, ids, podEndpoints, add, file>>

\* HandleDel, steps 3 and 4: the address, the identity, the endpoint, unlock.
DelRelease(c) ==
  /\ Running /\ mu = c /\ phase[c] = "delRelease"
  /\ alloc' = IP!AfterRelease(alloc, PodOf[c])
  /\ ids' = ID!AfterReleaseIdentity(ids, podEndpoints[PodOf[c]].id)
  /\ podEndpoints' = [podEndpoints EXCEPT ![PodOf[c]] = NoEndpoint]
  /\ mu' = "free"
  /\ Answer(c, "gone")
  /\ UNCHANGED <<life, dp, add, net, file>>

\* reconcile, parts 1 and 2 (the policy map write is a stub): drop records of
\* pods without an endpoint, program every endpoint again with ifIndex 0, which
\* cannot fail for an address that AddPodEndpoint took before.  No two endpoints
\* have the same address, so their order is immaterial.
\* (Bug: the endpoints are left out of the active set.)
ActivePods_OnlyGateway == {Gateway}

ActivePods == {p \in Pods : podEndpoints[p] # NoEndpoint} \cup {Gateway}

\* Bug: the address allocator is not reconciled.
ReconcileSweep_NoIPAM ==
  /\ Running /\ mu = "free"
  /\ mu' = "reconcile"
  /\ UNCHANGED <<life, process, add, phase, net, file>>

\* The entries reconcile writes.
EndpointEntries ==
  [ip \in {podEndpoints[p].ip : p \in Pods} \ {NoIP} |->
     [id |-> podEndpoints[CHOOSE p \in Pods : podEndpoints[p].ip = ip].id, ifIndex |-> 0]]

ReconcileSweep ==
  /\ Running /\ mu = "free"
  /\ mu' = "reconcile"
  /\ alloc' = IP!AfterReconcile(alloc, ActivePods)
  /\ dp' = DP!AddPodEndpoints(dp, EndpointEntries)
  /\ UNCHANGED <<life, ids, podEndpoints, add, phase, net, file>>

\* Bug: the lock is not given back.
ReconcileSave_KeepsLock ==
  /\ Running /\ mu = "reconcile"
  /\ Save
  /\ UNCHANGED <<life, mu, process, add, phase, net>>

\* reconcile, part 4.
ReconcileSave ==
  /\ Running /\ mu = "reconcile"
  /\ mu' = "free"
  /\ Save
  /\ UNCHANGED <<life, process, add, phase, net>>

-----------------------------------------------------------------------------
(* Life of the process.                                                    *)

\* The process is gone: whoever waits for an answer reads end of file, which
\* the plugin reports as a failure.  Maps and locks live in memory.
ProcessEnds(lastDp) ==
  /\ agent' = "down"
  /\ restored' = 0
  /\ dp' = lastDp
  /\ mu' = "free"
  /\ add' = NoEndpoint
  /\ phase' = [c \in Sandboxes |->
                 IF phase[c] \in InFlight THEN "failed" ELSE phase[c]]
  /\ UNCHANGED <<alloc, ids, podEndpoints, net, file>>

\* SIGTERM, Stop: Server.Stop closes the listener; handlers keep running.
StopServer ==
  /\ restarts < MaxRestarts /\ agent = "up"
  /\ \/ "stop" \in Faults
     \/ "drain" \in Faults /\ \A c \in Sandboxes : phase[c] \notin InFlight
  /\ agent' = "stopping"
  /\ restarts' = restarts + 1
  /\ UNCHANGED <<restored, mu, process, add, phase, net, file>>

\* Stop: checkpoint.Save, without agent.mu and whatever handlers are doing.
StopSave ==
  /\ agent = "stopping"
  /\ agent' = "saved"
  /\ Save
  /\ UNCHANGED <<restarts, restored, mu, process, add, phase, net>>

\* Stop: dp.Close, and main returns.
StopExit == agent = "saved" /\ ProcessEnds(DP!Close(dp)) /\ UNCHANGED restarts

\* The process is killed, while it serves, stops or still starts.
Kill ==
  /\ "crash" \in Faults /\ restarts < MaxRestarts /\ agent # "down"
  /\ restarts' = restarts + 1
  /\ ProcessEnds(dp)

\* NewNodeAgent: an empty allocator; Load, if there is a file.
LoadCheckpoint ==
  /\ agent = "down"
  /\ agent' = "restoring"
  /\ alloc' = IP!NewNodeAllocator
  /\ UNCHANGED <<restarts, restored, mu, ids, podEndpoints, dp, add, phase, net, file>>

\* Load cannot read the file, or cannot parse it: NewNodeAgent goes on without.
LoadFails ==
  /\ "load" \in Faults
  /\ agent = "down" /\ file # <<>>
  /\ agent' = "starting"
  /\ alloc' = IP!NewNodeAllocator
  /\ UNCHANGED <<restarts, restored, mu, ids, podEndpoints, dp, add, phase, net, file>>

\* Bugs: the record's address is taken over and its bit forgotten; a record
\* whose address cannot be had again is dropped.
RestoreRecord_NoBit ==
  /\ agent = "restoring" /\ restored < Len(file)
  /\ LET r == file[restored + 1] IN alloc' = [alloc EXCEPT !.allocated[r.key] = r.ip]
  /\ restored' = restored + 1
  /\ UNCHANGED <<agent, restarts, mu, ids, podEndpoints, dp, add, phase, net, file>>
RestoreRecord_SkipsMoved ==
  /\ agent = "restoring" /\ restored < Len(file)
  /\ LET r == file[restored + 1]
     IN  alloc' = IF IP!AllocateIP(alloc, r.key) = r.ip
                  THEN IP!AfterAllocate(alloc, r.key) ELSE alloc
  /\ restored' = restored + 1
  /\ UNCHANGED <<agent, restarts, mu, ids, podEndpoints, dp, add, phase, net, file>>

\* Restore, one iteration: Allocate for the record's key.  The record's address
\* is only compared with the one allocated, and a warning printed; an error
\* ends the loop, and NewNodeAgent ignores it.
RestoreRecord ==
  /\ agent = "restoring" /\ restored < Len(file)
  /\ LET k == file[restored + 1].key
     IN  IF IP!AllocateIP(alloc, k) = NoIP
         THEN agent' = "starting" /\ restored' = 0 /\ UNCHANGED alloc
         ELSE /\ alloc' = IP!AfterAllocate(alloc, k)
              /\ restored' = restored + 1
              /\ UNCHANGED agent
  /\ UNCHANGED <<restarts, mu, ids, podEndpoints, dp, add, phase, net, file>>

\* The rest of NewNodeAgent, and Start: the gateway's address is reserved, and
\* everything but the allocator starts empty.
StartAgent ==
  /\ \/ agent = "restoring" /\ restored = Len(file)
     \/ agent = "starting"
  /\ agent' = "up"
  /\ restored' = 0
  /\ alloc' = IP!AfterAllocate(alloc, Gateway)
  /\ ids' = ID!NewIdentityAllocator
  /\ podEndpoints' = [p \in Pods |-> NoEndpoint]
  /\ dp' = DP!LoadPrograms(DP!NewDataPlane(dp.kind))
  /\ UNCHANGED <<restarts, mu, add, phase, net, file>>

-----------------------------------------------------------------------------
(* The container runtime, through the CNI plugin.  External: it adds a     *)
(* sandbox of a pod only when the pod's earlier ones are deleted, and      *)
(* repeats a failed ADD with a new sandbox and a failed DEL with the same. *)

\* ADD; a refused connection is a failure.
SendAdd(c) ==
  /\ phase[c] = "idle"
  /\ \A d \in Sandboxes \ {c} : PodOf[d] = PodOf[c] => phase[d] \in {"idle", "gone"}
  /\ phase' = [phase EXCEPT ![c] = IF agent = "up" THEN "addWait" ELSE "failed"]
  /\ UNCHANGED <<life, mu, process, add, net, file>>

SendDel(c) ==
  /\ agent = "up"
  /\ phase[c] \in {"up", "failed"} \cup (IF "redel" \in Faults THEN {"gone"} ELSE {})
  /\ phase' = [phase EXCEPT ![c] = "delWait"]
  /\ UNCHANGED <<life, mu, process, add, net, file>>

\* After a successful DEL the runtime removes the network namespace, and with
\* it the pair if the agent did not and its pod end is there.
RemoveNetns(c) ==
  /\ phase[c] = "gone" /\ links[c].end = "pod"
  /\ links' = [links EXCEPT ![c] = NoLink]
  /\ UNCHANGED <<life, mu, process, add, phase, undeleted, file>>

-----------------------------------------------------------------------------

\* A handler's goroutine takes agent.mu, and goes on while it has it.
Serve(c) == AddAllocate(c) \/ DelUnknown(c) \/ DelTeardown(c)
GoOn(c) ==
  \/ AddCreateVeth(c) \/ AddMoveToNetns(c) \/ AddConfigure(c) \/ AddNetnsFails(c)
  \/ AddProgram(c) \/ AddProgramFails(c) \/ DelRelease(c)

\* The agent's main goroutine, and its supervisor.
ComeBack ==
  StopSave \/ StopExit \/ LoadCheckpoint \/ LoadFails \/ RestoreRecord \/ StartAgent

Next ==
  \/ \E c \in Sandboxes : Serve(c) \/ GoOn(c)
  \/ \E c \in Sandboxes : SendAdd(c) \/ SendDel(c) \/ RemoveNetns(c)
  \/ ReconcileSweep \/ ReconcileSave
  \/ StopServer \/ ComeBack \/ Kill

\* The Go scheduler runs every goroutine that can run; sync.Mutex hands itself
\* to a waiter that has waited long (strong fairness of what takes agent.mu);
\* the ticker of reconciliationLoop keeps ticking; a dead agent is restarted
\* by its supervisor.  Nothing is assumed of the runtime.
Fairness ==
  /\ \A c \in Sandboxes : SF_vars(Serve(c)) /\ WF_vars(GoOn(c))
  /\ SF_vars(ReconcileSweep) /\ WF_vars(ReconcileSave)
  /\ WF_vars(ComeBack)

Spec == Init /\ [][Next]_vars
FairSpec == Spec /\ Fairness

-----------------------------------------------------------------------------
(* Properties.                                                             *)

\* A sandbox the runtime was told is connected.
Up(c) == phase[c] = "up"

Quiet == agent = "up" /\ mu = "free"

\* Types of the agent's fields, of the checkpoint file and of the runtime's
\* view of its sandboxes.
TypeOK ==
  /\ agent \in {"restoring", "starting", "up", "stopping", "saved", "down"}
  /\ restarts \in 0 .. MaxRestarts
  /\ restored \in Nat
  /\ mu \in Sandboxes \cup {"free", "reconcile"}
  /\ alloc \in [bitmap : SUBSET IP!Offsets,
                allocated : [Keys -> IP!Offsets \cup {NoIP}]]
  /\ ids \in ID!IdentityType
  /\ podEndpoints \in [Pods -> [ip : IP!Offsets \cup {NoIP}, id : ID!IDs \cup {NoID}]]
  /\ dp \in DP!Type(Indices, ID!IDs \cup {NoID})
  /\ add \in [ip : IP!Offsets \cup {NoIP}, id : ID!IDs \cup {NoID}]
  /\ phase \in [Sandboxes -> InFlight \cup {"idle", "up", "failed", "gone"}]
  /\ links \in [Sandboxes -> [end : {"none", "host", "pod"}, ip : IP!Offsets \cup {NoIP}]]
  /\ undeleted \subseteq Sandboxes
  /\ file \in Seq([key : Keys, ip : IP!Offsets])

\* No two pods that were told they are connected have the same address on
\* their interfaces.
UniquePodIPs ==
  \A c, d \in Sandboxes : (Up(c) /\ Up(d) /\ c # d) => links[c].ip # links[d].ip

\* Between handlers the allocator holds the address every pod is told is its
\* gateway, which no pod has, and exactly the addresses of podEndpoints: whatever
\* failed on the way, no address is leaked and none is free while a pod uses it.
AddressesMatchEndpoints ==
  Quiet =>
    /\ alloc.allocated[Gateway] = GatewayIP
    /\ \A p \in Pods :
         /\ alloc.allocated[p] = podEndpoints[p].ip
         /\ podEndpoints[p].ip # GatewayIP

\* Between handlers an identity's reference count is the number of endpoints
\* that use it: every path through ADD and DEL releases what it allocated.
IdentitiesMatchEndpoints ==
  Quiet =>
    \A i \in ID!IDs :
      LET users == {p \in Pods : podEndpoints[p].id = i}
      IN  IF i \in ids.live THEN ids.refCount[i] = Cardinality(users)
                            ELSE users = {}

\* Between handlers every copy of the data plane's tables has an entry exactly
\* for the endpoints, with the endpoint's identity: the maps the eBPF programs
\* read, the agent's own tables, and the iptables chain, which may have more.
DataPlaneMatchesEndpoints ==
  Quiet =>
    \A ip \in IP!Offsets :
      LET users == {p \in Pods : podEndpoints[p].ip = ip}
      IN  IF users = {} THEN DP!Forgot(dp, ip)
          ELSE \E p \in users : DP!Knows(dp, ip, podEndpoints[p].id)

\* A connected pod's interface is in its namespace with the address the agent
\* has on record for the pod, and the data plane knows that address.
UpMeansConnected ==
  Quiet => \A c \in Sandboxes : Up(c) =>
    /\ links[c].end = "pod" /\ links[c].ip # NoIP
    /\ podEndpoints[PodOf[c]].ip = links[c].ip
    /\ DP!Knows(dp, links[c].ip, podEndpoints[PodOf[c]].id)

\* As long as the agent does not die, an ADD that failed at any step, or whose
\* answer was lost, and the DEL that follows leave no interface behind, but where
\* DeleteLink itself failed: nothing repeats it, and DEL reports success.
NoInterfaceLeftBehind ==
  \A c \in Sandboxes : phase[c] = "gone" => links[c] = NoLink \/ c \in undeleted

\* Every request the agent accepts is answered or fails: no handler waits
\* forever for agent.mu, whatever reconcile and Stop do.
EveryRequestEnds ==
  \A c \in Sandboxes : phase[c] \in InFlight ~> phase[c] \notin InFlight

\* The record map and the bitmap of the allocator stay sound through restarts:
\* one owner per address, one bit per record.
AllocatorSound == IP!UniqueIPs /\ IP!BitmapMatchesRecords

\* Whenever and however often it was written, and whatever handler was running
\* when Stop wrote it, the checkpoint names no pod and no address twice and
\* never lacks the gateway.
CheckpointConsistent ==
  /\ \A i, j \in DOMAIN file : i # j =>
       file[i].key # file[j].key /\ file[i].ip # file[j].ip
  /\ file # <<>> => \E i \in DOMAIN file : file[i].key = Gateway

\* A checkpoint that can be read is restored to the last record, however full the
\* block: Restore's error never happens.  The address a pod gets is not the
\* checkpoint's but that of its place in the file.
RestoreKeepsEveryRecord ==
  [][agent = "restoring" =>
       /\ agent' # "starting"
       /\ agent' = "up" => \A i \in DOMAIN file : alloc'.allocated[file[i].key] = i]_vars

\* TestCheckpointRestore: a restored pod has the address it had when the
\* checkpoint was saved.
RestoreKeepsAddresses ==
  agent = "restoring" =>
    \A i \in 1 .. restored : alloc.allocated[file[i].key] = file[i].ip

\* No address is leaked for good: once all sandboxes of a pod are gone its
\* address is free again, even when the agent died before, during or after
\* the DEL and restored a checkpoint that still had the record.
GonePodsAreReleased ==
  \A p \in Pods :
    (\A c \in Sandboxes : PodOf[c] = p => phase[c] = "gone")
      ~> \/ alloc.allocated[p] = NoIP
         \/ \E c \in Sandboxes : PodOf[c] = p /\ phase[c] # "gone"
=============================================================================
