# Coordino in TLA+

A verification project for Coordino, a Kubernetes CNI written in Go: TLA+
modules of its components, TLC configurations that check them on small
instances, and TLAPS proofs for every value of the constants. `PROJECT.json`
maps every definition to the lines it models.

## The system

A CNI plugin (one process per request) talks over a Unix socket to a node agent
(one per node). The agent owns the node's address allocator, an identity
allocator, the data plane's endpoint entries and a checkpoint file. A controller
(several replicas, one leads) hands address blocks to nodes, compiles policies
and collects unused identities. Compiled rules become entries of an eBPF map;
a routing backend keeps routes to the other nodes.

| component | state | operations | interacts with |
|---|---|---|---|
| node address allocator, `pkg/ipam/ipam.go` | bitmap, record map | Allocate, Release, Reconcile, readers | called by the agent and by Restore |
| checkpoint, `pkg/ipam/checkpoint.go` | a JSON file | Save, Load, Restore | called by reconcile, Stop, NewNodeAgent |
| block allocator, `pkg/ipam/controller.go` | assignments, nextBlockIndex | AssignBlock, AssignSecondaryBlock, ReleaseBlocks | called by nodeRegistrationLoop |
| identity allocator, `pkg/policy/identity.go` | identities by ID and label hash, nextID | Allocate/ReleaseIdentity, node references | agent handlers, compiler, identityGCLoop |
| data plane, `pkg/dataplane` | endpoint and identity tables, the maps the eBPF programs read, or iptables rules | LoadPrograms, Add/RemovePodEndpoint, Close | called by the agent |
| pod network, `pkg/netns` | veth pairs | SetupPodNetwork, TeardownPodNetwork | called by ADD and DEL |
| node agent, `cmd/node-agent/main.go` | podEndpoints, agent.mu and all of the above | HandleAdd, HandleDel, reconcile, Stop, start | plugin, network namespace, data plane |
| plugin and protocol, `cmd/cni-plugin`, `internal/grpc` | none | one request, one answer per connection | runtime and agent |
| controller, `cmd/controller/main.go` | flock, five loops | election, registration, collection | replicas share only the lock file |
| selector cache, `pkg/policy/selector_cache.go` | pods by labels, results by selector | AddPod, RemovePod, EvaluateSelector, InvalidateSelector | read by the compiler |
| compiler, writer, `pkg/policy`, `ebpf/src/cni.c` | none (pure), the policy map | compile, merge, filter, write, look up | policy store, data plane |
| routing, `pkg/routing` | known nodes, routes, forwarding entries | AddNode, UpdateNode, RemoveNode, SyncRoutes, Close | a watcher of nodes |
| policy store, `pkg/policy/policy_store.go` | policies, the compiled policy, version | AddPolicy, RemovePolicy, Recompile, a callback | drives the compiler, read by reconcile |
| flow exporter, `pkg/observability/flowlog.go` | a buffered channel, running | Start, Stop, Export, a goroutine per Start | |
| WireGuard, host policy, metrics, tracing, API types | maps, lists, counters | setters and stubs | see "Not modelled" |

What is hard in this code: handlers and reconcile serialize on `agent.mu` while
`Stop` saves without it; the process may die between any two steps of a handler,
and only the checkpoint and the pods' interfaces outlive it; answers get lost;
the collector reads reference counts with no lock; `EvaluateSelector` copies a
map after `RUnlock`; the policy store changes its map and compiles it in two
critical sections, and the compiler resolves a selector in three; leaders
overlap; a channel is closed while goroutines read it and callers send; address
arithmetic is done in `uint32`. `PROJECT.json` lists these as
hazards, each at its line.

What makes the parts correct: an address and a block have one owner, bitmap and records
agree, refusals are honest; an identity lives exactly as long as it is held and its ID
never names other labels; after any failed or repeated request addresses, identities,
interfaces, every copy of the data plane's tables and pods agree; every request ends and
no address is lost for good; cached selector results equal fresh ones; what the store
publishes is never older than its policies; the policy map does not depend on the order
of its policies and keeps the highest tier (it does not, see below), and filtering rules
for a node changes no verdict; known nodes are routed and routes of former CIDRs are
gone; an accepted flow record is processed once.

## Modules

| module | models | correspondence |
|---|---|---|
| `AddressPool` | abstract | what an address allocator promises |
| `NodeAllocator` | `ipam.go` | the allocator is one record; a method is an operator `After<Method>` and an action. An address is its offset |
| `BlockTable`, `BlockController` | `ipam/controller.go` | operators on one record; all callers in any order, with a history of what was given |
| `IdentityAllocator`, `IdentityLifecycle` | `identity.go`, `policyCompilationLoop`, `identityGCLoop` | operators on one record; clients, the compiler that never releases, and the collector, cut where no lock is held |
| `DataPlane` | `loader.go`, `maps.go` | operators on one record that holds every copy of an endpoint, for either implementation |
| `NodeAgent` | `node-agent/main.go`, `checkpoint.go`, `netns.go`, `protocol.go`, plugin | composes `NodeAllocator`, `IdentityAllocator` and `DataPlane` by INSTANCE; one action per step of a handler between which `Stop`, a crash or an error can come, the netlink calls included; DEL is `DelUnknown`, or `DelTeardown` and `DelRelease`; Restore goes record by record |
| `Controller` | `controller/main.go` | composes `BlockTable` per replica with election, signals, crashes |
| `PolicyStore` | `policy_store.go`, `CompilePolicy`, `resolvePeers`, `resolveSelectorToIdentities` | extends `IdentityAllocator`; one action per critical section of the store, the cache and the allocator. A compiled policy is its set of (source, destination) keys |
| `FlowExporter` | `RingBufferExporter` | one action per method, three per turn of the goroutine |
| `SelectorCache` | `selector_cache.go` | one action per critical section; the unlocked copy goes key by key |
| `Routing` | `bgp.go`, `vxlan.go` | both backends, chosen in the initial state; the cluster is external |
| `PolicyMap` | `compiler.go`, `platform_rules.go`, `ebpf_writer.go`, `cni.c` | pure functions over sequences of rules, checked over all small lists of policies |
| `MC*` | | instances for TLC. `MCIPAM` and `MCLibraries` each hold two components that share no state: a variable `subject` says which one a behaviour is about |
| `*Proofs` | | TLAPS proofs |

Operators named `X_Y` beside an operator `X` are plausible bugs of `X`. They
are not part of the model; replacing `X` by one of them must make a property
fail.

Things a reader may stumble over:

- The data plane's maps are in memory in this commit, so a restarted agent
  starts with none. The Linux netlink operator is a stub: a veth pair is modelled
  with the effects `SimulatedNetlinkOperator` gives the calls, and the errors are
  those of `NetlinkOperator`. DeleteLink may fail too, for the sandboxes in `Stuck`: its
  three callers drop the error, and the history variable `undeleted` remembers it. CHECK
  and HEALTH only read and are left out.
- An error path of HandleAdd (DeleteLink, then the address, then the identity) is one
  step. Only `Stop`'s Save and a crash can see its middle; the file then has the pod's
  record, as before the step, or lacks it, as after it, and an interface that is gone a
  moment before the process dies makes no difference to what comes next.
- Nothing under `cmd/` calls `SelectorCache.AddPod`, the routing backends,
  `PolicyStore.AddPolicy`, `RingBufferExporter`, `CompileNodeIsolationPolicy` or
  `ReleaseBlocks` yet. Their modules are models
  of the libraries, called by anybody in any order.
- A pod's interface lives in its network namespace: it survives the agent and
  goes when the runtime removes the namespace.
- Starting the agent is not atomic: `LoadCheckpoint` makes a new allocator and reads the
  file (`LoadFails`: it cannot, and NewNodeAgent goes on with an empty allocator),
  `RestoreRecord` is one turn of Restore's loop (an error ends it), `StartAgent`
  reserves the gateway's address and serves. The process can die between any two.
- A spec in `PolicyStore` has at most one ingress rule with at most one peer. Egress rules
  and further rules and peers go through the same steps; `PolicyMap` has both directions
  and lists of peers and ports.
- Go maps are iterated in any order: `Save` writes its records in any order,
  `copyMap` passes the keys in any order. The concurrent map read and write of
  `copyMap` may also abort the process, which only ends a behaviour.
- The hash of a label set stands for the set; collisions are left out.
- `undisturbed` in `PolicyStore` is a history variable: no policy, pod or identity
  changed since the last compilation took the lock. The compiler's own allocations
  count as a change only when they give an identity to the labels of a pod.
- A module's `TypeOK`, where it has one, is the base of its inductive invariant and
  left to the proofs; the runs spend their properties on the rest.

## Runs

Passing:

| run | question | bounds |
|---|---|---|
| `ipam` | is a node's allocator sound to exhaustion and back, and an address pool; are the cluster's blocks disjoint, sticky and never given twice? | 5 pods, 4 usable addresses, so it runs out with a pod waiting (the operators do not need a power of two); 3 nodes, 4 blocks ending exactly at the end of a 6-bit address space, where a wrong scale or one block more wraps |
| `identity_lifecycle` | does a held identity stay, with the compiler and the collector anywhere? | 3 clients, 2 label sets, 1 node; each selector compiled twice (`MaxTicks`); `MaxNextID` below `IDSpace`: no wrap |
| `agent_failures` | do ADD, DEL and reconcile with every error path and lost answers keep addresses, identities, interfaces, data plane and pods consistent? | both data planes (`DataPlanes`), 3 pods, one of them recreated with other arguments, two addresses beside the gateway: the third pod is refused. DeleteLink may fail for the first sandbox of the recreated pod (`Stuck`): its pair is there while the second is added. 2.8 million states, the largest run |
| `agent_restart` | after a crash or stop anywhere, are checkpoint and restored allocator sound, does each request end, is every address freed in the end? | 2 pods that with the gateway fill a block of exactly three usable addresses, so Restore has none to spare; 2 restarts (`MaxRestarts`), so the process also dies while it stops or restores; repeated DEL; a checkpoint that cannot be read |
| `controller_failover` | one leader per lock, agreeing leaders, always led again? | 3 replicas on 2 hosts, 3 signals or crashes, 2 blocks and 3 nodes: the last is refused |
| `selector_cache` | is the incremental cache exact, and what can an evaluation beside writers get wrong? | 2 goroutines, 2 pods, 3 label sets, 2 selectors: a pod can change and still match, or stop matching |
| `libraries` | are known nodes routed through missed events, moves, Close and SyncRoutes; is an accepted flow record processed once, and what panics? | both backends, 2 nodes, 2 CIDRs each, 2 addresses; a buffer of 2, 5 records (`MaxRecords`), 2 goroutines (`MaxStarts`): the buffer fills, drains after Stop, and is read by two goroutines after a restart. A panic ends the process, hence no deadlock check |
| `policy_merge` | is the policy map the same in every order of the policies, does filtering keep verdicts? | every list of at most 3 policies of three tiers (`MaxPolicies`), isolation policies of 2 names, protocols in both cases and ANY. The enumeration stops there, hence no deadlock check |
| `policy_store` | is what is published never older than the policies, and right when nothing interferes; is it announced? | 2 callers, 2 names, 3 specs (any peer, a peer selector, no rule), a pod whose labels can be exactly a selector's, 3 changes of pods and identities (`MaxSteps`), 2 compilations (`MaxVersion`): enough for two callers to change and compile in every order. When the bounds are used up everybody may stop, hence no deadlock check |

Violated, against a line of the repository (see `findings`):

| run | what the code does |
|---|---|
| `restart_unique_ips` | the agent stops while it has no request (fault `drain`), and its checkpoint is written and read without error; but podEndpoints is not restored, so the first reconcile after the restart frees the records of running pods and the next ADD gives an address out again |
| `restore_addresses` | with the same faults: Restore allocates anew in file order, and Save wrote the records in the order of a Go map, so a pod can come back with another address than the checkpoint says; TestCheckpointRestore demands the same one |
| `policy_tiers` | "ANY", "TCP" and "UDP" are one protocol in the policy map and rules are written in priority order, so the platform's TCP/53 rule replaces an isolation policy's ANY/53 rule, against the documented order of tiers |

Fairness is assumed in four runs. `agent_restart`: the Go scheduler runs what can run;
`sync.Mutex` is starvation-free, hence strong fairness for what takes `agent.mu`; the
reconcile ticker ticks; a supervisor restarts a dead agent. Nothing is assumed of the
runtime. `controller_failover`: the election ticker, the receive on `sigCh` and the
supervisor go on (weak fairness); signals and crashes are bounded by `MaxStops` and
never fair. `policy_store`: a goroutine that holds `s.mu` goes on (weak), and neither a
writer nor a reader of an `RWMutex` waits for ever (strong fairness of what takes it);
nothing is assumed of callers or pods. `libraries`: the flow exporter's goroutines run
(weak); nobody has to call anything, and nothing is assumed of routing.

`LeadersAgree` deserves a word: replicas share no state, and leaders on two hosts
do lead at the same time; they agree only because `nodeRegistrationLoop` registers
the same names in the same order.

## Proofs

TLC shows a property on the instances above; these theorems hold for every value of
the constants that satisfies the assumptions of the modules. Each `*Proofs` module
proves one inductive invariant `Inv`, action by action, and derives the properties
from it; `NodeAgentProofs` and `LibraryProofs` have a second one. TLC has checked each
of them as an invariant before it was proved.

- `NodeAllocatorProofs`. `Inv` = types, `UniqueIPs`, `BitmapMatchesRecords`, usable
  addresses only. Uniqueness alone is not inductive: `Allocate` looks only at the
  bitmap, and a clear bit is nobody's address only when bitmap and records agree;
  that agreement in turn needs uniqueness, because `Release` clears the bit of its
  own record. From `Inv`: addresses unique, bitmap exact, refusals honest,
  `Available` exact (a bijection between records and set bits), addresses sticky,
  and the refinement of `AddressPool`. Assumed: a positive block size, finitely
  many pods.
- `BlockControllerProofs`. `BlockInv` adds to the types that what is held or was given
  has an index below `nextBlockIndex` (`HeldBelowNext`, `GivenBelowNext`), that every
  index below was given (`BelowNextGiven`), and that nothing is held twice. The
  arithmetic lemmas show that `uint32` block addresses are exact and apart as long
  as the cluster CIDR ends inside the address space, which an aligned CIDR does.
  From `BlockInv`: blocks disjoint, one owner ever, refusals honest, blocks sticky.
  `BlockTableAssumption` excludes a `BlockSize` shorter than the cluster's prefix,
  which panics in the code.
- `IdentityLifecycleProofs`. A held identity stays live only because its reference count
  is exact (or a release by one holder could delete what another holds); the count is
  exact only because a new ID has no holder, which needs every ID at and above `nextID`
  to be unused (`IndexInv`); and `hashToID`, `labels` and the live identities must index
  each other. The collector reads counts without the lock and deletes later:
  `CollectorInv` says that what it remembers was given out once, so the ID it found dead
  is not given out again in between. Counting is about the cardinality of the holders,
  with the library's theorems on finite sets. Assumed: finitely many clients, and
  `MaxNextID` below `IDSpace`, i.e. `nextID` does not wrap; after a wrap the properties
  are false (see below).
- `LibraryProofs`, about two libraries that nothing under `cmd/` calls yet.
  `Routing`: `KnownNodesAreRouted` is inductive with the types, because a pod CIDR
  has one owner and so no method touches another node's route. `NoStaleRoutes` needs
  `KnownIsTrue`: unless an event was missed, what the backend knows of a node is true.
  Assumed: one owner per CIDR (`OwnerOf`), which the block allocator guarantees
  (`BlocksNeverOverlap`).
  `FlowExporter`: `AcceptedIsAccountedFor` compares a set and a count with what is in
  three places, so it is inductive only with `RecordInv`: the buffer has no record twice,
  no two goroutines have the same one in hand, and the three places are disjoint. Then
  a record that moves from the buffer to a hand, or from there to the processed ones,
  changes no sum. `OnlyRestartPanics` needs `PanicInv`: the channel is closed only after
  a Start, and running on a closed channel takes a second one. Assumed: a
  capacity of at least one. The two modules are extended together, which is why the
  names of `FlowExporter`'s specification and of its `running` begin with "flow".
- `ControllerProofs`. Two replicas share nothing, so that they agree is inductive only
  when the whole table of each is determined: after `k` registrations it is
  `TableAfter(k)`. Assumed: the names registered are the same everywhere
  (`NodesAssumption`), as in `nodeRegistrationLoop`.
- `SelectorCacheProofs`. Results are coherent even in the middle of `AddPod`, when the
  pod is in no index. An evaluation is bounded from both sides: all that is left to copy
  matched at some moment of the call, and a pod that matched throughout and was not
  written is copied or still in the map being copied, also when `InvalidateSelector` has
  detached that map. `NotCached` and `Absent` are no pod sets, labels or threads.
- `PolicyStoreProofs`. `NothingUnpublished` follows from the lock: its holder compiles
  the map the store has. `PublishedMatchesStore` needs more, because a compilation
  allocates identities for selectors and so can change what a selector resolves to:
  what is compiled so far is `Settled` (resolved to identities of pods, or to one of the
  selector's own), and a settled selector resolves to the same until a step clears
  `undisturbed`. Nothing is assumed of `nextID`: this holds across a wrap.
- `NodeAgentProofs`, as long as the agent lives (`AgentLives`: `Faults` has no crash, no
  stop, no repeated DEL of a sandbox that is gone; the errors of the network, of the
  data plane and of Save, DeleteLink's too, and lost answers, may all be there). The
  properties speak of the moments between handlers; what makes them inductive is
  `Owned(p)`, what pod `p` has whether `podEndpoints` says so or only the locals of the
  HandleAdd that holds `agent.mu`, and `Programmed(p)`, what the data plane should know
  of `p`, which HandleDel takes away a step before the rest (`delRelease`). `AddressInv`
  and `IdentityInv` tie records and identities to `Owned` at every step, the tables
  follow `Programmed`, and `LinksInv` says that an interface is where its sandbox's
  phase says unless DeleteLink returned an error for it (`undeleted`); `RuntimeInv` says
  that a pod has one sandbox at a time, so that an ADD finds nothing of its pod and an
  identity, which has the pod's name among its labels, has one user. Lemmas on the
  operators of the two allocators and of the data plane carry the steps. Assumed: a pod
  CIDR with at least one usable address (the agent ignores the error when the gateway
  gets none, and can then serve no pod); finitely many sandboxes, fewer than the
  identities, so that `nextID` does not wrap. The hypothesis `AgentLives` cannot be
  dropped: after a restart `UniquePodIPs` is false (`restart_unique_ips`).
- `NodeAgentProofs`, across restarts: no hypothesis on `Faults`, so the agent may die or
  stop at any step, of Restore too, any number of times, and the checkpoint may be
  unreadable. What survives is less, and `RestartInv` says it: records and bitmap of the
  allocator agree on usable addresses with one owner each (`AllocUsable`, through every
  handler step); a serving agent has the gateway's record; the checkpoint, written by
  Stop in the middle of any handler, has distinct pods with distinct usable addresses
  and the gateway among them (`FileSound`); and during Restore the pods with a record
  are exactly those of the `restored` first entries, the i-th with address i
  (`RestoringInv`); when Load or Restore gives up, the agent is "starting" with a sound
  allocator. `RestoreKeepsEveryRecord` then rests on counting: the file's addresses are
  an injection of its entries into the usable ones, so there are at least `Len(file)` of
  these, while only `restored < Len(file)` bits are set; a free one is left and
  `Allocate` cannot fail (`RestoreNeverFull`); the lowest free one is that of the
  record's place in the file. Assumed in addition: finitely many pods. That a pod keeps
  *its* address is not among the conclusions, as it is false (`restore_addresses`).

`AvailableIsExact` is proved and not part of a run.

Only model-checked:

- Liveness (`EveryRequestEnds`, `GonePodsAreReleased`, `AlwaysLedAgain`, `ChangesAreAnnounced`,
  `AcceptedIsProcessed`): fairness and ENABLED are out of the proof system's reach.
- `PolicyMap`: merge, filter and map writes are folds over sequences, and what a fold
  computes for every input takes an induction over data, which the installed provers
  cannot do.

## Departures of the code from its documents without a run

Found while modelling; the models follow the code.

- `identity.go:52`: `nextID` wraps to 0 after 2^32 - 1 label sets, and 0 is the
  wildcard ("identity 0 = wildcard", `compiler.go:209`).
- `node-agent/main.go:117`: after a restart a pod of the checkpoint can have taken offset 1
  before the gateway ("Reserve gateway IP (first usable IP)").
- `node-agent/main.go:111`: Load's error is dropped. An agent that cannot read its
  checkpoint starts with an empty allocator beside running pods, and its next Save
  overwrites the file ("Agent restart does not drop existing traffic",
  `cni-implementation-tasks.md:83`).
- `netns.go:74`, `node-agent/main.go:369` and `:419`: DeleteLink's error is dropped, so DEL
  answers success and forgets the pod while its pair stays; nothing deletes it later.
  `NoInterfaceLeftBehind` excepts exactly these pairs.
- `node-agent/main.go:282`: the data plane entries of pods that were running before a
  restart never come back ("Agent restart does not drop existing traffic",
  `cni-implementation-tasks.md:83`).
- `node-agent/main.go:228-229`: Stop saves with handlers in flight; an ADD that
  completes after the save is in no checkpoint, and after the restart its address is given
  out again without any reconcile. This is a second way, shorter than the one of
  `restart_unique_ips`, to two pods with one address: with the fault `stop` in place of
  `drain` TLC finds it first.
- `node-agent/main.go:403`: DEL finds the endpoint by pod, not by container, so a
  repeated DEL of an old sandbox takes away what the new one uses.
- `node-agent/main.go:284`: reconcile overwrites the interface index with 0.
- `node-agent/main.go:321`: the pod's name is one of its labels, so pods never share
  an identity ("reuse across pods with identical labels", tasks, line 72).
- `ipam/controller.go:92`: ReleaseBlocks returns no block to the pool
  (`IsBlockAvailable`, line 120).
- `controller/main.go:141` and `:30`: the loops of a leader go on after it released
  the lock, and the lock file under /tmp excludes only replicas on one host.
- `selector_cache.go:109`: a pod that AddPod rewrites during the copy can be missing
  from a result although it matched all the time (`NoPodMissed` says: only such a pod).
- `bgp.go:149`: after a missed change of a node's CIDR SyncRoutes leaves the old route
  ("remove stale", line 127). `NoStaleRoutes` holds when no change was missed.
- `compiler.go:186`: the labels of the selected pods are read in a second critical
  section, so a pod relabelled in between contributes an identity the selector does
  not match ("Resolve PodSelector to target identities", line 114).
- `compiler.go:199`: a selector that finds no identity takes a new reference at every
  compilation and nothing gives one back: the controller's "default-deny" is compiled
  every 10 s, and its identity is never collected ("garbage collects the identity when it reaches 0", `identity.go:68`).
- `policy_store.go:105`: compiling twice can give two results with nothing changed in
  between: the identity allocated for one policy's selector is found by the next
  compilation for a pod that has exactly these labels. Nothing recompiles when a pod
  or an identity changes.
- `netns.go:66`: an agent that dies between CreateVethPair and MoveToNetns leaves the
  pair in the host's namespace; the DEL that follows finds no endpoint and tears nothing
  down. `NoInterfaceLeftBehind` holds while the agent lives.
- `loader.go:297`: iptables rules are never removed, and every reconcile adds one more
  per endpoint. `loader.go:228`: UpdateIdentity leaves `endpoint_map` as it was.
- `flowlog.go:71`: Start after Stop does not make a new channel, so the next Export or
  Stop panics. `OnlyRestartPanics` says that nothing else does.
- `cni.c:130`: the exact lookup never finds an entry for the wildcard identity.

## Not modelled

- Parsing of configuration, CNI_ARGS and JSON, the wire format: conversions no
  property depends on.
- `encryption/wireguard.go`: a peer map with setters under one lock; keys, rotation and
  interface calls are stubs, and nothing calls them.
- `nodeisolation/host_policy.go`: a list with setters under one lock. The agent creates
  one and calls nothing on it; `PolicyEnforcer` has no implementation, so applying the
  list has no effect to model.
- `UpdateIdentity`, `AttachToInterface`, `DeleteMap`, `CleanupStaleMaps` of the eBPF data
  plane: no caller outside tests. `RecoverMaps` does nothing.
- Metrics, tracing, logging, `LogExporter`, API types: no state the program depends on.
- Collisions of label hashes, and `nextID` beyond 2^32 - 1.

## Plan

The model covers what the code does beyond setters and stubs, and every safety property
of the passing runs is proved except those of `PolicyMap`. To extend the proofs there,
`MergeAndPrioritize` and the map writer would have to be stated by what their result
satisfies rather than as folds, and a prover with induction would have to connect the
two. When the code changes, `NodeAgent` is the module to revisit first. `UniquePodIPs`
fails across restarts for several reasons, and restoring podEndpoints alone would not
make it hold: records come back at other addresses, Stop does not wait for the handlers
before it saves, and what a crash or an unreadable checkpoint loses is given out again.
