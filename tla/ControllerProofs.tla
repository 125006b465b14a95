-------------------------- MODULE ControllerProofs --------------------------
(***************************************************************************)
(* Proofs about Controller for any replicas, hosts and number of blocks.   *)
(* LeadersAgree speaks of two replicas that share nothing and is inductive *)
(* only when the whole table of each is determined: a replica that has     *)
(* registered k nodes has given block n to node n, for every n < k, and    *)
(* nothing else.                                                           *)
(***************************************************************************)
EXTENDS Controller, TLAPS

\* The table of a replica that has registered k nodes.
TableAfter(k) ==
  [assignments    |-> [n \in Nodes |-> IF n < k THEN <<BlockAddress(n)>> ELSE <<>>],
   nextBlockIndex |-> k]

\* Types of the processes and of the locks.
TypeOK ==
  /\ pc \in [Replicas -> {"down", "electing", "running", "released"}]
  /\ sig \in [Replicas -> BOOLEAN]
  /\ lock \in [Hosts -> Replicas \cup {Nobody}]
  /\ nodeIdx \in [Replicas -> Nodes]
  /\ stops \in 0 .. MaxStops

\* A replica's table is a function of how many nodes it has registered.
TableInv == table = [r \in Replicas |-> TableAfter(nodeIdx[r])]

\* The inductive invariant.
Inv == TypeOK /\ LeaderHoldsLock /\ TableInv

-----------------------------------------------------------------------------
(* One registration.                                                       *)

LEMMA BlockAddressIsNoError ==
  ASSUME NEW i \in Nat
  PROVE  BlockAddress(i) # NoBlock
<1> DEFINE x == BaseIP + ((i * BlockLen) % Word)
<1>1. i * BlockLen \in Nat
  BY BlockTableAssumption
<1>2. (i * BlockLen) % Word \in Nat
  BY <1>1, BlockTableAssumption
<1>3. x \in Nat
  BY <1>2, BlockTableAssumption
<1> HIDE DEF x
<1>4. x % Word >= 0
  BY <1>3, BlockTableAssumption
<1> QED BY <1>4 DEF BlockAddress, NoBlock, x

\* AssignBlock for the node whose turn it is: the next block, or an error and
\* no change when the blocks are used up.
LEMMA RegisterNext ==
  ASSUME NEW k \in Nodes
  PROVE  /\ k < TotalBlocks =>
              /\ AfterAssignBlock(TableAfter(k), k) = TableAfter(k + 1)
              /\ AssignedBlock(TableAfter(k), k) # NoBlock
              /\ k + 1 \in Nodes
         /\ k = TotalBlocks =>
              /\ AfterAssignBlock(TableAfter(k), k) = TableAfter(k)
              /\ AssignedBlock(TableAfter(k), k) = NoBlock
<1> DEFINE t == TableAfter(k)
<1>1. k \in Nat /\ k <= TotalBlocks /\ TotalBlocks \in Nat
  BY NodesAssumption, BlockTableAssumption
<1>2. /\ t.assignments[k] = <<>>
      /\ t.nextBlockIndex = k
      /\ t.assignments = [n \in Nodes |-> IF n < k THEN <<BlockAddress(n)>> ELSE <<>>]
  BY <1>1 DEF TableAfter
<1> HIDE DEF t
<1>3. ASSUME k < TotalBlocks
      PROVE  /\ AfterAssignBlock(t, k) = TableAfter(k + 1)
             /\ AssignedBlock(t, k) # NoBlock
             /\ k + 1 \in Nodes
  <2>1. IsBlockAvailable(t)
    BY <1>2, <1>3 DEF IsBlockAvailable
  <2>2. AfterAssignBlock(t, k) =
          [assignments    |-> [t.assignments EXCEPT ![k] =
                                 Append(<<>>, BlockAddress(k))],
           nextBlockIndex |-> k + 1]
    BY <1>2, <2>1 DEF AfterAssignBlock, AfterAssignNextBlock
  <2>3. Append(<<>>, BlockAddress(k)) = <<BlockAddress(k)>>
    OBVIOUS
  <2>4. [t.assignments EXCEPT ![k] = <<BlockAddress(k)>>]
          = [n \in Nodes |-> IF n < k + 1 THEN <<BlockAddress(n)>> ELSE <<>>]
    <3>1. \A n \in Nodes : (n < k + 1) <=> (n < k \/ n = k)
      BY <1>1, NodesAssumption
    <3> QED BY <1>2, <3>1
  <2>5. AssignedBlock(t, k) = BlockAddress(k)
    BY <1>2, <2>1 DEF AssignedBlock
  <2>6. k + 1 \in Nodes
    BY <1>1, <1>3, NodesAssumption
  <2> QED BY <1>1, <2>2, <2>3, <2>4, <2>5, <2>6, BlockAddressIsNoError DEF TableAfter
<1>4. ASSUME k = TotalBlocks
      PROVE  /\ AfterAssignBlock(t, k) = t
             /\ AssignedBlock(t, k) = NoBlock
  <2>1. ~IsBlockAvailable(t)
    BY <1>1, <1>2, <1>4 DEF IsBlockAvailable
  <2> QED BY <1>2, <2>1 DEF AfterAssignBlock, AfterAssignNextBlock, AssignedBlock
<1> QED BY <1>3, <1>4 DEF t

-----------------------------------------------------------------------------
(* Inv is inductive: one lemma per action.                                 *)

LEMMA InitInv == Init => Inv
<1> SUFFICES ASSUME Init PROVE Inv
  OBVIOUS
<1>1. 0 \in Nodes /\ \A n \in Nodes : ~(n < 0)
  BY NodesAssumption, BlockTableAssumption
<1>2. TypeOK
  BY <1>1, ReplicasAssumption DEF Init, TypeOK
<1>3. NewIPAMController = TableAfter(0)
  BY <1>1 DEF NewIPAMController, TableAfter
<1>4. TableInv
  BY <1>3 DEF Init, TableInv
<1>5. LeaderHoldsLock
  BY DEF Init, LeaderHoldsLock
<1> QED BY <1>2, <1>4, <1>5 DEF Inv

LEMMA StartReplicaInv ==
  ASSUME Inv, NEW r \in Replicas, StartReplica(r)
  PROVE  Inv'
<1>1. 0 \in Nodes /\ \A n \in Nodes : ~(n < 0)
  BY NodesAssumption, BlockTableAssumption
<1>2. NewIPAMController = TableAfter(0)
  BY <1>1 DEF NewIPAMController, TableAfter
<1>3. TypeOK'
  BY <1>1 DEF StartReplica, Inv, TypeOK
<1>4. LeaderHoldsLock'
  BY DEF StartReplica, Inv, TypeOK, LeaderHoldsLock
<1>5. TableInv'
  BY <1>2 DEF StartReplica, Inv, TypeOK, TableInv
<1> QED BY <1>3, <1>4, <1>5 DEF Inv

LEMMA RegisterNodeInv ==
  ASSUME Inv, NEW r \in Replicas, RegisterNode(r)
  PROVE  Inv'
<1> DEFINE k == nodeIdx[r]
<1>1. k \in Nodes /\ table[r] = TableAfter(k)
  BY DEF Inv, TypeOK, TableInv
<1>2. /\ table' = [table EXCEPT ![r] = AfterAssignBlock(TableAfter(k), k)]
      /\ nodeIdx' = IF AssignedBlock(TableAfter(k), k) = NoBlock THEN nodeIdx
                    ELSE [nodeIdx EXCEPT ![r] = k + 1]
      /\ UNCHANGED <<pc, sig, lock, stops>>
  BY <1>1 DEF RegisterNode, Inv, TableInv
<1>3. k < TotalBlocks \/ k = TotalBlocks
  BY <1>1, NodesAssumption, BlockTableAssumption
<1>4. CASE k < TotalBlocks
  <2>1. /\ table' = [table EXCEPT ![r] = TableAfter(k + 1)]
        /\ nodeIdx' = [nodeIdx EXCEPT ![r] = k + 1]
        /\ k + 1 \in Nodes
    BY <1>1, <1>2, <1>4, RegisterNext
  <2> QED BY <1>2, <2>1 DEF Inv, TypeOK, LeaderHoldsLock, TableInv
<1>5. CASE k = TotalBlocks
  <2>1. table' = [table EXCEPT ![r] = TableAfter(k)] /\ nodeIdx' = nodeIdx
    BY <1>1, <1>2, <1>5, RegisterNext
  <2>2. table' = table
    BY <1>1, <2>1 DEF Inv, TableInv
  <2> QED BY <1>2, <2>1, <2>2 DEF Inv, TypeOK, LeaderHoldsLock, TableInv
<1> QED BY <1>3, <1>4, <1>5

\* Election and failure: the lock passes from hand to hand, the tables stay.
LEMMA LockInv ==
  ASSUME Inv, NEW r \in Replicas,
         TryAcquire(r) \/ Signal(r) \/ Release(r) \/ Exit(r) \/ Crash(r)
  PROVE  Inv'
<1>1. table' = table /\ nodeIdx' = nodeIdx
  BY DEF TryAcquire, Signal, Release, Exit, Crash
<1>2. TableInv'
  BY <1>1 DEF Inv, TableInv
<1>3. HostOf[r] \in Hosts /\ Nobody \notin Replicas
  BY HostsAssumption, ReplicasAssumption
<1>4. TypeOK'
  <2> USE DEF Inv, TypeOK
  <2>1. CASE TryAcquire(r)
    BY <2>1, <1>1, <1>3 DEF TryAcquire
  <2>2. CASE Signal(r)
    BY <2>2, <1>1, ReplicasAssumption DEF Signal
  <2>3. CASE Release(r)
    BY <2>3, <1>1, <1>3 DEF Release
  <2>4. CASE Exit(r)
    BY <2>4, <1>1 DEF Exit
  <2>5. CASE Crash(r)
    BY <2>5, <1>1, ReplicasAssumption DEF Crash
  <2> QED BY <2>1, <2>2, <2>3, <2>4, <2>5
<1>5. LeaderHoldsLock'
  <2>1. CASE TryAcquire(r)
    BY <2>1, <1>3, HostsAssumption DEF TryAcquire, Inv, TypeOK, LeaderHoldsLock
  <2>2. CASE Signal(r) \/ Exit(r)
    BY <2>2 DEF Signal, Exit, Inv, TypeOK, LeaderHoldsLock
  <2>3. CASE Release(r)
    BY <2>3, <1>3, HostsAssumption DEF Release, Inv, TypeOK, LeaderHoldsLock
  <2>4. CASE Crash(r)
    BY <2>4, <1>3, HostsAssumption DEF Crash, Inv, TypeOK, LeaderHoldsLock
  <2> QED BY <2>1, <2>2, <2>3, <2>4
<1> QED BY <1>2, <1>4, <1>5 DEF Inv

LEMMA StutterInv == Inv /\ UNCHANGED vars => Inv'
  BY DEF vars, Inv, TypeOK, LeaderHoldsLock, TableInv

-----------------------------------------------------------------------------
(* Theorems.                                                               *)

\* Locks, processes and tables are consistent through elections, signals,
\* crashes and restarts.
THEOREM ControllerInvariant == Spec => []Inv
<1>1. Inv /\ [Next]_vars => Inv'
  <2> SUFFICES ASSUME Inv, [Next]_vars PROVE Inv'
    OBVIOUS
  <2>1. CASE \E r \in Replicas : StartReplica(r)
    BY <2>1, StartReplicaInv
  <2>2. CASE \E r \in Replicas : RegisterNode(r)
    BY <2>2, RegisterNodeInv
  <2>3. CASE \E r \in Replicas : TryAcquire(r) \/ Signal(r) \/ Release(r)
                                 \/ Exit(r) \/ Crash(r)
    BY <2>3, LockInv
  <2>4. CASE UNCHANGED vars
    BY <2>4, StutterInv
  <2> QED BY <2>1, <2>2, <2>3, <2>4 DEF Next
<1> QED BY <1>1, InitInv, PTL DEF Spec

\* A leader holds its host's lock: never two on a host.
THEOREM LeadersHoldTheLock == Spec => []LeaderHoldsLock
<1>1. Inv => LeaderHoldsLock
  BY DEF Inv
<1> QED BY <1>1, ControllerInvariant, PTL

\* Two replicas that registered the same node gave it the same block, whether
\* one followed the other or both led at once on different hosts.
THEOREM FailoverKeepsBlocks == Spec => []LeadersAgree
<1>1. Inv => LeadersAgree
  <2> SUFFICES ASSUME Inv, NEW r \in Replicas, NEW s \in Replicas, NEW n \in Nodes,
                      table[r].assignments[n] # <<>>, table[s].assignments[n] # <<>>
               PROVE  table[r].assignments[n] = table[s].assignments[n]
    BY DEF LeadersAgree
  <2>1. \A q \in Replicas : table[q].assignments[n] \in {<<>>, <<BlockAddress(n)>>}
    BY DEF Inv, TableInv, TableAfter
  <2> QED BY <2>1
<1> QED BY <1>1, ControllerInvariant, PTL
=============================================================================
