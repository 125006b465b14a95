---------------------------- MODULE NodeAllocator ----------------------------
(***************************************************************************)
(* ipam.NodeAllocator (pkg/ipam/ipam.go): the addresses of one node's pod  *)
(* CIDR.  An address is its offset from the base of the block, as the code *)
(* computes it.  Every method runs under the allocator's mutex, so each is *)
(* one atomic action.  The state is one record, so that the node agent,    *)
(* which owns an allocator, can use the same operators.                    *)
(***************************************************************************)
EXTENDS Integers, FiniteSets, FiniteSetsExt

CONSTANTS Keys,        \* "podName/podNamespace"
          BlockSize    \* 1 << (bits - ones): all addresses of the pod CIDR

ASSUME BlockSizeAssumption == BlockSize \in Nat \ {0}
ASSUME KeysAssumption == IsFiniteSet(Keys)

VARIABLE alloc         \* [bitmap, allocated]

NoIP == -1             \* no record for the key; also the error return

Offsets == 0 .. (BlockSize - 1)

\* The scan of Allocate skips offset 0 (network) and the last (broadcast).
Usable == 1 .. (BlockSize - 2)

-----------------------------------------------------------------------------
(* The methods, as operators on an allocator a.                            *)

\* bitmap: the set of offsets whose bit is true; allocated: key to record.
NewNodeAllocator == [bitmap |-> {}, allocated |-> [k \in Keys |-> NoIP]]

Has(a, k) == a.allocated[k] # NoIP

AllocatedKeys(a) == {k \in Keys : Has(a, k)}

Free(a) == Usable \ a.bitmap

\* The address Allocate returns: the record's, else the first clear bit.
AllocateIP(a, k) ==
  IF Has(a, k) THEN a.allocated[k]
  ELSE IF Free(a) = {} THEN NoIP ELSE Min(Free(a))

\* Bugs: the bit is not set; the existing record is not looked up.
AfterAllocate_NoBit(a, k) ==
  IF Has(a, k) \/ Free(a) = {} THEN a
  ELSE [a EXCEPT !.allocated[k] = AllocateIP(a, k)]
AfterAllocate_NoLookup(a, k) ==
  IF Free(a) = {} THEN a
  ELSE [bitmap    |-> a.bitmap \cup {Min(Free(a))},
        allocated |-> [a.allocated EXCEPT ![k] = Min(Free(a))]]

\* The allocator after Allocate: an existing record and a full block are left.
AfterAllocate(a, k) ==
  IF Has(a, k) \/ Free(a) = {} THEN a
  ELSE [bitmap    |-> a.bitmap \cup {AllocateIP(a, k)},
        allocated |-> [a.allocated EXCEPT ![k] = AllocateIP(a, k)]]

\* Bug: the bit stays set.
AfterRelease_KeepsBit(a, k) == [a EXCEPT !.allocated[k] = NoIP]

AfterRelease(a, k) ==
  IF ~Has(a, k) THEN a
  ELSE [bitmap    |-> a.bitmap \ {a.allocated[k]},
        allocated |-> [a.allocated EXCEPT ![k] = NoIP]]

\* Keys that Reconcile drops: recorded but not in the active set.
Dangling(a, activePods) == AllocatedKeys(a) \ activePods

\* Bug: the sweep deletes the records and forgets the bits.
AfterReconcile_KeepsBits(a, activePods) ==
  [a EXCEPT !.allocated = [k \in Keys |->
     IF k \in Dangling(a, activePods) THEN NoIP ELSE a.allocated[k]]]

AfterReconcile(a, activePods) ==
  [bitmap    |-> a.bitmap \ {a.allocated[k] : k \in Dangling(a, activePods)},
   allocated |-> [k \in Keys |->
                    IF k \in Dangling(a, activePods) THEN NoIP
                    ELSE a.allocated[k]]]

IsAllocated(a, ip) == \E k \in AllocatedKeys(a) : a.allocated[k] = ip

Available(a) == Cardinality(Free(a))

-----------------------------------------------------------------------------
(* The allocator on its own, called by anybody in any order.               *)

Init == alloc = NewNodeAllocator

Allocate(k) == alloc' = AfterAllocate(alloc, k)

Release(k) == alloc' = AfterRelease(alloc, k)

Reconcile(activePods) == alloc' = AfterReconcile(alloc, activePods)

Next == \/ \E k \in Keys : Allocate(k) \/ Release(k)
        \/ \E activePods \in SUBSET Keys : Reconcile(activePods)

Spec == Init /\ [][Next]_alloc

-----------------------------------------------------------------------------
(* Properties.                                                             *)

\* Types of the bitmap and the record map (the fields of NodeAllocator).
TypeOK ==
  alloc \in [bitmap : SUBSET Offsets, allocated : [Keys -> Offsets \cup {NoIP}]]

\* No address is recorded for two pods, whatever sequence of Allocate,
\* Release and Reconcile led here.
UniqueIPs ==
  \A k, m \in AllocatedKeys(alloc) :
    alloc.allocated[k] = alloc.allocated[m] => k = m

\* The bitmap and the record map, which the methods update one after the
\* other, agree: a bit is set exactly for the address of some record, so no
\* address is leaked (set, owned by nobody) or given out twice (clear, owned).
BitmapMatchesRecords ==
  alloc.bitmap = {alloc.allocated[k] : k \in AllocatedKeys(alloc)}

\* Network and broadcast address are never recorded for a pod.
OnlyUsableAddresses ==
  \A k \in AllocatedKeys(alloc) : alloc.allocated[k] \in Usable

\* The inductive invariant behind the safety properties.
Inv == TypeOK /\ UniqueIPs /\ BitmapMatchesRecords /\ OnlyUsableAddresses

\* Allocate reports "no available IPs" to a pod only when every usable address
\* belongs to some pod.
RefusalMeansFull ==
  \A k \in Keys : AllocateIP(alloc, k) = NoIP =>
     Usable \subseteq {alloc.allocated[m] : m \in AllocatedKeys(alloc)}

\* Available counts what is left: free plus recorded is the usable block.
AvailableIsExact ==
  Available(alloc) + Cardinality(AllocatedKeys(alloc)) = Cardinality(Usable)

\* A pod's address never changes while its record lives: a repeated Allocate,
\* or anyone else's Allocate, Release or Reconcile, leaves it or drops it.
AddressIsSticky ==
  [][\A k \in AllocatedKeys(alloc) :
       alloc'.allocated[k] \in {alloc.allocated[k], NoIP}]_alloc

\* The allocator implements the abstract pool of addresses.
Pool == INSTANCE AddressPool WITH Addresses <- Usable, Nobody <- NoIP,
                                  owner <- alloc.allocated
ImplementsPool == Pool!Spec

=============================================================================
