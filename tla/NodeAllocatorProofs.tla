------------------------- MODULE NodeAllocatorProofs -------------------------
(***************************************************************************)
(* Proofs about NodeAllocator for every block size and every finite set of *)
(* pods.  Inv is inductive: uniqueness alone is not, because Allocate looks*)
(* only at the bitmap; it needs BitmapMatchesRecords to conclude that a    *)
(* clear bit is nobody's address, and that in turn needs uniqueness, since *)
(* Release clears the bit of its own record only.                          *)
(***************************************************************************)
EXTENDS NodeAllocator, FiniteSetTheorems, WellFoundedInduction, TLAPS

-----------------------------------------------------------------------------
(* The scan.                                                               *)

\* A non-empty set of offsets has a least one, which Min picks: what the
\* ascending loop of Allocate stops at.
LEMMA MinIsMember ==
  ASSUME NEW S \in SUBSET Nat, S # {}
  PROVE  Min(S) \in S
<1>1. \E x \in S : \A y \in S : ~(<<y, x>> \in OpToRel(<, Nat))
  BY NatLessThanWellFounded, WFMin
<1>2. \A x, y \in Nat : (<<y, x>> \in OpToRel(<, Nat)) <=> y < x
  BY DEF OpToRel
<1>3. PICK x \in S : \A y \in S : ~(<<y, x>> \in OpToRel(<, Nat))
  BY <1>1
<1>4. \A y \in S : ~(y < x)
  BY <1>2, <1>3
<1>5. \A y \in S : x =< y
  BY <1>4
<1> QED BY <1>5 DEF Min

\* Allocate returns NoIP exactly when nothing is free, and otherwise for a new
\* key an offset that is usable and whose bit is clear.
LEMMA AllocateIPFresh ==
  ASSUME TypeOK, NEW k \in Keys, ~Has(alloc, k), Free(alloc) # {}
  PROVE  /\ AllocateIP(alloc, k) \in Usable
         /\ AllocateIP(alloc, k) \notin alloc.bitmap
<1>1. Free(alloc) \in SUBSET Nat
  BY BlockSizeAssumption DEF Free, Usable
<1>2. Min(Free(alloc)) \in Free(alloc)
  BY <1>1, MinIsMember
<1> QED BY <1>2 DEF AllocateIP, Free

-----------------------------------------------------------------------------
(* Inv is inductive: one lemma per method.                                 *)

LEMMA InitInv == Init => Inv
  BY BlockSizeAssumption
  DEF Init, Inv, NewNodeAllocator, TypeOK, UniqueIPs, BitmapMatchesRecords,
      OnlyUsableAddresses, AllocatedKeys, Has, Offsets, NoIP

LEMMA AllocateInv ==
  ASSUME Inv, NEW k \in Keys, Allocate(k)
  PROVE  Inv'
<1> USE DEF Inv
<1>0. alloc' = AfterAllocate(alloc, k)
  BY DEF Allocate
<1>1. CASE Has(alloc, k) \/ Free(alloc) = {}
  <2>1. alloc' = alloc
    BY <1>0, <1>1 DEF AfterAllocate
  <2> QED
    BY <2>1 DEF TypeOK, UniqueIPs, BitmapMatchesRecords,
       OnlyUsableAddresses, AllocatedKeys, Has
<1>2. CASE ~Has(alloc, k) /\ Free(alloc) # {}
  <2> DEFINE ip == AllocateIP(alloc, k)
  <2>1. /\ ip \in Usable
        /\ ip \notin alloc.bitmap
    BY <1>2, AllocateIPFresh
  <2>2. /\ ip \in Offsets
        /\ ip # NoIP
    BY <2>1, BlockSizeAssumption DEF Usable, Offsets, NoIP
  <2>3. /\ alloc'.bitmap = alloc.bitmap \cup {ip}
        /\ alloc'.allocated = [alloc.allocated EXCEPT ![k] = ip]
        /\ alloc' = [bitmap |-> alloc.bitmap \cup {ip},
                     allocated |-> [alloc.allocated EXCEPT ![k] = ip]]
    BY <1>0, <1>2 DEF AfterAllocate
  <2> HIDE DEF ip
  <2>4. TypeOK'
    BY <2>2, <2>3 DEF TypeOK
  <2>5. /\ alloc'.allocated[k] = ip
        /\ \A m \in Keys \ {k} : alloc'.allocated[m] = alloc.allocated[m]
    BY <2>3 DEF TypeOK
  <2>6. AllocatedKeys(alloc)' = AllocatedKeys(alloc) \cup {k}
    BY <2>5, <2>2 DEF AllocatedKeys, Has
  <2>7. \A m \in AllocatedKeys(alloc) : m # k /\ alloc.allocated[m] # ip
    BY <2>1, <1>2 DEF AllocatedKeys, BitmapMatchesRecords
  <2>8. UniqueIPs'
    BY <2>5, <2>6, <2>7 DEF UniqueIPs, AllocatedKeys
  <2>9. BitmapMatchesRecords'
    <3>1. alloc.bitmap = {alloc.allocated[m] : m \in AllocatedKeys(alloc)}
      BY DEF BitmapMatchesRecords
    <3>2. \A m \in AllocatedKeys(alloc) : alloc'.allocated[m] = alloc.allocated[m]
      BY <2>5, <2>7 DEF AllocatedKeys
    <3>3. alloc'.bitmap =
            {alloc'.allocated[m] : m \in AllocatedKeys(alloc) \cup {k}}
      BY <2>3, <2>5, <3>1, <3>2
    <3> QED BY <2>6, <3>3 DEF BitmapMatchesRecords
  <2>10. OnlyUsableAddresses'
    BY <2>1, <2>5, <2>6, <2>7 DEF OnlyUsableAddresses, AllocatedKeys
  <2> QED BY <2>4, <2>8, <2>9, <2>10
<1> QED BY <1>1, <1>2

LEMMA ReleaseInv ==
  ASSUME Inv, NEW k \in Keys, Release(k)
  PROVE  Inv'
<1> USE DEF Inv
<1>0. alloc' = AfterRelease(alloc, k)
  BY DEF Release
<1>1. CASE ~Has(alloc, k)
  <2>1. alloc' = alloc
    BY <1>0, <1>1 DEF AfterRelease
  <2> QED
    BY <1>0, <2>1 DEF TypeOK, UniqueIPs, BitmapMatchesRecords,
       OnlyUsableAddresses, AllocatedKeys, Has
<1>2. CASE Has(alloc, k)
  <2>1. /\ alloc'.bitmap = alloc.bitmap \ {alloc.allocated[k]}
        /\ alloc'.allocated = [alloc.allocated EXCEPT ![k] = NoIP]
        /\ alloc' = [bitmap |-> alloc.bitmap \ {alloc.allocated[k]},
                     allocated |-> [alloc.allocated EXCEPT ![k] = NoIP]]
    BY <1>0, <1>2 DEF AfterRelease
  <2>2. TypeOK'
    BY <1>0, <2>1 DEF TypeOK
  <2>3. /\ alloc'.allocated[k] = NoIP
        /\ \A m \in Keys \ {k} : alloc'.allocated[m] = alloc.allocated[m]
    BY <2>1 DEF TypeOK
  <2>4. AllocatedKeys(alloc)' = AllocatedKeys(alloc) \ {k}
    BY <2>3 DEF AllocatedKeys, Has
  <2>5. \A m \in AllocatedKeys(alloc) \ {k} :
           /\ alloc.allocated[m] # alloc.allocated[k]
           /\ alloc'.allocated[m] = alloc.allocated[m]
    BY <1>2, <2>3 DEF UniqueIPs, AllocatedKeys
  <2>6. UniqueIPs'
    BY <2>4, <2>5 DEF UniqueIPs
  <2>7. BitmapMatchesRecords'
    <3>1. alloc.bitmap = {alloc.allocated[m] : m \in AllocatedKeys(alloc)}
      BY DEF BitmapMatchesRecords
    <3>2. alloc'.bitmap =
            {alloc'.allocated[m] : m \in AllocatedKeys(alloc) \ {k}}
      BY <2>1, <2>5, <3>1
    <3> QED BY <2>4, <3>2 DEF BitmapMatchesRecords
  <2>8. OnlyUsableAddresses'
    BY <2>4, <2>5 DEF OnlyUsableAddresses
  <2> QED BY <2>2, <2>6, <2>7, <2>8
<1> QED BY <1>1, <1>2

LEMMA ReconcileInv ==
  ASSUME Inv, NEW activePods \in SUBSET Keys, Reconcile(activePods)
  PROVE  Inv'
<1> USE DEF Inv
<1> DEFINE D == Dangling(alloc, activePods)
<1>0. alloc' = AfterReconcile(alloc, activePods)
  BY DEF Reconcile
<1>1. /\ alloc'.bitmap = alloc.bitmap \ {alloc.allocated[k] : k \in D}
      /\ alloc'.allocated =
           [k \in Keys |-> IF k \in D THEN NoIP ELSE alloc.allocated[k]]
      /\ alloc' = [bitmap |-> alloc.bitmap \ {alloc.allocated[k] : k \in D},
                   allocated |-> [k \in Keys |->
                      IF k \in D THEN NoIP ELSE alloc.allocated[k]]]
  BY <1>0 DEF AfterReconcile
<1>2. D \subseteq AllocatedKeys(alloc) /\ AllocatedKeys(alloc) \subseteq Keys
  BY DEF Dangling, AllocatedKeys
<1> HIDE DEF D
<1>3. TypeOK'
  BY <1>0, <1>1 DEF TypeOK
<1>4. /\ \A k \in D : alloc'.allocated[k] = NoIP
      /\ \A k \in Keys \ D : alloc'.allocated[k] = alloc.allocated[k]
  BY <1>1, <1>2
<1>5. AllocatedKeys(alloc)' = AllocatedKeys(alloc) \ D
  BY <1>4 DEF AllocatedKeys, Has
<1>6. \A m \in AllocatedKeys(alloc) \ D :
         /\ \A k \in D : alloc.allocated[m] # alloc.allocated[k]
         /\ alloc'.allocated[m] = alloc.allocated[m]
  BY <1>2, <1>4 DEF UniqueIPs
<1>7. UniqueIPs'
  BY <1>5, <1>6 DEF UniqueIPs
<1>8. BitmapMatchesRecords'
  <2>1. alloc.bitmap = {alloc.allocated[m] : m \in AllocatedKeys(alloc)}
    BY DEF BitmapMatchesRecords
  <2>2. alloc'.bitmap = {alloc'.allocated[m] : m \in AllocatedKeys(alloc) \ D}
    <3>1. \A x : x \in alloc'.bitmap <=>
               \E m \in AllocatedKeys(alloc) \ D : x = alloc.allocated[m]
      <4>1. \A x : x \in alloc'.bitmap <=>
                 /\ \E m \in AllocatedKeys(alloc) : x = alloc.allocated[m]
                 /\ ~ \E k \in D : x = alloc.allocated[k]
        BY <1>1, <2>1
      <4> QED BY <4>1, <1>6
    <3>2. \A x : x \in alloc'.bitmap <=>
               \E m \in AllocatedKeys(alloc) \ D : x = alloc'.allocated[m]
      BY <1>6, <3>1
    <3> QED BY <3>2
  <2> QED BY <1>5, <2>2 DEF BitmapMatchesRecords
<1>9. OnlyUsableAddresses'
  BY <1>5, <1>6 DEF OnlyUsableAddresses
<1> QED BY <1>3, <1>7, <1>8, <1>9

LEMMA StutterInv ==
  ASSUME Inv, UNCHANGED alloc
  PROVE  Inv'
BY DEF Inv, TypeOK, UniqueIPs, BitmapMatchesRecords,
   OnlyUsableAddresses, AllocatedKeys, Has

\* The inductive invariant holds in every reachable state of every allocator:
\* types, unique addresses, bitmap and records in agreement, and neither the
\* network nor the broadcast address given out.
THEOREM AllocatorCorrect == Spec => []Inv
<1>1. Init => Inv
  BY InitInv
<1>2. Inv /\ [Next]_alloc => Inv'
  BY AllocateInv, ReleaseInv, ReconcileInv, StutterInv DEF Next
<1> QED BY <1>1, <1>2, PTL DEF Spec

\* No two pods ever share an address, for any block size and any pods.
THEOREM AddressesUnique == Spec => []UniqueIPs
<1>1. Inv => UniqueIPs
  BY DEF Inv
<1> QED BY <1>1, AllocatorCorrect, PTL

\* The bitmap never leaks and never forgets an address.
THEOREM BitmapExact == Spec => []BitmapMatchesRecords
<1>1. Inv => BitmapMatchesRecords
  BY DEF Inv
<1> QED BY <1>1, AllocatorCorrect, PTL

-----------------------------------------------------------------------------
(* What the callers rely on.                                               *)

LEMMA AllocateRefusal ==
  ASSUME Inv, NEW k \in Keys, AllocateIP(alloc, k) = NoIP
  PROVE  ~Has(alloc, k) /\ Free(alloc) = {}
<1>1. ~Has(alloc, k)
  BY DEF AllocateIP, Has
<1>2. ASSUME Free(alloc) # {} PROVE FALSE
  <2>1. AllocateIP(alloc, k) \in Usable
    BY <1>1, <1>2, AllocateIPFresh DEF Inv
  <2> QED BY <2>1, BlockSizeAssumption DEF Usable, NoIP
<1> QED BY <1>1, <1>2

\* An exhausted block is really exhausted: Allocate says "no available IPs"
\* only when every usable address belongs to a pod.
THEOREM RefusalHonest == Spec => []RefusalMeansFull
<1>1. ASSUME Inv, NEW k \in Keys, AllocateIP(alloc, k) = NoIP
      PROVE  Usable \subseteq {alloc.allocated[m] : m \in AllocatedKeys(alloc)}
  <2>1. Free(alloc) = {}
    BY <1>1, AllocateRefusal
  <2>2. Usable \subseteq alloc.bitmap
    BY <2>1 DEF Free
  <2> QED BY <1>1, <2>2 DEF Inv, BitmapMatchesRecords
<1>2. Inv => RefusalMeansFull
  BY <1>1 DEF RefusalMeansFull
<1> QED BY <1>2, AllocatorCorrect, PTL

\* Available is exact: the free addresses and the records make up the block.
THEOREM AvailableExact == Spec => []AvailableIsExact
<1>1. ASSUME Inv PROVE AvailableIsExact
  <2> DEFINE K == AllocatedKeys(alloc)
             f == [k \in K |-> alloc.allocated[k]]
  <2>1. /\ K \subseteq Keys
        /\ \A k \in K : alloc.allocated[k] \in alloc.bitmap
        /\ \A x \in alloc.bitmap : \E k \in K : x = alloc.allocated[k]
        /\ \A k, m \in K : alloc.allocated[k] = alloc.allocated[m] => k = m
    BY <1>1 DEF Inv, BitmapMatchesRecords, UniqueIPs, AllocatedKeys
  <2>2. alloc.bitmap \subseteq Usable
    BY <1>1, <2>1 DEF Inv, OnlyUsableAddresses
  <2> HIDE DEF K
  <2>3. f \in Bijection(K, alloc.bitmap)
    BY <2>1 DEF Bijection, Injection, Surjection, IsInjective
  <2>4. ExistsBijection(K, alloc.bitmap)
    BY <2>3 DEF ExistsBijection
  <2>5. IsFiniteSet(K)
    BY <2>1, KeysAssumption, FS_Subset
  <2>6. Cardinality(alloc.bitmap) = Cardinality(K)
    BY <2>4, <2>5, FS_Bijection
  <2>7. IsFiniteSet(Usable)
    BY BlockSizeAssumption, FS_Interval DEF Usable
  <2>8. Cardinality(Usable \ alloc.bitmap)
          = Cardinality(Usable) - Cardinality(alloc.bitmap)
    <3>1. Usable \cap alloc.bitmap = alloc.bitmap
      BY <2>2
    <3> QED BY <2>7, <3>1, FS_Difference
  <2>9. Cardinality(Usable) \in Nat /\ Cardinality(K) \in Nat
    BY <2>5, <2>7, FS_CardinalityType
  <2> QED BY <2>6, <2>8, <2>9 DEF AvailableIsExact, Available, Free, K
<1> QED BY <1>1, AllocatorCorrect, PTL

\* A record's address never changes: every method keeps it or drops it.
THEOREM AddressSticky == Spec => AddressIsSticky
<1> DEFINE Sticky == \A k \in AllocatedKeys(alloc) :
                       alloc'.allocated[k] \in {alloc.allocated[k], NoIP}
<1>1. ASSUME Inv, Next PROVE Sticky
  <2>1. CASE \E k \in Keys : Allocate(k)
    BY <1>1, <2>1 DEF Allocate, AfterAllocate, AllocatedKeys, Inv, TypeOK
  <2>2. CASE \E k \in Keys : Release(k)
    BY <1>1, <2>2 DEF Release, AfterRelease, AllocatedKeys, Inv, TypeOK
  <2>3. CASE \E activePods \in SUBSET Keys : Reconcile(activePods)
    BY <1>1, <2>3 DEF Reconcile, AfterReconcile, AllocatedKeys
  <2> QED BY <1>1, <2>1, <2>2, <2>3 DEF Next
<1> HIDE DEF Sticky
<1>2. Spec => [][Sticky]_alloc
  BY <1>1, AllocatorCorrect, PTL DEF Spec
<1> QED BY <1>2 DEF Sticky, AddressIsSticky

\* The bitmap allocator implements the abstract pool: an address is claimed
\* only while nobody owns it, and only releases change an owner.
THEOREM PoolRefinement == Spec => ImplementsPool
<1>1. Init => Pool!Init
  BY DEF Init, NewNodeAllocator, Pool!Init
<1>2. ASSUME Inv, [Next]_alloc
      PROVE  [Pool!Next]_(alloc.allocated)
  <2>1. ASSUME NEW k \in Keys, Allocate(k)
        PROVE  Pool!Claim(k) \/ UNCHANGED alloc.allocated
    <3>1. CASE Has(alloc, k) \/ Free(alloc) = {}
      BY <2>1, <3>1 DEF Allocate, AfterAllocate
    <3>2. CASE ~Has(alloc, k) /\ Free(alloc) # {}
      <4>1. /\ AllocateIP(alloc, k) \in Usable
            /\ AllocateIP(alloc, k) \notin alloc.bitmap
        BY <1>2, <3>2, AllocateIPFresh DEF Inv
      <4>2. AllocateIP(alloc, k) \notin Pool!Owned
        BY <1>2, <4>1
        DEF Pool!Owned, Inv, BitmapMatchesRecords, AllocatedKeys, Has
      <4>3. alloc'.allocated =
              [alloc.allocated EXCEPT ![k] = AllocateIP(alloc, k)]
        BY <2>1, <3>2 DEF Allocate, AfterAllocate
      <4> QED BY <3>2, <4>1, <4>2, <4>3 DEF Pool!Claim, Has
    <3> QED BY <3>1, <3>2
  <2>2. ASSUME NEW k \in Keys, Release(k)
        PROVE  Pool!Drop({k})
    BY <1>2, <2>2 DEF Release, AfterRelease, Pool!Drop, Inv, TypeOK, Has
  <2>3. ASSUME NEW activePods \in SUBSET Keys, Reconcile(activePods)
        PROVE  Pool!Drop(Dangling(alloc, activePods))
    BY <2>3 DEF Reconcile, AfterReconcile, Pool!Drop
  <2>4. \A activePods : Dangling(alloc, activePods) \in SUBSET Keys
    BY DEF Dangling, AllocatedKeys
  <2>5. CASE UNCHANGED alloc
    BY <2>5
  <2> QED BY <1>2, <2>1, <2>2, <2>3, <2>4, <2>5 DEF Next, Pool!Next
<1> QED BY <1>1, <1>2, AllocatorCorrect, PTL DEF Spec, ImplementsPool, Pool!Spec
==============================================================================
