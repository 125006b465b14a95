------------------------ MODULE BlockControllerProofs ------------------------
(* Proofs about BlockController, for any number and size of blocks.         *)
EXTENDS BlockController, SequenceTheorems, TLAPS

USE BlockTableAssumption

\* Block i ends where block j begins, or before, when i < j.
LEMMA ScaledOrder ==
  ASSUME NEW i \in Nat, NEW j \in Nat, i < j, NEW c \in Nat
  PROVE  i * c + c <= j * c
<1>1. PICK d \in Nat : j = i + 1 + d
  <2>1. j - i - 1 \in Nat /\ j = i + 1 + (j - i - 1)
    OBVIOUS
  <2>2. QED
    BY <2>1
<1>2. j * c = i * c + c + d * c
  BY <1>1
<1>3. d * c >= 0
  BY <1>1
<1>4. QED
  BY <1>2, <1>3

\* The address of a block of the cluster CIDR, computed without wrapping.
LEMMA BlockAddressExact ==
  ASSUME NEW i \in 0 .. (TotalBlocks - 1)
  PROVE  /\ BlockAddress(i) = BaseIP + i * BlockLen
         /\ BlockAddress(i) \in Nat
         /\ BaseIP <= BlockAddress(i)
         /\ BlockAddress(i) + BlockLen <= BaseIP + TotalBlocks * BlockLen
<1> DEFINE p == i * BlockLen
<1>1. i \in Nat /\ TotalBlocks \in Nat /\ BlockLen \in Nat /\ i < TotalBlocks
  OBVIOUS
<1>2. p \in Nat
  BY <1>1
<1>3. p + BlockLen <= TotalBlocks * BlockLen
  BY <1>1, ScaledOrder
<1>4. TotalBlocks * BlockLen \in Nat
  BY <1>1
<1> HIDE DEF p
<1>5. p < Word /\ BaseIP + p < Word /\ BaseIP + p \in Nat
  BY <1>2, <1>3, <1>4
<1>6. p % Word = p
  BY <1>2, <1>5
<1>7. (BaseIP + p) % Word = BaseIP + p
  BY <1>5
<1>8. BlockAddress(i) = BaseIP + p
  BY <1>6, <1>7 DEF BlockAddress, p
<1>9. QED
  BY <1>2, <1>3, <1>4, <1>8 DEF p

\* Two blocks of the cluster CIDR do not overlap.
LEMMA BlocksApart ==
  ASSUME NEW i \in 0 .. (TotalBlocks - 1), NEW j \in 0 .. (TotalBlocks - 1), i # j
  PROVE  /\ Disjoint(BlockAddress(i), BlockAddress(j))
         /\ BlockAddress(i) # BlockAddress(j)
<1>1. i \in Nat /\ j \in Nat /\ BlockLen \in Nat \ {0}
  OBVIOUS
<1>2. i * BlockLen \in Nat /\ j * BlockLen \in Nat
  BY <1>1
<1>3. i * BlockLen + BlockLen <= j * BlockLen \/ j * BlockLen + BlockLen <= i * BlockLen
  BY <1>1, ScaledOrder
<1>4. BlockAddress(i) = BaseIP + i * BlockLen /\ BlockAddress(j) = BaseIP + j * BlockLen
  BY BlockAddressExact
<1>5. QED
  BY <1>1, <1>2, <1>3, <1>4 DEF Disjoint

\* The empty list of blocks.
LEMMA EmptySequence == DOMAIN <<>> = {} /\ <<>> \in Seq(Blocks)
<1>1. <<>> \in Seq(Blocks) /\ Len(<<>>) = 0
  OBVIOUS
<1>2. DOMAIN <<>> = 1 .. 0
  OBVIOUS
<1>3. QED
  BY <1>1, <1>2

\* The initial state satisfies the invariant.
LEMMA InitInv == BlockInit => BlockInv
<1> SUFFICES ASSUME BlockInit PROVE BlockInv
  OBVIOUS
<1>1. table = [assignments |-> [n \in Nodes |-> <<>>], nextBlockIndex |-> 0] /\ given = {}
  BY DEF BlockInit, NewIPAMController
<1>2. \A n \in Nodes : DOMAIN table.assignments[n] = {}
  <2>1. \A n \in Nodes : table.assignments[n] = <<>>
    BY <1>1
  <2>2. QED
    BY <2>1, EmptySequence
<1>3. BlockTypeOK
  BY <1>1 DEF BlockTypeOK
<1>4. HeldBelowNext /\ HeldOnce
  BY <1>2 DEF HeldBelowNext, HeldOnce
<1>5. GivenBelowNext /\ BlockHasOneOwnerEver
  BY <1>1 DEF GivenBelowNext, BlockHasOneOwnerEver
<1>6. BelowNextGiven
  BY <1>1 DEF BelowNextGiven
<1>7. QED
  BY <1>3, <1>4, <1>5, <1>6 DEF BlockInv

\* A step that leaves the table alone gives nothing.
LEMMA SameTable ==
  ASSUME BlockInv, table' = table, given' = given
  PROVE  BlockInv'
BY DEF BlockInv, BlockTypeOK, HeldBelowNext, HeldOnce, GivenBelowNext, BelowNextGiven,
       BlockHasOneOwnerEver

\* Of the blocks of the cluster CIDR, the next one is held by nobody and was
\* never given to anybody.
LEMMA NextBlockIsNew ==
  ASSUME BlockInv, IsBlockAvailable(table)
  PROVE  /\ table.nextBlockIndex \in 0 .. (TotalBlocks - 1)
         /\ \A n \in Nodes : \A i \in DOMAIN table.assignments[n] :
              table.assignments[n][i] # BlockAddress(table.nextBlockIndex)
         /\ \A g \in given : g[2] # BlockAddress(table.nextBlockIndex)
<1> DEFINE N == table.nextBlockIndex
<1>1. N \in 0 .. (TotalBlocks - 1)
  BY DEF BlockInv, BlockTypeOK, IsBlockAvailable
<1>2. \A k \in 0 .. (N - 1) : BlockAddress(k) # BlockAddress(N)
  <2> SUFFICES ASSUME NEW k \in 0 .. (N - 1) PROVE BlockAddress(k) # BlockAddress(N)
    OBVIOUS
  <2>1. k \in 0 .. (TotalBlocks - 1) /\ k # N
    BY <1>1
  <2>2. QED
    BY <1>1, <2>1, BlocksApart
<1>3. QED
  BY <1>1, <1>2 DEF BlockInv, HeldBelowNext, GivenBelowNext

\* assignNextBlock preserves the invariant: from AssignBlock for a node that
\* has no block, or from AssignSecondaryBlock.
LEMMA GiveInv ==
  ASSUME BlockInv, NEW n \in Nodes,
         table' = AfterAssignNextBlock(table, n), Remember(n)
  PROVE  BlockInv'
<1>1. CASE ~IsBlockAvailable(table)
  <2>1. table' = table
    BY <1>1 DEF AfterAssignNextBlock
  <2>2. given' = given
    BY <2>1 DEF Remember
  <2>3. QED
    BY <2>1, <2>2, SameTable
<1>2. CASE IsBlockAvailable(table)
  <2> DEFINE N == table.nextBlockIndex
             b == BlockAddress(N)
             old == table.assignments
             new == table'.assignments
  <2>1. /\ N \in 0 .. (TotalBlocks - 1)
        /\ \A m \in Nodes : \A i \in DOMAIN old[m] : old[m][i] # b
        /\ \A g \in given : g[2] # b
    BY <1>2, NextBlockIsNew
  <2>2. table' = [assignments |-> [old EXCEPT ![n] = Append(old[n], b)],
                  nextBlockIndex |-> N + 1]
    BY <1>2 DEF AfterAssignNextBlock
  <2>3. /\ old \in [Nodes -> Seq(Blocks)]
        /\ given \subseteq Nodes \X Blocks
    BY DEF BlockInv, BlockTypeOK
  <2>4. b \in Blocks
    BY <2>1 DEF Blocks
  <2>5. /\ new \in [Nodes -> Seq(Blocks)]
        /\ table'.nextBlockIndex = N + 1
        /\ N + 1 \in 0 .. TotalBlocks
        /\ \A m \in Nodes : m # n => new[m] = old[m]
        /\ new[n] = Append(old[n], b)
    BY <2>1, <2>2, <2>3, <2>4
  <2>6. /\ DOMAIN old[n] = 1 .. Len(old[n])
        /\ Len(old[n]) \in Nat
        /\ DOMAIN new[n] = 1 .. (Len(old[n]) + 1)
        /\ \A i \in 1 .. Len(old[n]) : new[n][i] = old[n][i]
        /\ new[n][Len(old[n]) + 1] = b
    BY <2>3, <2>4, <2>5
  <2>7. \* What is at a position of the new table.
        \A m \in Nodes : \A i \in DOMAIN new[m] :
          \/ i \in DOMAIN old[m] /\ new[m][i] = old[m][i]
          \/ m = n /\ i = Len(old[n]) + 1 /\ new[m][i] = b
    <3> SUFFICES ASSUME NEW m \in Nodes, NEW i \in DOMAIN new[m]
                 PROVE  \/ i \in DOMAIN old[m] /\ new[m][i] = old[m][i]
                        \/ m = n /\ i = Len(old[n]) + 1 /\ new[m][i] = b
      OBVIOUS
    <3> HIDE DEF old, new, b
    <3>1. CASE m # n
      BY <2>5, <3>1
    <3>2. CASE m = n
      <4>1. i \in 1 .. Len(old[n]) \/ i = Len(old[n]) + 1
        BY <2>6, <3>2
      <4>2. QED
        BY <2>6, <3>2, <4>1
    <3>3. QED
      BY <3>1, <3>2
  <2>8. HeldBlocks(table') \ HeldBlocks(table) = {b}
    <3>1. \A x \in HeldBlocks(table') : x \in HeldBlocks(table) \/ x = b
      BY <2>7 DEF HeldBlocks
    <3>2. Len(old[n]) + 1 \in DOMAIN new[n]
      BY <2>6
    <3>3. b \in HeldBlocks(table')
      BY <2>6, <3>2 DEF HeldBlocks
    <3>4. b \notin HeldBlocks(table)
      BY <2>1 DEF HeldBlocks
    <3>5. QED
      BY <3>1, <3>3, <3>4
  <2>9. given' = given \cup {<<n, b>>}
    BY <2>8 DEF Remember
  <2> HIDE DEF b, old, new
  <2>10. BlockTypeOK'
    <3>1. table' \in [assignments : [Nodes -> Seq(Blocks)], nextBlockIndex : 0 .. TotalBlocks]
      BY <2>2, <2>5 DEF new
    <3>2. given' \subseteq Nodes \X Blocks
      BY <2>3, <2>4, <2>9
    <3>3. Blocks' = Blocks
      BY DEF Blocks, BlockAddress
    <3>4. QED
      BY <3>1, <3>2, <3>3 DEF BlockTypeOK
  <2>11. HeldBelowNext'
    <3>1. \A m \in Nodes : \A i \in DOMAIN new[m] :
            \E k \in 0 .. N : new[m][i] = BlockAddress(k)
      <4> SUFFICES ASSUME NEW m \in Nodes, NEW i \in DOMAIN new[m]
                   PROVE  \E k \in 0 .. N : new[m][i] = BlockAddress(k)
        OBVIOUS
      <4>1. CASE i \in DOMAIN old[m] /\ new[m][i] = old[m][i]
        <5>1. PICK k \in 0 .. (N - 1) : old[m][i] = BlockAddress(k)
          BY <4>1 DEF BlockInv, HeldBelowNext, old
        <5>2. k \in 0 .. N
          BY <2>1, <5>1
        <5>3. QED
          BY <4>1, <5>1, <5>2
      <4>2. CASE new[m][i] = b
        <5>1. N \in 0 .. N
          BY <2>1
        <5>2. QED
          BY <4>2, <5>1 DEF b
      <4>3. QED
        BY <2>7, <4>1, <4>2
    <3>2. 0 .. N = 0 .. (table'.nextBlockIndex - 1)
      BY <2>1, <2>5
    <3>3. QED
      BY <3>1, <3>2 DEF HeldBelowNext, new
  <2>12. HeldOnce'
    <3>1. \A m, l \in Nodes : \A i \in DOMAIN new[m], j \in DOMAIN new[l] :
            new[m][i] = new[l][j] => m = l /\ i = j
      BY <2>1, <2>7 DEF BlockInv, HeldOnce, old
    <3>2. QED
      BY <3>1 DEF HeldOnce, new
  <2>13. GivenBelowNext'
    <3>1. \A g \in given' : \E k \in 0 .. N : g[2] = BlockAddress(k)
      <4> SUFFICES ASSUME NEW g \in given'
                   PROVE  \E k \in 0 .. N : g[2] = BlockAddress(k)
        OBVIOUS
      <4>1. CASE g \in given
        <5>1. PICK k \in 0 .. (N - 1) : g[2] = BlockAddress(k)
          BY <4>1 DEF BlockInv, GivenBelowNext
        <5>2. k \in 0 .. N
          BY <2>1, <5>1
        <5>3. QED
          BY <5>1, <5>2
      <4>2. CASE g = <<n, b>>
        <5>1. N \in 0 .. N
          BY <2>1
        <5>2. QED
          BY <4>2, <5>1 DEF b
      <4>3. QED
        BY <2>9, <4>1, <4>2
    <3>2. 0 .. N = 0 .. (table'.nextBlockIndex - 1)
      BY <2>1, <2>5
    <3>3. QED
      BY <3>1, <3>2 DEF GivenBelowNext
  <2>14. BelowNextGiven'
    <3>1. \A k \in 0 .. N : \E g \in given' : g[2] = BlockAddress(k)
      <4> SUFFICES ASSUME NEW k \in 0 .. N
                   PROVE  \E g \in given' : g[2] = BlockAddress(k)
        OBVIOUS
      <4>1. CASE k = N
        <5>1. <<n, b>> \in given' /\ <<n, b>>[2] = BlockAddress(k)
          BY <2>9, <4>1 DEF b
        <5>2. QED
          BY <5>1
      <4>2. CASE k # N
        <5>1. k \in 0 .. (N - 1)
          BY <2>1, <4>2
        <5>2. PICK g \in given : g[2] = BlockAddress(k)
          BY <5>1 DEF BlockInv, BelowNextGiven
        <5>3. QED
          BY <2>9, <5>2
      <4>3. QED
        BY <4>1, <4>2
    <3>2. 0 .. N = 0 .. (table'.nextBlockIndex - 1)
      BY <2>1, <2>5
    <3>3. QED
      BY <3>1, <3>2 DEF BelowNextGiven
  <2>15. BlockHasOneOwnerEver'
    BY <2>1, <2>9 DEF BlockInv, BlockHasOneOwnerEver
  <2>16. QED
    BY <2>10, <2>11, <2>12, <2>13, <2>14, <2>15 DEF BlockInv
<1>3. QED
  BY <1>1, <1>2

\* ReleaseBlocks empties one node's list and keeps the index.
LEMMA ReleaseInv ==
  ASSUME BlockInv, NEW n \in Nodes, ReleaseBlocks(n)
  PROVE  BlockInv'
<1> DEFINE old == table.assignments
           new == table'.assignments
<1>1. /\ table' = [table EXCEPT !.assignments[n] = <<>>]
      /\ given' = given
  BY DEF ReleaseBlocks, AfterReleaseBlocks
<1>2. table \in [assignments : [Nodes -> Seq(Blocks)], nextBlockIndex : 0 .. TotalBlocks]
  BY DEF BlockInv, BlockTypeOK
<1>3. /\ table'.nextBlockIndex = table.nextBlockIndex
      /\ new = [old EXCEPT ![n] = <<>>]
      /\ table' = [assignments |-> new, nextBlockIndex |-> table.nextBlockIndex]
  BY <1>1, <1>2
<1>3a. /\ new \in [Nodes -> Seq(Blocks)]
       /\ \A m \in Nodes : m # n => new[m] = old[m]
       /\ new[n] = <<>>
  <2>1. old \in [Nodes -> Seq(Blocks)]
    BY <1>2
  <2> HIDE DEF old, new
  <2>2. QED
    BY <1>3, <2>1, EmptySequence
<1>3b. table' \in [assignments : [Nodes -> Seq(Blocks)], nextBlockIndex : 0 .. TotalBlocks]
  BY <1>2, <1>3, <1>3a
<1>4. \A m \in Nodes : \A i \in DOMAIN new[m] : m # n /\ new[m] = old[m]
  <2> HIDE DEF old, new
  <2>1. QED
    BY <1>3a, EmptySequence
<1> HIDE DEF old, new
<1>5. BlockTypeOK'
  <2>1. Blocks' = Blocks
    BY DEF Blocks, BlockAddress
  <2>2. QED
    BY <1>1, <1>3b, <2>1 DEF BlockInv, BlockTypeOK
<1>6. HeldBelowNext'
  BY <1>3, <1>4 DEF BlockInv, HeldBelowNext, old, new
<1>7. HeldOnce'
  BY <1>4 DEF BlockInv, HeldOnce, old, new
<1>8. GivenBelowNext' /\ BelowNextGiven' /\ BlockHasOneOwnerEver'
  BY <1>1, <1>3 DEF BlockInv, GivenBelowNext, BelowNextGiven, BlockHasOneOwnerEver
<1>9. QED
  BY <1>5, <1>6, <1>7, <1>8 DEF BlockInv

\* Every step preserves the invariant.
LEMMA NextInv == BlockInv /\ [BlockNext]_blockVars => BlockInv'
<1> SUFFICES ASSUME BlockInv, [BlockNext]_blockVars PROVE BlockInv'
  OBVIOUS
<1>1. ASSUME NEW n \in Nodes, AssignBlock(n) PROVE BlockInv'
  <2>1. CASE table.assignments[n] # <<>>
    <3>1. table' = table
      BY <1>1, <2>1 DEF AssignBlock, AfterAssignBlock
    <3>2. given' = given
      BY <1>1, <3>1 DEF AssignBlock, Remember
    <3>3. QED
      BY <3>1, <3>2, SameTable
  <2>2. CASE table.assignments[n] = <<>>
    BY <1>1, <2>2, GiveInv DEF AssignBlock, AfterAssignBlock
  <2>3. QED
    BY <2>1, <2>2
<1>2. ASSUME NEW n \in Nodes, AssignSecondaryBlock(n) PROVE BlockInv'
  BY <1>2, GiveInv DEF AssignSecondaryBlock
<1>3. ASSUME NEW n \in Nodes, ReleaseBlocks(n) PROVE BlockInv'
  BY <1>3, ReleaseInv
<1>4. CASE UNCHANGED blockVars
  BY <1>4, SameTable DEF blockVars
<1>5. QED
  BY <1>1, <1>2, <1>3, <1>4 DEF BlockNext

\* The invariant holds in every state of every behaviour of IPAMController.
THEOREM ControllerCorrect == BlockSpec => []BlockInv
<1>1. QED
  BY InitInv, NextInv, PTL DEF BlockSpec

\* No two blocks held at the same time overlap, and none leaves the cluster
\* CIDR, for every cluster CIDR and block size (assignNextBlock's arithmetic).
THEOREM BlocksNeverOverlap == BlockSpec => []BlocksDisjoint
<1>1. BlockInv => BlocksDisjoint
  <2> SUFFICES ASSUME BlockInv, NEW n \in Nodes, NEW m \in Nodes,
                      NEW i \in DOMAIN table.assignments[n],
                      NEW j \in DOMAIN table.assignments[m]
               PROVE  LET a == table.assignments[n][i]
                          b == table.assignments[m][j]
                      IN  /\ BaseIP <= a /\ a + BlockLen <= BaseIP + TotalBlocks * BlockLen
                          /\ (n # m \/ i # j) => Disjoint(a, b)
    BY DEF BlocksDisjoint
  <2>1. table.nextBlockIndex \in 0 .. TotalBlocks
    BY DEF BlockInv, BlockTypeOK
  <2>2. PICK k \in 0 .. (table.nextBlockIndex - 1) :
          table.assignments[n][i] = BlockAddress(k)
    BY DEF BlockInv, HeldBelowNext
  <2>3. PICK l \in 0 .. (table.nextBlockIndex - 1) :
          table.assignments[m][j] = BlockAddress(l)
    BY DEF BlockInv, HeldBelowNext
  <2>4. k \in 0 .. (TotalBlocks - 1) /\ l \in 0 .. (TotalBlocks - 1)
    BY <2>1, <2>2, <2>3
  <2>5. BaseIP <= BlockAddress(k)
        /\ BlockAddress(k) + BlockLen <= BaseIP + TotalBlocks * BlockLen
    BY <2>4, BlockAddressExact
  <2>6. (n # m \/ i # j) => k # l
    BY <2>2, <2>3 DEF BlockInv, HeldOnce
  <2>7. k # l => Disjoint(BlockAddress(k), BlockAddress(l))
    BY <2>4, BlocksApart
  <2>8. QED
    BY <2>2, <2>3, <2>5, <2>6, <2>7
<1>2. QED
  BY <1>1, ControllerCorrect, PTL

\* A block has one owner for the whole life of the controller (ReleaseBlocks
\* does not make it available again).
THEOREM BlockNeverChangesHands == BlockSpec => []BlockHasOneOwnerEver
<1>1. BlockInv => BlockHasOneOwnerEver
  BY DEF BlockInv
<1>2. QED
  BY <1>1, ControllerCorrect, PTL

\* AssignBlock and AssignSecondaryBlock refuse only when all blocks were given.
THEOREM RefusalIsHonest == BlockSpec => []RefusalMeansAllGiven
<1>1. BlockInv => RefusalMeansAllGiven
  <2> SUFFICES ASSUME BlockInv, ~IsBlockAvailable(table), NEW b \in Blocks
               PROVE  b \in {g[2] : g \in given}
    BY DEF RefusalMeansAllGiven
  <2>1. PICK k \in 0 .. (TotalBlocks - 1) : b = BlockAddress(k)
    BY DEF Blocks
  <2>2. k \in 0 .. (table.nextBlockIndex - 1)
    BY DEF BlockInv, BlockTypeOK, IsBlockAvailable
  <2>3. QED
    BY <2>1, <2>2 DEF BlockInv, BelowNextGiven
<1>2. QED
  BY <1>1, ControllerCorrect, PTL

\* No call for any node moves or drops part of a node's blocks: they are added
\* to, or released all at once.
THEOREM BlocksStay == BlockSpec => BlocksAreSticky
<1> DEFINE Kept(n) ==
      \/ table'.assignments[n] = <<>>
      \/ /\ Len(table.assignments[n]) <= Len(table'.assignments[n])
         /\ \A i \in DOMAIN table.assignments[n] :
              table'.assignments[n][i] = table.assignments[n][i]
<1>1. ASSUME BlockInv, [BlockNext]_blockVars, NEW n \in Nodes PROVE Kept(n)
  <2>1. /\ table \in [assignments : [Nodes -> Seq(Blocks)], nextBlockIndex : 0 .. TotalBlocks]
        /\ table.assignments[n] \in Seq(Blocks)
        /\ Len(table.assignments[n]) \in Nat
    BY <1>1 DEF BlockInv, BlockTypeOK
  <2>2. CASE table' = table
    BY <2>1, <2>2
  <2>3. ASSUME NEW m \in Nodes, table' = AfterAssignNextBlock(table, m) PROVE Kept(n)
    <3>1. CASE ~IsBlockAvailable(table)
      BY <2>2, <2>3, <3>1 DEF AfterAssignNextBlock
    <3>2. CASE IsBlockAvailable(table)
      <4> DEFINE b == BlockAddress(table.nextBlockIndex)
      <4>1. table'.assignments =
              [table.assignments EXCEPT ![m] = Append(table.assignments[m], b)]
        BY <2>3, <3>2 DEF AfterAssignNextBlock
      <4>2. table.nextBlockIndex \in 0 .. (TotalBlocks - 1)
        BY <1>1, <3>2, NextBlockIsNew
      <4>3. b \in Blocks
        BY <4>2 DEF Blocks
      <4> HIDE DEF b
      <4>4. CASE m = n
        <5>1. table'.assignments[n] = Append(table.assignments[n], b)
          BY <2>1, <4>1, <4>4
        <5>2. QED
          BY <2>1, <4>3, <5>1
      <4>5. CASE m # n
        <5>1. table'.assignments[n] = table.assignments[n]
          BY <2>1, <4>1, <4>5
        <5>2. QED
          BY <2>1, <5>1
      <4>6. QED
        BY <4>4, <4>5
    <3>3. QED
      BY <3>1, <3>2
  <2>4. ASSUME NEW m \in Nodes, ReleaseBlocks(m) PROVE Kept(n)
    <3>1. table'.assignments = [table.assignments EXCEPT ![m] = <<>>]
      BY <2>1, <2>4 DEF ReleaseBlocks, AfterReleaseBlocks
    <3>2. table'.assignments[n] = <<>> \/ table'.assignments[n] = table.assignments[n]
      BY <2>1, <3>1
    <3>3. QED
      BY <2>1, <3>2
  <2>5. ASSUME NEW m \in Nodes, AssignBlock(m) PROVE Kept(n)
    BY <2>2, <2>3, <2>5 DEF AssignBlock, AfterAssignBlock
  <2>6. QED
    BY <1>1, <2>2, <2>3, <2>4, <2>5 DEF BlockNext, blockVars, AssignSecondaryBlock
<1>2. BlockInv /\ [BlockNext]_blockVars => [\A n \in Nodes : Kept(n)]_blockVars
  BY <1>1
<1>3. QED
  BY <1>2, ControllerCorrect, PTL DEF BlockSpec, BlocksAreSticky
=============================================================================
