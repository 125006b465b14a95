--------------------------- MODULE BlockController ---------------------------
(***************************************************************************)
(* The cluster's address blocks: IPAMController called by anybody, in any  *)
(* order, for any node.                                                    *)
(***************************************************************************)
EXTENDS BlockTable, FiniteSets

VARIABLES table,         \* the IPAMController
          given          \* history: every <<node, block>> ever given out

blockVars == <<table, given>>

BlockInit == table = NewIPAMController /\ given = {}

\* The history of a step that may have given node n a block.
Remember(n) ==
  given' = given \cup {<<n, b>> : b \in HeldBlocks(table') \ HeldBlocks(table)}

AssignBlock(n) == table' = AfterAssignBlock(table, n) /\ Remember(n)

AssignSecondaryBlock(n) == table' = AfterAssignNextBlock(table, n) /\ Remember(n)

ReleaseBlocks(n) == table' = AfterReleaseBlocks(table, n) /\ UNCHANGED given

BlockNext ==
  \E n \in Nodes : AssignBlock(n) \/ AssignSecondaryBlock(n) \/ ReleaseBlocks(n)

BlockSpec == BlockInit /\ [][BlockNext]_blockVars

-----------------------------------------------------------------------------
(* Properties.                                                             *)

Blocks == {BlockAddress(i) : i \in 0 .. (TotalBlocks - 1)}

\* Types of the assignment map and the block index.
BlockTypeOK ==
  /\ table \in [assignments : [Nodes -> Seq(Blocks)], nextBlockIndex : 0 .. TotalBlocks]
  /\ given \subseteq Nodes \X Blocks

Disjoint(a, b) == a + BlockLen <= b \/ b + BlockLen <= a

\* The address ranges of any two blocks held, by one node or by two, do not
\* overlap, and none leaves the cluster CIDR: the uint32 arithmetic of
\* assignNextBlock neither wraps nor truncates.  Pod addresses unique on their
\* node are then unique in the cluster.
BlocksDisjoint ==
  \A n, m \in Nodes :
    \A i \in DOMAIN table.assignments[n], j \in DOMAIN table.assignments[m] :
      LET a == table.assignments[n][i]
          b == table.assignments[m][j]
      IN  /\ BaseIP <= a /\ a + BlockLen <= BaseIP + TotalBlocks * BlockLen
          /\ (n # m \/ i # j) => Disjoint(a, b)

\* A block is given to one node only, ever: after ReleaseBlocks nobody else
\* gets it, so what still points at the old node (routes, policy entries,
\* checkpoints) never points at another node's pods.
BlockHasOneOwnerEver ==
  \A g, h \in given : g[2] = h[2] => g[1] = h[1]

\* Every block held or ever given has an index below nextBlockIndex, and every
\* index below it was given: what makes the properties inductive.
HeldBelowNext ==
  \A n \in Nodes : \A i \in DOMAIN table.assignments[n] :
    \E k \in 0 .. (table.nextBlockIndex - 1) :
      table.assignments[n][i] = BlockAddress(k)
HeldOnce ==
  \A n, m \in Nodes :
    \A i \in DOMAIN table.assignments[n], j \in DOMAIN table.assignments[m] :
      table.assignments[n][i] = table.assignments[m][j] => n = m /\ i = j
GivenBelowNext ==
  \A g \in given : \E k \in 0 .. (table.nextBlockIndex - 1) : g[2] = BlockAddress(k)
BelowNextGiven ==
  \A k \in 0 .. (table.nextBlockIndex - 1) : \E g \in given : g[2] = BlockAddress(k)
BlockInv ==
  /\ BlockTypeOK /\ HeldBelowNext /\ HeldOnce
  /\ GivenBelowNext /\ BelowNextGiven /\ BlockHasOneOwnerEver

\* A node's blocks are only added to, or all released at once: a repeated
\* AssignBlock, or anything done for another node, never moves its primary.
BlocksAreSticky ==
  [][\A n \in Nodes :
       \/ table'.assignments[n] = <<>>
       \/ /\ Len(table.assignments[n]) <= Len(table'.assignments[n])
          /\ \A i \in DOMAIN table.assignments[n] :
               table'.assignments[n][i] = table.assignments[n][i]]_blockVars

\* "No more blocks available" is reported only when every block of the cluster
\* CIDR was given to some node.
RefusalMeansAllGiven ==
  ~IsBlockAvailable(table) => Blocks \subseteq {g[2] : g \in given}
=============================================================================
