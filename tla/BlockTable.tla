----------------------------- MODULE BlockTable -----------------------------
(***************************************************************************)
(* ipam.IPAMController (pkg/ipam/controller.go) as operators on one record,*)
(* each method being atomic under the controller's mutex.                  *)
(*                                                                         *)
(*   assignments     assignments[n]: base addresses of n's blocks, oldest  *)
(*                   first; <<>> is a node without an entry                *)
(*   nextBlockIndex  index of the next block to give out                   *)
(***************************************************************************)
EXTENDS Integers, Sequences

CONSTANTS Nodes,         \* node names
          TotalBlocks,   \* 1 << (BlockSize - ones)
          BlockLen,      \* 1 << (bits - BlockSize): addresses of a block
          BaseIP,        \* ClusterCIDR.IP as an integer
          Word           \* 2^32: addresses are uint32

\* A CIDR is aligned, so the cluster's range ends inside the address space.
ASSUME BlockTableAssumption ==
  /\ TotalBlocks \in Nat \ {0}
  /\ BlockLen \in Nat \ {0}
  /\ BaseIP \in Nat
  /\ Word \in Nat \ {0}
  /\ BaseIP + TotalBlocks * BlockLen <= Word

NoBlock == -1            \* the error return

NewIPAMController ==
  [assignments |-> [n \in Nodes |-> <<>>], nextBlockIndex |-> 0]

\* Bug: the index is not scaled to the size of a block.
BlockAddress_Unscaled(i) == (BaseIP + i) % Word

\* blockIPVal, in uint32 arithmetic.
BlockAddress(i) == (BaseIP + ((i * BlockLen) % Word)) % Word

\* Bug: the last block of the cluster CIDR is left out.
IsBlockAvailable_NotLast(t) == t.nextBlockIndex < TotalBlocks - 1

IsBlockAvailable(t) == t.nextBlockIndex < TotalBlocks

\* assignNextBlock: an error, and no change, when the blocks are used up.
AfterAssignNextBlock(t, n) ==
  IF ~IsBlockAvailable(t) THEN t
  ELSE [assignments    |-> [t.assignments EXCEPT ![n] =
                              Append(@, BlockAddress(t.nextBlockIndex))],
        nextBlockIndex |-> t.nextBlockIndex + 1]

\* Bug: a node that has blocks gets a new primary.
AfterAssignBlock_Replaces(t, n) ==
  AfterAssignNextBlock([t EXCEPT !.assignments[n] = <<>>], n)

\* AssignBlock: a node that has blocks keeps them.
AfterAssignBlock(t, n) ==
  IF t.assignments[n] # <<>> THEN t ELSE AfterAssignNextBlock(t, n)

\* The block AssignBlock returns.
AssignedBlock(t, n) ==
  IF t.assignments[n] # <<>> THEN t.assignments[n][1]
  ELSE IF IsBlockAvailable(t) THEN BlockAddress(t.nextBlockIndex) ELSE NoBlock

\* Bug: the blocks become the next ones to be given out again.
AfterReleaseBlocks_Rewinds(t, n) ==
  [assignments    |-> [t.assignments EXCEPT ![n] = <<>>],
   nextBlockIndex |-> t.nextBlockIndex - Len(t.assignments[n])]

AfterReleaseBlocks(t, n) == [t EXCEPT !.assignments[n] = <<>>]

\* Blocks that some node holds.
HeldBlocks(t) ==
  UNION {{t.assignments[n][i] : i \in DOMAIN t.assignments[n]} : n \in Nodes}
=============================================================================
