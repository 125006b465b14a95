------------------------------- MODULE MCIPAM -------------------------------
(* Both allocators of pkg/ipam.  A node's: four usable addresses and five   *)
(* pods, so that the block runs out.  (Blocks in the code are powers of two;*)
(* the operators do not depend on it, and size 6 is the cheapest one that   *)
(* has more than one pod left when it is full.)  The cluster's: three nodes *)
(* and four blocks of four addresses at the very end of a 6-bit address     *)
(* space, so that a wrong scale or one block too many wraps.                *)
(*                                                                          *)
(* They share no state, so a behaviour is one of either, the other at rest. *)
EXTENDS NodeAllocator, BlockController, TLC

CONSTANTS p1, p2, p3, p4, p5, n1, n2, n3

VARIABLE subject         \* the allocator this behaviour is about

MCKeys == {p1, p2, p3, p4, p5}
MCNodes == {n1, n2, n3}
Symmetry == Permutations(MCNodes)

IPAMInit == subject \in {"node", "cluster"} /\ Init /\ BlockInit

IPAMNext ==
  \/ subject = "node" /\ Next /\ UNCHANGED <<subject, blockVars>>
  \/ subject = "cluster" /\ BlockNext /\ UNCHANGED <<subject, alloc>>

IPAMSpec == IPAMInit /\ [][IPAMNext]_<<subject, alloc, blockVars>>
==============================================================================
