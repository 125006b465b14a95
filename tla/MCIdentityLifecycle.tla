------------------------- MODULE MCIdentityLifecycle -------------------------
(* Three clients, two label sets, one node: two clients share an identity    *)
(* while the third brings another in, and the collector runs in between.     *)
EXTENDS IdentityLifecycle, TLC

CONSTANTS c1, c2, c3, la, lb, n1

MCClients == {c1, c2, c3}
MCLabels == {la, lb}
MCNodes == {n1}
Symmetry == Permutations(MCClients) \cup Permutations(MCLabels)
==============================================================================
