---------------------------- MODULE MCController ----------------------------
(* Three replicas (the Deployment's number), two blocks, three nodes.       *)
EXTENDS Controller, TLC

CONSTANTS r1, r2, r3, h1, h2

MCReplicas == {r1, r2, r3}
TwoHosts == {h1, h2}
Apart == r1 :> h1 @@ r2 :> h1 @@ r3 :> h2
MCNodes == 0 .. TotalBlocks
=============================================================================
