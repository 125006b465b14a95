----------------------------- MODULE MCNodeAgent -----------------------------
(* Three pods; the first is created, deleted and created again, so that what *)
(* its first sandbox leaves behind can meet the second.                      *)
EXTENDS NodeAgent, TLC

CONSTANTS p1, p2, p3, c1, c2, c3, c4, a1, a2

TwoPods == {p1, p2}
ThreePods == {p1, p2, p3}
MCArgs == {a1, a2}

\* p1 and p2, once each.
TwoSandboxes == {c1, c2}
TwoSandboxesPodOf == c1 :> p1 @@ c2 :> p2

\* p1, recreated, and p2.
ThreeSandboxes == {c1, c2, c3}
ThreeSandboxesPodOf == c1 :> p1 @@ c2 :> p1 @@ c3 :> p2

\* p1, recreated, p2 and p3.
FourSandboxes == {c1, c2, c3, c4}
FourSandboxesPodOf == c1 :> p1 @@ c2 :> p1 @@ c3 :> p2 @@ c4 :> p3

\* p2 with c3 and p3 with c4 are interchangeable.
Symmetry == {f \in Permutations({p2, p3, c3, c4}) :
               /\ f[p2] \in {p2, p3} /\ f[p3] \in {p2, p3}
               /\ f[p2] = p3 <=> f[c3] = c4}

\* The interface of p1's first sandbox.
OneStuck == {c1}

\* A recreated pod comes with other arguments, hence other labels.
MCArgsOf == [c \in Sandboxes |-> IF c = c2 THEN a2 ELSE a1]
==============================================================================
