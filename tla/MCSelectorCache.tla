--------------------------- MODULE MCSelectorCache ---------------------------
(* Two goroutines, two pods, two labels: a pod can change labels and still  *)
(* match, or stop matching.                                                 *)
EXTENDS SelectorCache, TLC

CONSTANTS t1, t2, p1, p2, x, y

MCThreads == {t1, t2}
MCPods == {p1, p2}
MCLabelSets == {{x}, {x, y}, {y}}
MCSelectors == {{x}, {}}
Symmetry == Permutations(MCThreads) \cup Permutations(MCPods)
==============================================================================
