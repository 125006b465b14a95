---------------------------- MODULE MCPolicyStore ----------------------------
(* Two callers, two policies that select by one label or by two, and a pod  *)
(* that can have the second selector's exact labels, so that an identity    *)
(* allocated for one policy can be found for the other.                     *)
EXTENDS PolicyStore

CONSTANTS t1, t2, n1, n2, p1, x, y

MCThreads == {t1, t2}
MCNames == {n1, n2}
MCPods == {p1}
MCPodLabels == {{x}, {x, y}}
MCLabels == {{}, {x}, {x, y}}
MCSpecs == {[pods |-> {x}, from |-> AnyPeer],
            [pods |-> {x, y}, from |-> {x}],
            [pods |-> {x, y}, from |-> NoRule]}
==============================================================================
