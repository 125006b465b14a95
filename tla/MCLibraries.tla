----------------------------- MODULE MCLibraries -----------------------------
(* The two libraries nothing under cmd/ calls yet.  Routing: two other nodes *)
(* with two pod CIDRs each over time, and two addresses.  Flow export: two   *)
(* places in the buffer and five calls of Export, so that the buffer is full *)
(* when Stop comes, and a second Start.                                      *)
(*                                                                           *)
(* They share no state, so a behaviour is one of either, the other at rest.  *)
EXTENDS Routing, FlowExporter, TLC

CONSTANTS n1, n2, d0, d1, d2, d3, d4, i1, i2

VARIABLE subject         \* the library this behaviour is about

MCRemotes == {n1, n2}
MCCIDRs == {d0, d1, d2, d3, d4}
MCOwnerOf == d0 :> Local @@ d1 :> n1 @@ d2 :> n1 @@ d3 :> n2 @@ d4 :> n2
MCIPs == {i1, i2}

LibInit == subject \in {"routing", "flow"} /\ Init /\ FlowInit

LibNext ==
  \/ subject = "routing" /\ Next /\ UNCHANGED <<subject, flowVars>>
  \/ subject = "flow" /\ FlowNext /\ UNCHANGED <<subject, vars>>

\* The fairness of the flow exporter's goroutines; of routing none is assumed.
LibSpec == LibInit /\ [][LibNext]_<<subject, vars, flowVars>> /\ Fairness
==============================================================================
