------------------------------ MODULE MC_OakRuntime ------------------------------
(* One confidentiality tag s: Nodes and channels are public or secret; the *)
(* NodeFactory grants either no privilege or the declassification of s.   *)
EXTENDS OakRuntime, TLC

CONSTANTS s, h1, h2, h3, h4

Secret == [conf |-> {s}, integ |-> {}]
MC_NodeLabels == {public_untrusted, Secret}
MC_Privileges == {[declassify |-> {}, endorse |-> {}],
                  [declassify |-> {s}, endorse |-> {}]}

MC_PublicOnly == {public_untrusted}
MC_NoPrivilege == {[declassify |-> {}, endorse |-> {}]}

\* The state without the history of NeedsCapacity reports, for the runs whose
\* properties do not read it: it never enables or disables a step.
ViewWithoutReports ==
    <<nodes, label, privilege, abi_handles, node_stopper, next_node_id,
      next_channel_id, chanLabel, messages, live, pc, regChild,
      terminating, stopPc, taken, joining, seen, closedBy, learned>>

HandleSymmetry == Permutations({h1, h2, h3})
HandleSymmetry2 == Permutations({h1, h2})
=============================================================================
