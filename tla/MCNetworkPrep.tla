---------------------------- MODULE MCNetworkPrep ----------------------------
(* Values of the constants of NetworkPrep for TLC. *)
EXTENDS NetworkPrep

\* A triangle, and a branch to a node that is not in the table.
MCNodes == 1..3
MCBranches == {"b12", "b23", "b13", "b3x"}
MCFrom == [b \in MCBranches |-> CASE b = "b12" -> 1 [] b = "b23" -> 2 [] b = "b13" -> 1 [] b = "b3x" -> 3]
MCTo   == [b \in MCBranches |-> CASE b = "b12" -> 2 [] b = "b23" -> 3 [] b = "b13" -> 3 [] b = "b3x" -> 9]

\* Two machines on node 2, one on node 3 and one on a missing node.
MCGens == {"g1", "g2", "g3", "gx"}
MCNodeOf == [g \in MCGens |-> CASE g = "g3" -> 3 [] g = "gx" -> 9 [] OTHER -> 2]

\* Node 3 before node 1; node 2 is never chosen.
MCPriority == [i \in MCNodes |-> CASE i = 1 -> 2 [] i = 2 -> 0 [] i = 3 -> 1]

\* Any statuses and types.  Node 1 has no generator records.
MCNetworks ==
  [nodeOn : [MCNodes -> BOOLEAN], nodeType : [MCNodes -> NodeTypes], branchOn : [MCBranches -> BOOLEAN],
   genOn : {[g \in MCGens |-> g \in S] : S \in {{"gx"}, {"g1"}, {"g1", "g2", "g3"}}},
   existGen : {[i \in MCNodes |-> i # 3]}, generation : {[i \in MCNodes |-> {"declared"}]}]

\* A plan that switches a node and a generator on and a branch off,
\* and names a node that is not in the table.
MCPlans ==
  {[nodes |-> [i \in {2, 7} |-> TRUE], branches |-> [b \in {"b12"} |-> FALSE], gens |-> [g \in {"g3"} |-> TRUE]]}

Toggles == {"topology", "refine_slack", "refine_node_types", "disable_orphan_branches", "disable_disconnected",
            "disable_isolated", "generator_status", "aggregate_generators"}

\* All steps on, and each of them off.
MCConfigs == {Toggles} \cup {Toggles \ {t} : t \in Toggles}
===============================================================================
