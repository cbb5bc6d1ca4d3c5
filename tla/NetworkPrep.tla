----------------------------- MODULE NetworkPrep -----------------------------
(***************************************************************************)
(* The network part of the pipeline: statuses, node types and generator    *)
(* aggregates, derived by a cascade of steps on a working copy             *)
(* (gridstate/topology.py, telemetry/on_line.py, telemetry/generators.py,  *)
(* prepare_network and run of pipeline/runner.py).                         *)
(*                                                                         *)
(* A network is a record of the mutable columns; ids, branch ends and      *)
(* priorities never change.  A step is a function from network to network. *)
(* The caller runs the estimation on an input, materializes the input with *)
(* prepare_network, materializes the result again, and runs on it.         *)
(***************************************************************************)
EXTENDS Integers, FiniteSets, Sequences

CONSTANTS
  Nodes,          \* ids of the node table
  Branches, Gens, \* ids of the branch and generator tables
  From, To,       \* ends of a branch: any id, in the node table or not
  NodeOf,         \* node_id of a generator: likewise
  Priority,       \* balance_priority of a node
  Networks,       \* the input networks explored
  Plans,          \* the topology plans explored
  Configs         \* the configurations explored: sets of switched-on toggles

NodeTypes == {"PQ", "PV", "SLACK"}

Network == [nodeOn    : [Nodes -> BOOLEAN],
            nodeType  : [Nodes -> NodeTypes],
            branchOn  : [Branches -> BOOLEAN],
            genOn     : [Gens -> BOOLEAN],
            existGen  : [Nodes -> BOOLEAN],
            \* whose output the generation fields of the node sum up: the
            \* node's own declaration, or some of its generators
            generation : [Nodes -> SUBSET (Gens \cup {"declared"})]]

\* An ON_LINE plan gives a status to some ids, of the tables or not.
Statuses(f) == f \in [DOMAIN f -> BOOLEAN]

ASSUME NodesAssumption == Nodes \subseteq Nat /\ IsFiniteSet(Nodes)
ASSUME EndsAssumption == /\ From \in [Branches -> Nat]
                         /\ To \in [Branches -> Nat]
                         /\ NodeOf \in [Gens -> Nat]
ASSUME PriorityAssumption == Priority \in [Nodes -> Int]
ASSUME InputsAssumption == /\ Networks \subseteq Network
                            /\ \A p \in Plans : Statuses(p.nodes) /\ Statuses(p.branches) /\ Statuses(p.gens)

-------------------------------------------------------------------------------
(* Kernels: what is to be changed in a network *)

Ends(b) == {From[b], To[b]}

ActiveNodes(n)    == {i \in Nodes : n.nodeOn[i]}
ActiveBranches(n) == {b \in Branches : n.branchOn[b]}
ActiveSlacks(n)   == {i \in ActiveNodes(n) : n.nodeType[i] = "SLACK"}

\* Nodes at either end of an active branch, whatever the other end.
NodesWithBranch(n) == UNION {Ends(b) : b \in ActiveBranches(n)}

OrphanBranches(n) == {b \in ActiveBranches(n) : ~(Ends(b) \subseteq ActiveNodes(n))}

\* Sets of active nodes that active branches do not leave.
Closed(n) == {S \in SUBSET ActiveNodes(n) :
                \A b \in ActiveBranches(n) \ OrphanBranches(n) :
                  Ends(b) \cap S # {} => Ends(b) \subseteq S}

\* What a search from the seeds over active branches visits: the least closed
\* set around them.
Reached(n, seeds) ==
  {i \in ActiveNodes(n) : \A S \in Closed(n) : seeds \subseteq S => i \in S}

\* Mutant: a node that has a branch counts as connected.
DisconnectedByDegree(n) ==
  IF ActiveSlacks(n) = {} THEN {} ELSE ActiveNodes(n) \ (ActiveSlacks(n) \cup NodesWithBranch(n))

DisconnectedNodes(n) ==
  IF ActiveSlacks(n) = {} THEN {} ELSE ActiveNodes(n) \ Reached(n, ActiveSlacks(n))

IsolatedNodes(n) == ActiveNodes(n) \ (ActiveSlacks(n) \cup NodesWithBranch(n))

SlackCandidates(n) == {i \in ActiveSlacks(n) : Priority[i] > 0 /\ i \in NodesWithBranch(n)}

\* Minimal priority, ties by minimal id.
Before(i, j) == Priority[i] < Priority[j] \/ (Priority[i] = Priority[j] /\ i <= j)

ChosenSlacks(n) == {i \in SlackCandidates(n) : \A j \in SlackCandidates(n) : Before(i, j)}

\* Mutant: slacks that were no candidates stay slacks.
LosingCandidates(n) == SlackCandidates(n) \ ChosenSlacks(n)

SlacksToDemote(n) ==
  IF SlackCandidates(n) = {} THEN {} ELSE ActiveSlacks(n) \ ChosenSlacks(n)

WithGens(n)    == {i \in Nodes : \E g \in Gens : NodeOf[g] = i}
WithActiveGen(n) == {i \in Nodes : \E g \in Gens : NodeOf[g] = i /\ n.genOn[g]}

ToPromote(n) == {i \in ActiveNodes(n) \cap WithActiveGen(n) : n.nodeType[i] = "PQ"}

\* Mutant: a type is never taken back.
NoneToDemote(n) == {}

\* The status of the node is not looked at.
ToDemote(n) == {i \in WithGens(n) \ WithActiveGen(n) : n.nodeType[i] = "PV"}

-------------------------------------------------------------------------------
(* Steps: a network to a network *)

\* The entries of the plan replace the statuses, in either direction; an entry
\* without a row in the table is skipped.
Overlay(f, resolved) == [x \in DOMAIN f |-> IF x \in DOMAIN resolved THEN resolved[x] ELSE f[x]]

apply_topology(n, resolved) ==
  [n EXCEPT !.nodeOn = Overlay(@, resolved.nodes),
            !.branchOn = Overlay(@, resolved.branches),
            !.genOn = Overlay(@, resolved.gens)]

refine_slack_to_one(n) ==
  [n EXCEPT !.nodeType = [i \in Nodes |-> IF i \in SlacksToDemote(n) THEN "PQ" ELSE @[i]]]

refine_node_types(n) ==
  [n EXCEPT !.nodeType = [i \in Nodes |-> IF i \in ToPromote(n) THEN "PV"
                                          ELSE IF i \in ToDemote(n) THEN "PQ" ELSE @[i]]]

Off(f, S) == [x \in DOMAIN f |-> f[x] /\ x \notin S]

disable_orphan_branches(n) == [n EXCEPT !.branchOn = Off(@, OrphanBranches(n))]

\* Mutant: the branches of the nodes just switched off stay on.
disable_nodes_only(n, recheck) == [n EXCEPT !.nodeOn = Off(@, DisconnectedNodes(n))]

\* Followed by a second pass over the branches of the nodes just switched off.
disable_disconnected(n, recheck) ==
  LET cut == [n EXCEPT !.nodeOn = Off(@, DisconnectedNodes(n))]
  IN  IF recheck THEN disable_orphan_branches(cut) ELSE cut

disable_isolated(n) == [n EXCEPT !.nodeOn = Off(@, IsolatedNodes(n))]

\* node off => gen off; a generator of a missing node is left alone.
GensOfDeadNodes(n) == {g \in Gens : NodeOf[g] \in Nodes \ ActiveNodes(n)}

generator_status(n) == [n EXCEPT !.genOn = Off(@, GensOfDeadNodes(n))]

\* A node with generator records generates what its active generators do.
RunningAt(n, i) == {g \in Gens : NodeOf[g] = i /\ n.genOn[g]}

aggregate_generators(n) ==
  [n EXCEPT !.existGen   = [i \in Nodes |-> IF i \in WithGens(n) THEN i \in WithActiveGen(n) ELSE @[i]],
            !.generation = [i \in Nodes |-> IF i \in WithGens(n) THEN RunningAt(n, i) ELSE @[i]]]

-------------------------------------------------------------------------------
(* The calls *)

STEPS == <<"topology", "refine_slack", "refine_node_types", "disable_orphan_branches",
           "disable_disconnected", "disable_isolated", "generator_status",
           "refine_node_types_2", "aggregate_generators">>

\* Steps that are not in the network subset of prepare_network.
RunOnly == {"refine_node_types_2", "aggregate_generators"}

\* Mutant: the second pass over node types has a toggle of its own.
OwnToggle(step) == step

\* The two passes over node types share their toggle.
ToggleOf(step) == IF step = "refine_node_types_2" THEN "refine_node_types" ELSE step

\* Calls of the library, each on the input or on what prepare_network returned.
CALLS == << [entry |-> "run",     on |-> "input"],
            [entry |-> "prepare", on |-> "input"],
            [entry |-> "prepare", on |-> "prepared"],
            [entry |-> "run",     on |-> "prepared"] >>

VARIABLES
  cfg,      \* switched-on toggles
  plan,     \* the topology plan of derived
  input,    \* the caller's network: never written
  call,     \* index in CALLS; after the last one the caller is done
  pos,      \* index in STEPS
  net,      \* the working copy of the call
  returned  \* networks returned by the finished calls

vars == <<cfg, plan, input, call, pos, net, returned>>

Init ==
  /\ cfg \in Configs
  /\ plan \in Plans
  /\ input \in Networks
  /\ call = 1 /\ pos = 1
  /\ net = input
  /\ returned = <<>>

InCall == call <= Len(CALLS)
entry  == CALLS[call].entry

On(step) == ToggleOf(step) \in cfg
AtStep(step) == InCall /\ pos <= Len(STEPS) /\ STEPS[pos] = step
Skipped(step) == ~On(step) \/ (entry = "prepare" /\ step \in RunOnly)

\* One step of the executor: the current step runs, or is skipped.
Do(step, n) ==
  /\ net' = IF Skipped(step) THEN net ELSE n
  /\ pos' = pos + 1
  /\ UNCHANGED <<cfg, plan, input, call, returned>>

Topology              == AtStep("topology") /\ Do("topology", apply_topology(net, plan))
RefineSlack           == AtStep("refine_slack") /\ Do("refine_slack", refine_slack_to_one(net))
RefineNodeTypes       == AtStep("refine_node_types") /\ Do("refine_node_types", refine_node_types(net))
DisableOrphanBranches ==
  AtStep("disable_orphan_branches") /\ Do("disable_orphan_branches", disable_orphan_branches(net))
DisableDisconnected   ==
  AtStep("disable_disconnected")
    /\ Do("disable_disconnected", disable_disconnected(net, "disable_orphan_branches" \in cfg))
DisableIsolated       == AtStep("disable_isolated") /\ Do("disable_isolated", disable_isolated(net))
GeneratorStatus       == AtStep("generator_status") /\ Do("generator_status", generator_status(net))
RefineNodeTypes2      == AtStep("refine_node_types_2") /\ Do("refine_node_types_2", refine_node_types(net))
AggregateGenerators   ==
  AtStep("aggregate_generators") /\ Do("aggregate_generators", aggregate_generators(net))

StepsDone == InCall /\ pos > Len(STEPS)

\* The call returns; the next one builds its own working copy.
Source(c, r) == IF CALLS[c].on = "input" THEN input ELSE r[2]

Return ==
  /\ StepsDone
  /\ returned' = Append(returned, net)
  /\ call' = call + 1
  /\ pos' = 1
  /\ net' = IF call < Len(CALLS) THEN Source(call + 1, returned') ELSE net
  /\ UNCHANGED <<cfg, plan, input>>

CallerDone == ~InCall /\ UNCHANGED vars

Next ==
  \/ Topology \/ RefineSlack \/ RefineNodeTypes
  \/ DisableOrphanBranches \/ DisableDisconnected \/ DisableIsolated
  \/ GeneratorStatus \/ RefineNodeTypes2 \/ AggregateGenerators
  \/ Return \/ CallerDone

Spec == Init /\ [][Next]_vars

-------------------------------------------------------------------------------
(* Properties *)

\* Type invariant.
TypeOK ==
  /\ cfg \in Configs /\ plan \in Plans /\ input \in Networks
  /\ call \in 1..(Len(CALLS) + 1)
  /\ pos \in 1..(Len(STEPS) + 1)
  /\ net \in Network
  /\ returned \in Seq(Network) /\ Len(returned) = call - 1

Cascade == {"disable_orphan_branches", "disable_disconnected", "disable_isolated"}

\* One pass of the cascade is enough: with its three steps on, nothing is left
\* that any of them would switch off, so their order needs no second round (the
\* orphan recheck inside disable_disconnected_components is what it takes).
CascadeIsComplete ==
  StepsDone /\ Cascade \subseteq cfg =>
    /\ OrphanBranches(net) = {}
    /\ DisconnectedNodes(net) = {}
    /\ IsolatedNodes(net) = {}

\* No island is solved without an angle reference: two active nodes are in the
\* same component as a slack, whichever cascade steps besides
\* disable_disconnected are on ("free degrees of freedom of H").
NoFloatingIsland ==
  StepsDone /\ "disable_disconnected" \in cfg /\ ActiveSlacks(net) # {} =>
    \A S \in Closed(net) : S # {} => S \cap ActiveSlacks(net) # {}

\* The slack positions units.network_pu_from_tables may pick.
SolverSlacks(n) == {i \in ActiveSlacks(n) : \A j \in ActiveSlacks(n) : Priority[i] <= Priority[j]}

\* The network at refine_slack of the current call.
SeenByRefineSlack ==
  LET source == Source(call, returned)
  IN  IF "topology" \in cfg THEN apply_topology(source, plan) ELSE source

\* The conversion to per unit, which has its own rule for several slacks, picks
\* the slack refine_slack_to_one chose, and no later cascade has switched it off.
SolverUsesChosenSlack ==
  StepsDone /\ "refine_slack" \in cfg /\ SlackCandidates(SeenByRefineSlack) # {} =>
    SolverSlacks(net) = ChosenSlacks(SeenByRefineSlack)

\* What the box variables of the solver rest on after a run: a node with
\* generator records is PV or slack only with a running machine, generates
\* exactly what its running machines do, and a machine runs only on an active node.
GenerationFollowsMachines ==
  StepsDone /\ entry = "run"
    /\ {"refine_node_types", "generator_status", "aggregate_generators"} \subseteq cfg =>
      \A i \in WithGens(net) :
        /\ net.nodeType[i] = "PV" => i \in WithActiveGen(net)
        /\ net.existGen[i] <=> i \in WithActiveGen(net)
        /\ net.generation[i] = RunningAt(net, i)
        /\ i \in WithActiveGen(net) => net.nodeOn[i] /\ net.nodeType[i] # "PQ"

\* prepare_network: "a following full run gives a bit-identical result".
MaterializedRunIsIdentical == ~InCall => returned[4] = returned[1]

\* prepare_network: "the derivations are idempotent on the materialized network
\* (a repeated run is a no-op)", asked of networks that have a slack.
PrepareIsIdempotent ==
  ~InCall /\ ActiveSlacks(returned[2]) # {} => returned[3] = returned[2]

\* What does hold of a repeated prepare_network: statuses do not change, nor the
\* types of the nodes that are on.
RepeatedPrepareKeepsLiveNetwork ==
  ~InCall =>
    /\ [returned[3] EXCEPT !.nodeType = returned[2].nodeType] = returned[2]
    /\ \A i \in ActiveNodes(returned[2]) : returned[3].nodeType[i] = returned[2].nodeType[i]

===============================================================================
