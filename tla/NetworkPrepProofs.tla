-------------------------- MODULE NetworkPrepProofs --------------------------
(* Proofs about NetworkPrep, for every network, plan and configuration.       *)
(*                                                                            *)
(* The argument: what a step of the cascade makes true is not undone by a     *)
(* later one.  Switching off what a search does not visit leaves a network in *)
(* which the same search visits everything (DisconnectedStep); a node without *)
(* a branch takes no path with it (IsolatedStep); and the steps behind these  *)
(* leave statuses of nodes and branches, and the slacks, alone (Same).        *)
(*                                                                            *)
(* What a second call computes follows from two more facts: every step of the *)
(* cascade is monotone in the statuses (CutMonotone) and leaves its own       *)
(* result as it is (CutTwice).  The network the second call sees after the    *)
(* plan lies between the result of the first call and what the first call     *)
(* saw (SeenBetween), so the cascade takes it to that result (PrepareTwice).  *)
EXTENDS NetworkPrep, TLAPS

-----------------------------------------------------------------------------
(* Facts about the kernels *)

Same(m, n) ==
    /\ m.nodeOn = n.nodeOn
    /\ m.branchOn = n.branchOn
    /\ ActiveSlacks(m) = ActiveSlacks(n)

(* What the cascade looks at is statuses of nodes and branches, and slacks.   *)
LEMMA CascadeLooksAt ==
    ASSUME NEW m, NEW n, Same(m, n)
    PROVE  /\ ActiveNodes(m) = ActiveNodes(n)
           /\ OrphanBranches(m) = OrphanBranches(n)
           /\ DisconnectedNodes(m) = DisconnectedNodes(n)
           /\ IsolatedNodes(m) = IsolatedNodes(n)
<1>1. ActiveNodes(m) = ActiveNodes(n) /\ ActiveBranches(m) = ActiveBranches(n)
  BY DEF Same, ActiveNodes, ActiveBranches
<1>2. OrphanBranches(m) = OrphanBranches(n) /\ NodesWithBranch(m) = NodesWithBranch(n)
  BY <1>1 DEF OrphanBranches, NodesWithBranch
<1>3. Closed(m) = Closed(n)
  BY <1>1, <1>2 DEF Closed
<1>4. \A seeds : Reached(m, seeds) = Reached(n, seeds)
  BY <1>1, <1>3 DEF Reached
<1>5. QED
  BY <1>1, <1>2, <1>4 DEF Same, DisconnectedNodes, IsolatedNodes

(* A search returns its seeds ...                                             *)
LEMMA ReachedSeeds ==
    ASSUME NEW n, NEW seeds \in SUBSET ActiveNodes(n)
    PROVE  seeds \subseteq Reached(n, seeds)
BY DEF Reached

(* ... and stops nowhere short of the end of a branch.                        *)
LEMMA ReachedClosed ==
    ASSUME NEW n, NEW seeds
    PROVE  Reached(n, seeds) \in Closed(n)
<1> DEFINE R == Reached(n, seeds)
<1>1. R \in SUBSET ActiveNodes(n)
  BY DEF Reached
<1>2. ASSUME NEW b \in ActiveBranches(n) \ OrphanBranches(n), Ends(b) \cap R # {}
      PROVE  Ends(b) \subseteq R
  <2>1. Ends(b) \subseteq ActiveNodes(n)
    BY <1>2 DEF OrphanBranches
  <2>2. PICK e \in Ends(b) : e \in R
    BY <1>2
  <2>3. ASSUME NEW S \in Closed(n), seeds \subseteq S
        PROVE  Ends(b) \subseteq S
    <3>1. e \in S
      BY <2>2, <2>3 DEF Reached
    <3>2. QED
      BY <3>1, <2>3 DEF Closed
  <2>4. QED
    BY <2>1, <2>3 DEF Reached
<1>3. QED
  BY <1>1, <1>2 DEF Closed

-----------------------------------------------------------------------------
(* What the steps of the cascade leave *)

LEMMA OrphanStep ==
    ASSUME NEW n \in Network
    PROVE  LET m == disable_orphan_branches(n)
           IN  /\ m.nodeOn = n.nodeOn /\ m.nodeType = n.nodeType
               /\ OrphanBranches(m) = {}
<1> DEFINE m == disable_orphan_branches(n)
<1>1. m.nodeOn = n.nodeOn /\ m.nodeType = n.nodeType
  BY DEF disable_orphan_branches, Network
<1>2. ActiveNodes(m) = ActiveNodes(n)
  BY <1>1 DEF ActiveNodes
<1>3. m.branchOn = [b \in Branches |-> n.branchOn[b] /\ b \notin OrphanBranches(n)]
  BY DEF disable_orphan_branches, Network, Off
<1>4. ActiveBranches(m) = ActiveBranches(n) \ OrphanBranches(n)
  BY <1>3 DEF ActiveBranches
<1>5. OrphanBranches(m) = {}
  BY <1>2, <1>4 DEF OrphanBranches
<1>6. QED
  BY <1>1, <1>5

(* The cut: the nodes a search from the slacks does not visit are off.        *)
LEMMA DisconnectedStep ==
    ASSUME NEW n \in Network, NEW recheck \in BOOLEAN
    PROVE  LET m == disable_disconnected(n, recheck)
           IN  /\ m.nodeType = n.nodeType
               /\ ActiveNodes(m) = ActiveNodes(n) \ DisconnectedNodes(n)
               /\ ActiveSlacks(m) = ActiveSlacks(n)
               /\ recheck => OrphanBranches(m) = {}
               /\ DisconnectedNodes(m) = {}
<1> DEFINE cut == [n EXCEPT !.nodeOn = Off(@, DisconnectedNodes(n))]
           m == disable_disconnected(n, recheck)
<1>1. cut \in Network /\ cut.nodeType = n.nodeType /\ cut.branchOn = n.branchOn
      /\ cut.nodeOn = [i \in Nodes |-> n.nodeOn[i] /\ i \notin DisconnectedNodes(n)]
  BY DEF Network, Off
<1>2. /\ m.nodeOn = cut.nodeOn /\ m.nodeType = n.nodeType
      /\ recheck => OrphanBranches(m) = {}
      /\ recheck => m = disable_orphan_branches(cut)
      /\ ~recheck => m = cut
  BY <1>1, OrphanStep DEF disable_disconnected
<1>3. ActiveNodes(m) = ActiveNodes(n) \ DisconnectedNodes(n)
      /\ ActiveNodes(cut) = ActiveNodes(m)
  BY <1>1, <1>2 DEF ActiveNodes
<1>4. ActiveBranches(m) \ OrphanBranches(m) = ActiveBranches(cut) \ OrphanBranches(cut)
  <2>1. CASE recheck
    <3>1. m.branchOn = [b \in Branches |-> cut.branchOn[b] /\ b \notin OrphanBranches(cut)]
      BY <1>1, <1>2, <2>1 DEF disable_orphan_branches, Network, Off
    <3>2. ActiveBranches(m) = ActiveBranches(cut) \ OrphanBranches(cut)
      BY <3>1 DEF ActiveBranches
    <3>3. QED
      BY <3>2, <1>2, <2>1
  <2>2. CASE ~recheck
    BY <1>2, <2>2
  <2>3. QED
    BY <2>1, <2>2
<1>5. DisconnectedNodes(n) \cap ActiveSlacks(n) = {}
  BY ReachedSeeds DEF DisconnectedNodes, ActiveSlacks
<1>6. ActiveSlacks(m) = ActiveSlacks(n)
  BY <1>2, <1>3, <1>5 DEF ActiveSlacks
<1>7. DisconnectedNodes(m) = {}
  <2>1. CASE ActiveSlacks(n) = {}
    BY <1>6, <2>1 DEF DisconnectedNodes
  <2>2. CASE ActiveSlacks(n) # {}
    <3> DEFINE R == Reached(n, ActiveSlacks(n))
    <3>1. ActiveNodes(m) = R /\ R \in SUBSET ActiveNodes(n)
      BY <1>3, <2>2 DEF DisconnectedNodes, Reached
    <3>2. ASSUME NEW S \in Closed(m) PROVE S \in Closed(n)
      <4>1. S \in SUBSET R
        BY <3>1, <3>2 DEF Closed
      <4>2. ASSUME NEW b \in ActiveBranches(n) \ OrphanBranches(n), Ends(b) \cap S # {}
            PROVE  Ends(b) \subseteq S
        <5>1. Ends(b) \subseteq R
          BY <4>1, <4>2, ReachedClosed DEF Closed
        <5>2. b \in ActiveBranches(cut)
          BY <1>1 DEF ActiveBranches
        <5>3. b \in ActiveBranches(m) \ OrphanBranches(m)
          BY <5>1, <5>2, <3>1, <1>3, <1>4 DEF OrphanBranches
        <5>4. QED
          BY <5>3, <4>2, <3>2 DEF Closed
      <4>3. QED
        BY <4>1, <4>2, <3>1 DEF Closed
    <3>3. R \subseteq Reached(m, ActiveSlacks(m))
      BY <3>1, <3>2, <1>6 DEF Reached
    <3>4. QED
      BY <3>1, <3>3 DEF DisconnectedNodes
  <2>3. QED
    BY <2>1, <2>2
<1>8. QED
  BY <1>2, <1>3, <1>6, <1>7

(* A node without a branch takes no branch, no slack and no path with it.     *)
LEMMA IsolatedStep ==
    ASSUME NEW n \in Network
    PROVE  LET m == disable_isolated(n)
           IN  /\ m.nodeType = n.nodeType
               /\ ActiveSlacks(m) = ActiveSlacks(n)
               /\ OrphanBranches(m) = OrphanBranches(n)
               /\ DisconnectedNodes(n) = {} => DisconnectedNodes(m) = {}
               /\ IsolatedNodes(m) = {}
<1> DEFINE m == disable_isolated(n)
<1>1. /\ m.nodeType = n.nodeType /\ m.branchOn = n.branchOn
      /\ m.nodeOn = [i \in Nodes |-> n.nodeOn[i] /\ i \notin IsolatedNodes(n)]
  BY DEF disable_isolated, Network, Off
<1>2. ActiveNodes(m) = ActiveNodes(n) \ IsolatedNodes(n)
      /\ ActiveBranches(m) = ActiveBranches(n) /\ NodesWithBranch(m) = NodesWithBranch(n)
  BY <1>1 DEF ActiveNodes, ActiveBranches, NodesWithBranch
<1>3. ActiveSlacks(m) = ActiveSlacks(n)
  BY <1>1, <1>2 DEF ActiveSlacks, IsolatedNodes
<1>4. \A b \in ActiveBranches(n) : Ends(b) \cap IsolatedNodes(n) = {}
  BY DEF IsolatedNodes, NodesWithBranch
<1>5. OrphanBranches(m) = OrphanBranches(n)
  BY <1>2, <1>4 DEF OrphanBranches
<1>6. IsolatedNodes(m) = {}
  BY <1>2, <1>3 DEF IsolatedNodes
<1>7. ASSUME DisconnectedNodes(n) = {} PROVE DisconnectedNodes(m) = {}
  <2>1. CASE ActiveSlacks(n) = {}
    BY <1>3, <2>1 DEF DisconnectedNodes
  <2>2. CASE ActiveSlacks(n) # {}
    <3>1. ActiveNodes(n) \subseteq Reached(n, ActiveSlacks(n))
      BY <1>7, <2>2 DEF DisconnectedNodes
    <3>2. ASSUME NEW S \in Closed(m) PROVE S \in Closed(n)
      BY <1>2, <1>5, <3>2 DEF Closed
    <3>3. ActiveNodes(m) \subseteq Reached(m, ActiveSlacks(m))
      BY <3>1, <3>2, <1>2, <1>3 DEF Reached
    <3>4. QED
      BY <3>3 DEF DisconnectedNodes
  <2>3. QED
    BY <2>1, <2>2
<1>8. QED
  BY <1>1, <1>3, <1>5, <1>6, <1>7

(* Where a search from the slacks visits every node, no set of nodes that     *)
(* branches do not leave is without a slack.                                  *)
LEMMA NoIsland ==
    ASSUME NEW n, DisconnectedNodes(n) = {}, ActiveSlacks(n) # {},
           NEW S \in Closed(n), S # {}
    PROVE  S \cap ActiveSlacks(n) # {}
<1> SUFFICES ASSUME S \cap ActiveSlacks(n) = {} PROVE FALSE
  OBVIOUS
<1> DEFINE T == ActiveNodes(n) \ S
<1>1. S \in SUBSET ActiveNodes(n)
  BY DEF Closed
<1>2. T \in Closed(n)
  <2>1. ASSUME NEW b \in ActiveBranches(n) \ OrphanBranches(n), Ends(b) \cap T # {}
        PROVE  Ends(b) \subseteq T
    <3>1. Ends(b) \subseteq ActiveNodes(n)
      BY DEF OrphanBranches
    <3>2. Ends(b) \cap S = {}
      BY <2>1 DEF Closed
    <3>3. QED
      BY <3>1, <3>2
  <2>2. QED
    BY <2>1 DEF Closed
<1>3. ActiveSlacks(n) \subseteq T
  BY DEF ActiveSlacks
<1>4. Reached(n, ActiveSlacks(n)) \subseteq T
  BY <1>2, <1>3 DEF Reached
<1>5. QED
  BY <1>1, <1>4 DEF DisconnectedNodes

-----------------------------------------------------------------------------
(* What the other steps leave *)

LEMMA SlackStep ==
    ASSUME NEW n \in Network
    PROVE  LET m == refine_slack_to_one(n)
           IN  /\ m \in Network
               /\ SlackCandidates(n) # {} => ActiveSlacks(m) = ChosenSlacks(n)
<1> DEFINE m == refine_slack_to_one(n)
<1>1. /\ m \in Network /\ m.nodeOn = n.nodeOn
      /\ m.nodeType = [i \in Nodes |-> IF i \in SlacksToDemote(n) THEN "PQ" ELSE n.nodeType[i]]
  BY DEF refine_slack_to_one, Network, NodeTypes
<1>2. ActiveNodes(m) = ActiveNodes(n)
  BY <1>1 DEF ActiveNodes
<1>3. ActiveSlacks(m) = ActiveSlacks(n) \ SlacksToDemote(n)
  BY <1>1, <1>2 DEF ActiveSlacks, ActiveNodes
<1>4. ChosenSlacks(n) \subseteq ActiveSlacks(n)
  BY DEF ChosenSlacks, SlackCandidates
<1>5. QED
  BY <1>1, <1>3, <1>4 DEF SlacksToDemote

(* Types move between PQ and PV only.                                         *)
LEMMA TypesStep ==
    ASSUME NEW n \in Network
    PROVE  LET m == refine_node_types(n)
           IN  /\ m \in Network
               /\ Same(m, n)
               /\ m.genOn = n.genOn
<1> DEFINE m == refine_node_types(n)
<1>1. /\ m \in Network /\ m.nodeOn = n.nodeOn /\ m.branchOn = n.branchOn /\ m.genOn = n.genOn
      /\ m.nodeType = [i \in Nodes |-> IF i \in ToPromote(n) THEN "PV"
                                       ELSE IF i \in ToDemote(n) THEN "PQ" ELSE n.nodeType[i]]
  BY DEF refine_node_types, Network, NodeTypes
<1>2. ActiveNodes(m) = ActiveNodes(n)
  BY <1>1 DEF ActiveNodes
<1>3. \A i \in Nodes : m.nodeType[i] = "SLACK" <=> n.nodeType[i] = "SLACK"
  BY <1>1 DEF ToPromote, ToDemote
<1>4. ActiveSlacks(m) = ActiveSlacks(n)
  BY <1>2, <1>3 DEF ActiveSlacks, ActiveNodes
<1>5. QED
  BY <1>1, <1>4 DEF Same

TypesFollow(n) ==
    \A i \in WithGens(n) :
        /\ n.nodeType[i] = "PV" => i \in WithActiveGen(n)
        /\ i \in WithActiveGen(n) /\ i \in ActiveNodes(n) => n.nodeType[i] # "PQ"

LEMMA TypesStepFollows ==
    ASSUME NEW n \in Network
    PROVE  TypesFollow(refine_node_types(n))
<1> DEFINE m == refine_node_types(n)
<1>1. /\ m.nodeOn = n.nodeOn /\ m.genOn = n.genOn
      /\ m.nodeType = [i \in Nodes |-> IF i \in ToPromote(n) THEN "PV"
                                       ELSE IF i \in ToDemote(n) THEN "PQ" ELSE n.nodeType[i]]
  BY DEF refine_node_types, Network, NodeTypes
<1>2. /\ ActiveNodes(m) = ActiveNodes(n)
      /\ WithGens(m) = WithGens(n) /\ WithActiveGen(m) = WithActiveGen(n)
  BY <1>1 DEF ActiveNodes, WithGens, WithActiveGen
<1>3. ASSUME NEW i \in WithGens(n)
      PROVE  /\ m.nodeType[i] = "PV" => i \in WithActiveGen(n)
             /\ i \in WithActiveGen(n) /\ i \in ActiveNodes(n) => m.nodeType[i] # "PQ"
  <2>1. i \in Nodes
    BY DEF WithGens
  <2>2. QED
    BY <1>1, <2>1 DEF ToPromote, ToDemote
<1>4. QED
  BY <1>2, <1>3 DEF TypesFollow

GensAlive(n) == \A g \in Gens : n.genOn[g] /\ NodeOf[g] \in Nodes => n.nodeOn[NodeOf[g]]

LEMMA GeneratorStep ==
    ASSUME NEW n \in Network
    PROVE  LET m == generator_status(n)
           IN  m \in Network /\ Same(m, n) /\ GensAlive(m)
<1> DEFINE m == generator_status(n)
<1>1. /\ m \in Network /\ m.nodeOn = n.nodeOn /\ m.branchOn = n.branchOn /\ m.nodeType = n.nodeType
      /\ m.genOn = [g \in Gens |-> n.genOn[g] /\ g \notin GensOfDeadNodes(n)]
  BY DEF generator_status, Network, Off
<1>2. ActiveSlacks(m) = ActiveSlacks(n)
  BY <1>1 DEF ActiveSlacks, ActiveNodes
<1>3. GensAlive(m)
  BY <1>1 DEF GensAlive, GensOfDeadNodes, ActiveNodes
<1>4. QED
  BY <1>1, <1>2, <1>3 DEF Same

GenerationSummed(n) ==
    \A i \in WithGens(n) :
        /\ n.existGen[i] <=> i \in WithActiveGen(n)
        /\ n.generation[i] = RunningAt(n, i)

LEMMA AggregateStep ==
    ASSUME NEW n \in Network
    PROVE  LET m == aggregate_generators(n)
           IN  /\ m \in Network /\ Same(m, n)
               /\ m.genOn = n.genOn /\ m.nodeType = n.nodeType
               /\ GenerationSummed(m)
<1> DEFINE m == aggregate_generators(n)
           exist == [i \in Nodes |-> IF i \in WithGens(n) THEN i \in WithActiveGen(n) ELSE n.existGen[i]]
           gen == [i \in Nodes |-> IF i \in WithGens(n) THEN RunningAt(n, i) ELSE n.generation[i]]
<1>1. exist \in [Nodes -> BOOLEAN]
  <2>1. \A i : (i \in WithActiveGen(n)) \in BOOLEAN
    BY DEF WithActiveGen
  <2>2. \A i \in Nodes : n.existGen[i] \in BOOLEAN
    BY DEF Network
  <2>3. ASSUME NEW i \in Nodes
        PROVE  (IF i \in WithGens(n) THEN i \in WithActiveGen(n) ELSE n.existGen[i]) \in BOOLEAN
    BY <2>1, <2>2, Zenon
  <2>4. QED
    BY <2>3, Zenon
<1>2. gen \in [Nodes -> SUBSET (Gens \cup {"declared"})]
  <2>1. \A i \in Nodes : RunningAt(n, i) \in SUBSET (Gens \cup {"declared"})
    BY DEF RunningAt
  <2>2. QED
    BY <2>1 DEF Network
<1>3. /\ m \in Network /\ m.nodeOn = n.nodeOn /\ m.branchOn = n.branchOn
      /\ m.nodeType = n.nodeType /\ m.genOn = n.genOn
      /\ m.existGen = exist /\ m.generation = gen
  <2>1. m = [n EXCEPT !.existGen = exist, !.generation = gen]
    BY DEF aggregate_generators
  <2> HIDE DEF exist, gen, m
  <2>2. QED
    BY <1>1, <1>2, <2>1 DEF Network
<1>4. ActiveSlacks(m) = ActiveSlacks(n)
  BY <1>3 DEF ActiveSlacks, ActiveNodes
<1>5. /\ WithGens(m) = WithGens(n) /\ WithActiveGen(m) = WithActiveGen(n)
      /\ WithGens(n) \subseteq Nodes
      /\ \A i : RunningAt(m, i) = RunningAt(n, i)
  BY <1>3 DEF WithGens, WithActiveGen, RunningAt
<1>6. GenerationSummed(m)
  BY <1>3, <1>5 DEF GenerationSummed
<1>7. QED
  BY <1>3, <1>4, <1>6 DEF Same

(* Every step returns a network.                                              *)
LEMMA StepTypes ==
    ASSUME NEW n \in Network
    PROVE  /\ \A p \in Plans : apply_topology(n, p) \in Network
           /\ disable_orphan_branches(n) \in Network
           /\ \A c \in BOOLEAN : disable_disconnected(n, c) \in Network
           /\ disable_isolated(n) \in Network
<1>1. ASSUME NEW p \in Plans PROVE apply_topology(n, p) \in Network
  <2>1. Statuses(p.nodes) /\ Statuses(p.branches) /\ Statuses(p.gens)
    BY InputsAssumption
  <2>2. /\ Overlay(n.nodeOn, p.nodes) \in [Nodes -> BOOLEAN]
        /\ Overlay(n.branchOn, p.branches) \in [Branches -> BOOLEAN]
        /\ Overlay(n.genOn, p.gens) \in [Gens -> BOOLEAN]
    BY <2>1 DEF Overlay, Statuses, Network
  <2>3. QED
    BY <2>2 DEF apply_topology, Network
<1>2. \A k \in Network : disable_orphan_branches(k) \in Network
  BY DEF disable_orphan_branches, Off, Network
<1>3. [n EXCEPT !.nodeOn = Off(@, DisconnectedNodes(n))] \in Network
  BY DEF Off, Network
<1>4. \A c \in BOOLEAN : disable_disconnected(n, c) \in Network
  BY <1>2, <1>3 DEF disable_disconnected
<1>5. disable_isolated(n) \in Network
  BY DEF disable_isolated, Off, Network
<1>6. QED
  BY <1>1, <1>2, <1>4, <1>5

-----------------------------------------------------------------------------
(* The inductive invariant: what holds from which step of the registry on.    *)

SlackKept ==
    "refine_slack" \in cfg /\ SlackCandidates(SeenByRefineSlack) # {} =>
        ActiveSlacks(net) = ChosenSlacks(SeenByRefineSlack)

Progress ==
    /\ pos = 1 => net = Source(call, returned)
    /\ pos = 2 => net = SeenByRefineSlack
    /\ pos >= 3 => SlackKept
    /\ pos >= 5 /\ "disable_orphan_branches" \in cfg => OrphanBranches(net) = {}
    /\ pos >= 6 /\ "disable_disconnected" \in cfg => DisconnectedNodes(net) = {}
    /\ pos >= 7 /\ "disable_isolated" \in cfg => IsolatedNodes(net) = {}
    /\ pos >= 8 /\ "generator_status" \in cfg => GensAlive(net)
    /\ entry = "run" =>
        /\ pos >= 9 /\ "refine_node_types" \in cfg => TypesFollow(net)
        /\ pos >= 10 /\ "aggregate_generators" \in cfg => GenerationSummed(net)

IInv == TypeOK /\ (InCall => Progress)

LEMMA Lengths == Len(STEPS) = 9 /\ Len(CALLS) = 4
BY DEF STEPS, CALLS

LEMMA Positions ==
    ASSUME pos \in 1..10
    PROVE  /\ AtStep("topology") => pos = 1
           /\ AtStep("refine_slack") => pos = 2
           /\ AtStep("refine_node_types") => pos = 3
           /\ AtStep("disable_orphan_branches") => pos = 4
           /\ AtStep("disable_disconnected") => pos = 5
           /\ AtStep("disable_isolated") => pos = 6
           /\ AtStep("generator_status") => pos = 7
           /\ AtStep("refine_node_types_2") => pos = 8
           /\ AtStep("aggregate_generators") => pos = 9
BY Lengths DEF AtStep, STEPS

(* An input is the caller's network or what the first materialization returned. *)
LEMMA SourceType ==
    ASSUME input \in Network, NEW c \in 1..4, NEW s \in Seq(Network), Len(s) = c - 1
    PROVE  Source(c, s) \in Network
<1>1. CASE c <= 2
  BY <1>1 DEF Source, CALLS
<1>2. CASE c > 2
  <2>1. s[2] \in Network
    BY <1>2
  <2>2. QED
    BY <1>2, <2>1 DEF Source, CALLS
<1>3. QED
  BY <1>1, <1>2

LEMMA InitIInv == Init => IInv
<1> SUFFICES ASSUME Init PROVE IInv
  OBVIOUS
<1>1. input \in Network
  BY InputsAssumption DEF Init
<1>2. returned \in Seq(Network) /\ Len(returned) = 0
  BY DEF Init
<1>3. TypeOK
  BY <1>1, <1>2, Lengths DEF Init, TypeOK
<1>4. net = Source(call, returned)
  BY DEF Init, Source, CALLS
<1>5. QED
  BY <1>3, <1>4 DEF Init, IInv, Progress

-----------------------------------------------------------------------------
(* The steps, one action at a time.                                           *)

(* One step of the executor moves on in the registry and touches nothing      *)
(* but the working copy.                                                      *)
LEMMA Frame ==
    ASSUME IInv, NEW step, AtStep(step), NEW n \in Network, Do(step, n)
    PROVE  /\ TypeOK' /\ InCall' /\ Progress
           /\ net \in Network /\ pos \in 1..9 /\ pos' = pos + 1
           /\ UNCHANGED <<cfg, call, returned>>
           /\ SeenByRefineSlack' = SeenByRefineSlack /\ entry' = entry
           /\ Skipped(step) => net' = net
           /\ ~Skipped(step) => net' = n
<1>1. InCall /\ TypeOK /\ Progress /\ pos \in 1..9
  BY Lengths DEF IInv, AtStep, TypeOK
<1>2. /\ net \in Network /\ pos' = pos + 1 /\ UNCHANGED <<cfg, plan, input, call, returned>>
      /\ Skipped(step) => net' = net
      /\ ~Skipped(step) => net' = n
  BY <1>1 DEF Do, TypeOK
<1>3. TypeOK' /\ InCall'
  BY <1>1, <1>2, Lengths DEF TypeOK, InCall
<1>4. SeenByRefineSlack' = SeenByRefineSlack /\ entry' = entry
  BY <1>2 DEF SeenByRefineSlack, Source, entry
<1>5. QED
  BY <1>1, <1>2, <1>3, <1>4

(* A step that leaves the cascade's view of the network alone.                *)
LEMMA SlackKeptStep ==
    ASSUME SlackKept, UNCHANGED cfg, SeenByRefineSlack' = SeenByRefineSlack,
           ActiveSlacks(net)' = ActiveSlacks(net)
    PROVE  SlackKept'
BY DEF SlackKept

LEMMA TopologyStep == IInv /\ Topology => IInv'
<1> SUFFICES ASSUME IInv, Topology PROVE IInv'
  OBVIOUS
<1> DEFINE n == apply_topology(net, plan)
<1>1. pos = 1 /\ InCall /\ TypeOK
  BY Positions, Lengths DEF Topology, AtStep, IInv, TypeOK
<1>2. n \in Network
  BY <1>1, StepTypes DEF TypeOK
<1>3. /\ TypeOK' /\ InCall' /\ Progress /\ pos' = 2
      /\ SeenByRefineSlack' = SeenByRefineSlack
      /\ Skipped("topology") => net' = net
      /\ ~Skipped("topology") => net' = n
  BY <1>1, <1>2, Frame DEF Topology
<1>4. Skipped("topology") <=> "topology" \notin cfg
  BY DEF Skipped, On, ToggleOf, RunOnly
<1>5. net' = SeenByRefineSlack
  BY <1>1, <1>3, <1>4 DEF Progress, SeenByRefineSlack
<1>6. QED
  BY <1>3, <1>5 DEF IInv, Progress

LEMMA RefineSlackStep == IInv /\ RefineSlack => IInv'
<1> SUFFICES ASSUME IInv, RefineSlack PROVE IInv'
  OBVIOUS
<1> DEFINE n == refine_slack_to_one(net)
<1>1. pos = 2 /\ InCall /\ TypeOK
  BY Positions, Lengths DEF RefineSlack, AtStep, IInv, TypeOK
<1>2. n \in Network /\ (SlackCandidates(net) # {} => ActiveSlacks(n) = ChosenSlacks(net))
  BY <1>1, SlackStep DEF TypeOK
<1>3. /\ TypeOK' /\ InCall' /\ Progress /\ pos' = 3 /\ UNCHANGED cfg
      /\ SeenByRefineSlack' = SeenByRefineSlack
      /\ ~Skipped("refine_slack") => net' = n
  BY <1>1, <1>2, Frame DEF RefineSlack
<1>4. Skipped("refine_slack") <=> "refine_slack" \notin cfg
  BY DEF Skipped, On, ToggleOf, RunOnly
<1>5. net = SeenByRefineSlack
  BY <1>1, <1>3 DEF Progress
<1>6. SlackKept'
  BY <1>2, <1>3, <1>4, <1>5 DEF SlackKept
<1>7. QED
  BY <1>3, <1>6 DEF IInv, Progress

LEMMA RefineNodeTypesStep == IInv /\ RefineNodeTypes => IInv'
<1> SUFFICES ASSUME IInv, RefineNodeTypes PROVE IInv'
  OBVIOUS
<1> DEFINE n == refine_node_types(net)
<1>1. pos = 3 /\ InCall /\ TypeOK
  BY Positions, Lengths DEF RefineNodeTypes, AtStep, IInv, TypeOK
<1>2. n \in Network /\ Same(n, net)
  BY <1>1, TypesStep DEF TypeOK
<1>3. /\ TypeOK' /\ InCall' /\ Progress /\ pos' = 4 /\ UNCHANGED cfg
      /\ SeenByRefineSlack' = SeenByRefineSlack
      /\ net' = net \/ net' = n
  BY <1>1, <1>2, Frame DEF RefineNodeTypes
<1>4. SlackKept'
  BY <1>1, <1>2, <1>3, SlackKeptStep DEF Progress, Same
<1>5. QED
  BY <1>3, <1>4 DEF IInv, Progress

LEMMA DisableOrphanBranchesStep == IInv /\ DisableOrphanBranches => IInv'
<1> SUFFICES ASSUME IInv, DisableOrphanBranches PROVE IInv'
  OBVIOUS
<1> DEFINE n == disable_orphan_branches(net)
<1>1. pos = 4 /\ InCall /\ TypeOK
  BY Positions, Lengths DEF DisableOrphanBranches, AtStep, IInv, TypeOK
<1>2. /\ n \in Network /\ n.nodeOn = net.nodeOn /\ n.nodeType = net.nodeType
      /\ OrphanBranches(n) = {}
  BY <1>1, StepTypes, OrphanStep DEF TypeOK
<1>3. ActiveSlacks(n) = ActiveSlacks(net)
  BY <1>2 DEF ActiveSlacks, ActiveNodes
<1>4. /\ TypeOK' /\ InCall' /\ Progress /\ pos' = 5 /\ UNCHANGED cfg
      /\ SeenByRefineSlack' = SeenByRefineSlack
      /\ Skipped("disable_orphan_branches") => net' = net
      /\ ~Skipped("disable_orphan_branches") => net' = n
  BY <1>1, <1>2, Frame DEF DisableOrphanBranches
<1>5. Skipped("disable_orphan_branches") <=> "disable_orphan_branches" \notin cfg
  BY DEF Skipped, On, ToggleOf, RunOnly
<1>6. SlackKept'
  BY <1>1, <1>3, <1>4, SlackKeptStep DEF Progress
<1>7. QED
  BY <1>2, <1>4, <1>5, <1>6 DEF IInv, Progress

LEMMA DisableDisconnectedStep == IInv /\ DisableDisconnected => IInv'
<1> SUFFICES ASSUME IInv, DisableDisconnected PROVE IInv'
  OBVIOUS
<1> DEFINE recheck == "disable_orphan_branches" \in cfg
           n == disable_disconnected(net, recheck)
<1>1. pos = 5 /\ InCall /\ TypeOK
  BY Positions, Lengths DEF DisableDisconnected, AtStep, IInv, TypeOK
<1>2. /\ n \in Network
      /\ ActiveSlacks(n) = ActiveSlacks(net)
      /\ recheck => OrphanBranches(n) = {}
      /\ DisconnectedNodes(n) = {}
  <2>1. net \in Network /\ recheck \in BOOLEAN
    BY <1>1 DEF TypeOK
  <2> HIDE DEF recheck
  <2>2. QED
    BY <2>1, StepTypes, DisconnectedStep
<1>3. /\ TypeOK' /\ InCall' /\ Progress /\ pos' = 6 /\ UNCHANGED cfg
      /\ SeenByRefineSlack' = SeenByRefineSlack
      /\ Skipped("disable_disconnected") => net' = net
      /\ ~Skipped("disable_disconnected") => net' = n
  BY <1>1, <1>2, Frame DEF DisableDisconnected
<1>4. Skipped("disable_disconnected") <=> "disable_disconnected" \notin cfg
  BY DEF Skipped, On, ToggleOf, RunOnly
<1>5. SlackKept'
  BY <1>1, <1>2, <1>3, SlackKeptStep DEF Progress
<1>6. QED
  BY <1>1, <1>2, <1>3, <1>4, <1>5 DEF IInv, Progress

LEMMA DisableIsolatedStep == IInv /\ DisableIsolated => IInv'
<1> SUFFICES ASSUME IInv, DisableIsolated PROVE IInv'
  OBVIOUS
<1> DEFINE n == disable_isolated(net)
<1>1. pos = 6 /\ InCall /\ TypeOK
  BY Positions, Lengths DEF DisableIsolated, AtStep, IInv, TypeOK
<1>2. /\ n \in Network
      /\ ActiveSlacks(n) = ActiveSlacks(net)
      /\ OrphanBranches(n) = OrphanBranches(net)
      /\ DisconnectedNodes(net) = {} => DisconnectedNodes(n) = {}
      /\ IsolatedNodes(n) = {}
  BY <1>1, StepTypes, IsolatedStep DEF TypeOK
<1>3. /\ TypeOK' /\ InCall' /\ Progress /\ pos' = 7 /\ UNCHANGED cfg
      /\ SeenByRefineSlack' = SeenByRefineSlack
      /\ Skipped("disable_isolated") => net' = net
      /\ ~Skipped("disable_isolated") => net' = n
  BY <1>1, <1>2, Frame DEF DisableIsolated
<1>4. Skipped("disable_isolated") <=> "disable_isolated" \notin cfg
  BY DEF Skipped, On, ToggleOf, RunOnly
<1>5. SlackKept'
  BY <1>1, <1>2, <1>3, SlackKeptStep DEF Progress
<1>6. QED
  BY <1>1, <1>2, <1>3, <1>4, <1>5 DEF IInv, Progress

(* What the cascade made stays while statuses of nodes and branches do.       *)
LEMMA CascadeKept ==
    ASSUME Progress, pos \in 7..9, pos' = pos + 1, UNCHANGED cfg,
           SeenByRefineSlack' = SeenByRefineSlack, Same(net', net)
    PROVE  /\ SlackKept'
           /\ "disable_orphan_branches" \in cfg => OrphanBranches(net') = {}
           /\ "disable_disconnected" \in cfg => DisconnectedNodes(net') = {}
           /\ "disable_isolated" \in cfg => IsolatedNodes(net') = {}
BY SlackKeptStep, CascadeLooksAt DEF Progress, Same

LEMMA SameIsReflexive == ASSUME NEW n PROVE Same(n, n)
BY DEF Same

LEMMA GeneratorStatusStep == IInv /\ GeneratorStatus => IInv'
<1> SUFFICES ASSUME IInv, GeneratorStatus PROVE IInv'
  OBVIOUS
<1> DEFINE n == generator_status(net)
<1>1. pos = 7 /\ InCall /\ TypeOK
  BY Positions, Lengths DEF GeneratorStatus, AtStep, IInv, TypeOK
<1>2. n \in Network /\ Same(n, net) /\ GensAlive(n)
  BY <1>1, GeneratorStep DEF TypeOK
<1>3. /\ TypeOK' /\ InCall' /\ Progress /\ pos' = 8 /\ UNCHANGED cfg
      /\ SeenByRefineSlack' = SeenByRefineSlack
      /\ Skipped("generator_status") => net' = net
      /\ ~Skipped("generator_status") => net' = n
  BY <1>1, <1>2, Frame DEF GeneratorStatus
<1>4. Skipped("generator_status") <=> "generator_status" \notin cfg
  BY DEF Skipped, On, ToggleOf, RunOnly
<1>5. Same(net', net)
  BY <1>2, <1>3, SameIsReflexive
<1>6. /\ SlackKept'
      /\ "disable_orphan_branches" \in cfg => OrphanBranches(net') = {}
      /\ "disable_disconnected" \in cfg => DisconnectedNodes(net') = {}
      /\ "disable_isolated" \in cfg => IsolatedNodes(net') = {}
  BY <1>1, <1>3, <1>5, CascadeKept
<1>7. QED
  BY <1>2, <1>3, <1>4, <1>6 DEF IInv, Progress

LEMMA RefineNodeTypes2Step == IInv /\ RefineNodeTypes2 => IInv'
<1> SUFFICES ASSUME IInv, RefineNodeTypes2 PROVE IInv'
  OBVIOUS
<1> DEFINE n == refine_node_types(net)
<1>1. pos = 8 /\ InCall /\ TypeOK
  BY Positions, Lengths DEF RefineNodeTypes2, AtStep, IInv, TypeOK
<1>2. n \in Network /\ Same(n, net) /\ n.genOn = net.genOn /\ TypesFollow(n)
  BY <1>1, TypesStep, TypesStepFollows DEF TypeOK
<1>3. /\ TypeOK' /\ InCall' /\ Progress /\ pos' = 9 /\ UNCHANGED cfg
      /\ SeenByRefineSlack' = SeenByRefineSlack /\ entry' = entry
      /\ Skipped("refine_node_types_2") => net' = net
      /\ ~Skipped("refine_node_types_2") => net' = n
  BY <1>1, <1>2, Frame DEF RefineNodeTypes2
<1>4. Skipped("refine_node_types_2") <=> "refine_node_types" \notin cfg \/ entry = "prepare"
  BY DEF Skipped, On, ToggleOf, RunOnly
<1>5. Same(net', net) /\ net'.genOn = net.genOn
  BY <1>2, <1>3, SameIsReflexive
<1>6. /\ SlackKept'
      /\ "disable_orphan_branches" \in cfg => OrphanBranches(net') = {}
      /\ "disable_disconnected" \in cfg => DisconnectedNodes(net') = {}
      /\ "disable_isolated" \in cfg => IsolatedNodes(net') = {}
  BY <1>1, <1>3, <1>5, CascadeKept
<1>7. "generator_status" \in cfg => GensAlive(net')
  BY <1>1, <1>3, <1>5 DEF Progress, GensAlive, Same
<1>8. entry = "run" /\ "refine_node_types" \in cfg => TypesFollow(net')
  BY <1>2, <1>3, <1>4
<1>9. QED
  BY <1>3, <1>6, <1>7, <1>8 DEF IInv, Progress

LEMMA AggregateGeneratorsStep == IInv /\ AggregateGenerators => IInv'
<1> SUFFICES ASSUME IInv, AggregateGenerators PROVE IInv'
  OBVIOUS
<1> DEFINE n == aggregate_generators(net)
<1>1. pos = 9 /\ InCall /\ TypeOK
  BY Positions, Lengths DEF AggregateGenerators, AtStep, IInv, TypeOK
<1>2. /\ n \in Network /\ Same(n, net) /\ n.genOn = net.genOn /\ n.nodeType = net.nodeType
      /\ GenerationSummed(n)
  BY <1>1, AggregateStep DEF TypeOK
<1>3. /\ TypeOK' /\ InCall' /\ Progress /\ pos' = 10 /\ UNCHANGED cfg
      /\ SeenByRefineSlack' = SeenByRefineSlack /\ entry' = entry
      /\ Skipped("aggregate_generators") => net' = net
      /\ ~Skipped("aggregate_generators") => net' = n
  BY <1>1, <1>2, Frame DEF AggregateGenerators
<1>4. Skipped("aggregate_generators") <=> "aggregate_generators" \notin cfg \/ entry = "prepare"
  BY DEF Skipped, On, ToggleOf, RunOnly
<1>5. Same(net', net) /\ net'.genOn = net.genOn /\ net'.nodeType = net.nodeType
  BY <1>2, <1>3, SameIsReflexive
<1>6. /\ SlackKept'
      /\ "disable_orphan_branches" \in cfg => OrphanBranches(net') = {}
      /\ "disable_disconnected" \in cfg => DisconnectedNodes(net') = {}
      /\ "disable_isolated" \in cfg => IsolatedNodes(net') = {}
  BY <1>1, <1>3, <1>5, CascadeKept
<1>7. "generator_status" \in cfg => GensAlive(net')
  BY <1>1, <1>3, <1>5 DEF Progress, GensAlive, Same
<1>8. entry = "run" /\ "refine_node_types" \in cfg => TypesFollow(net')
  <2>1. /\ WithGens(net') = WithGens(net) /\ WithActiveGen(net') = WithActiveGen(net)
        /\ ActiveNodes(net') = ActiveNodes(net)
    BY <1>5 DEF WithGens, WithActiveGen, ActiveNodes, Same
  <2>2. QED
    BY <1>1, <1>3, <1>5, <2>1 DEF Progress, TypesFollow
<1>9. entry = "run" /\ "aggregate_generators" \in cfg => GenerationSummed(net')
  BY <1>2, <1>3, <1>4
<1>10. QED
  BY <1>3, <1>6, <1>7, <1>8, <1>9 DEF IInv, Progress

LEMMA ReturnStep == IInv /\ Return => IInv'
<1> SUFFICES ASSUME IInv, Return PROVE IInv'
  OBVIOUS
<1>1. TypeOK /\ InCall /\ call \in 1..4
  BY Lengths DEF IInv, TypeOK, Return, StepsDone, InCall
<1>2. /\ returned' = Append(returned, net) /\ call' = call + 1 /\ pos' = 1
      /\ UNCHANGED <<cfg, plan, input>>
      /\ call < 4 => net' = Source(call + 1, returned')
      /\ ~(call < 4) => net' = net
  BY Lengths DEF Return
<1>3. /\ returned' \in Seq(Network) /\ Len(returned') = call' - 1
      /\ input \in Network /\ net \in Network
  BY <1>1, <1>2, InputsAssumption DEF TypeOK
<1>4. call < 4 => net' \in Network
  <2>1. ASSUME call < 4 PROVE Source(call + 1, returned') \in Network
    <3>1. call + 1 \in 1..4 /\ Len(returned') = (call + 1) - 1
      BY <1>1, <1>2, <1>3, <2>1
    <3>2. QED
      BY <1>3, <3>1, SourceType
  <2>2. QED
    BY <1>2, <2>1
<1>5. TypeOK'
  BY <1>1, <1>2, <1>3, <1>4, Lengths DEF TypeOK
<1>6. ASSUME InCall' PROVE Progress'
  <2>1. call < 4
    BY <1>1, <1>2, <1>6, Lengths DEF InCall
  <2>2. net' = Source(call, returned)'
    BY <1>2, <2>1 DEF Source
  <2>3. QED
    BY <1>2, <2>2 DEF Progress
<1>7. QED
  BY <1>5, <1>6 DEF IInv

LEMMA StutterStep == IInv /\ UNCHANGED vars => IInv'
<1> SUFFICES ASSUME IInv, UNCHANGED vars PROVE IInv'
  OBVIOUS
<1>1. TypeOK' = TypeOK /\ InCall' = InCall
  BY DEF vars, TypeOK, InCall
<1>2. SeenByRefineSlack' = SeenByRefineSlack /\ Source(call, returned)' = Source(call, returned)
      /\ entry' = entry
  BY DEF vars, SeenByRefineSlack, Source, entry
<1>3. Progress' = Progress
  BY <1>2 DEF vars, Progress, SlackKept
<1>4. QED
  BY <1>1, <1>3 DEF IInv

LEMMA IInvInductive == IInv /\ [Next]_vars => IInv'
BY TopologyStep, RefineSlackStep, RefineNodeTypesStep, DisableOrphanBranchesStep,
   DisableDisconnectedStep, DisableIsolatedStep, GeneratorStatusStep, RefineNodeTypes2Step,
   AggregateGeneratorsStep, ReturnStep, StutterStep DEF Next, CallerDone

LEMMA IInvAlways == Spec => []IInv
BY InitIInv, IInvInductive, PTL DEF Spec

-----------------------------------------------------------------------------
(* Every network a step leaves or a call returns has its columns in range.    *)
THEOREM TypeCorrect == Spec => []TypeOK
<1>1. IInv => TypeOK
  BY DEF IInv
<1>2. QED
  BY <1>1, IInvAlways, PTL

(* One pass of the cascade is enough, whatever the network: with its three    *)
(* steps on, nothing is left that any of them would switch off.               *)
THEOREM OnePassIsEnough == Spec => []CascadeIsComplete
<1>1. IInv => CascadeIsComplete
  BY Lengths DEF IInv, TypeOK, Progress, CascadeIsComplete, StepsDone, Cascade
<1>2. QED
  BY <1>1, IInvAlways, PTL

(* With disable_disconnected on, no island is solved without an angle         *)
(* reference, in any network that has a slack.                                *)
THEOREM EveryIslandHasASlack == Spec => []NoFloatingIsland
<1>1. IInv => NoFloatingIsland
  <2> SUFFICES ASSUME IInv, StepsDone, "disable_disconnected" \in cfg, ActiveSlacks(net) # {},
                      NEW S \in Closed(net), S # {}
               PROVE  S \cap ActiveSlacks(net) # {}
    BY DEF NoFloatingIsland
  <2>1. DisconnectedNodes(net) = {}
    BY Lengths DEF IInv, TypeOK, Progress, StepsDone
  <2>2. QED
    BY <2>1, NoIsland
<1>2. QED
  BY <1>1, IInvAlways, PTL

(* The slack refine_slack_to_one chose is the one slack the solver can pick:  *)
(* it is unique and no later step switches it off or takes its type.          *)
THEOREM ChosenSlackIsSolved == Spec => []SolverUsesChosenSlack
<1>1. IInv => SolverUsesChosenSlack
  <2> SUFFICES ASSUME IInv, StepsDone, "refine_slack" \in cfg,
                      SlackCandidates(SeenByRefineSlack) # {}
               PROVE  SolverSlacks(net) = ChosenSlacks(SeenByRefineSlack)
    BY DEF SolverUsesChosenSlack
  <2> DEFINE chosen == ChosenSlacks(SeenByRefineSlack)
  <2>1. ActiveSlacks(net) = chosen
    BY Lengths DEF IInv, TypeOK, Progress, StepsDone, SlackKept
  <2>2. chosen \subseteq Nodes
    BY DEF ChosenSlacks, SlackCandidates, ActiveSlacks, ActiveNodes
  <2>3. \A i \in chosen : \A j \in chosen : Priority[i] <= Priority[j]
    <3> SUFFICES ASSUME NEW i \in chosen, NEW j \in chosen PROVE Priority[i] <= Priority[j]
      OBVIOUS
    <3>1. Before(i, j)
      BY DEF ChosenSlacks
    <3>2. Priority[i] \in Int /\ Priority[j] \in Int
      BY <2>2, PriorityAssumption
    <3>3. QED
      BY <3>1, <3>2 DEF Before
  <2>4. QED
    BY <2>1, <2>3 DEF SolverSlacks
<1>2. QED
  BY <1>1, IInvAlways, PTL

(* After a run the types and the generation of nodes follow their running     *)
(* machines, for any tables of nodes and generators.                          *)
THEOREM MachinesAreFollowed == Spec => []GenerationFollowsMachines
<1>1. IInv => GenerationFollowsMachines
  <2> SUFFICES ASSUME IInv, StepsDone, entry = "run",
                      {"refine_node_types", "generator_status", "aggregate_generators"} \subseteq cfg,
                      NEW i \in WithGens(net)
               PROVE  /\ net.nodeType[i] = "PV" => i \in WithActiveGen(net)
                      /\ net.existGen[i] <=> i \in WithActiveGen(net)
                      /\ net.generation[i] = RunningAt(net, i)
                      /\ i \in WithActiveGen(net) => net.nodeOn[i] /\ net.nodeType[i] # "PQ"
    BY DEF GenerationFollowsMachines
  <2>1. GensAlive(net) /\ TypesFollow(net) /\ GenerationSummed(net)
    BY Lengths DEF IInv, TypeOK, Progress, StepsDone
  <2>2. i \in Nodes
    BY DEF WithGens
  <2>3. i \in WithActiveGen(net) => net.nodeOn[i] /\ i \in ActiveNodes(net)
    BY <2>1, <2>2 DEF GensAlive, WithActiveGen, ActiveNodes
  <2>4. QED
    BY <2>1, <2>3 DEF TypesFollow, GenerationSummed
<1>2. QED
  BY <1>1, IInvAlways, PTL

-----------------------------------------------------------------------------
(* The calls as functions                                                     *)

(* What a call computes, as a function of the configuration, the plan and the *)
(* network it starts from.                                                    *)
Seen(c, p, n)             == IF "topology" \in c THEN apply_topology(n, p) ELSE n
WithOneSlack(c, n)        == IF "refine_slack" \in c THEN refine_slack_to_one(n) ELSE n
WithTypes(c, n)           == IF "refine_node_types" \in c THEN refine_node_types(n) ELSE n
WithoutOrphans(c, n)      == IF "disable_orphan_branches" \in c THEN disable_orphan_branches(n) ELSE n
WithoutDisconnected(c, n) ==
    IF "disable_disconnected" \in c THEN disable_disconnected(n, "disable_orphan_branches" \in c) ELSE n
WithoutIsolated(c, n)     == IF "disable_isolated" \in c THEN disable_isolated(n) ELSE n
WithLiveGens(c, n)        == IF "generator_status" \in c THEN generator_status(n) ELSE n
WithSums(c, n)            == IF "aggregate_generators" \in c THEN aggregate_generators(n) ELSE n

Typed(c, n)            == WithTypes(c, WithOneSlack(c, n))
Cut(c, n)              == WithoutIsolated(c, WithoutDisconnected(c, WithoutOrphans(c, n)))
Prepared(c, p, n)      == WithLiveGens(c, Cut(c, Typed(c, Seen(c, p, n))))
Ran(c, p, n)           == WithSums(c, WithTypes(c, Prepared(c, p, n)))

(* n has at least the nodes and branches of m on, and the same active slacks. *)
Below(m, n) ==
    /\ ActiveNodes(m) \subseteq ActiveNodes(n)
    /\ ActiveBranches(m) \subseteq ActiveBranches(n)
    /\ ActiveSlacks(m) = ActiveSlacks(n)

(* The columns no step of the cascade touches are those of n.                 *)
Aside(m, n) ==
    /\ m.nodeType = n.nodeType /\ m.genOn = n.genOn
    /\ m.existGen = n.existGen /\ m.generation = n.generation

(* A larger network is searched at least as far.                              *)
LEMMA ReachedMonotone ==
    ASSUME NEW m, NEW n, Below(m, n), NEW seeds
    PROVE  Reached(m, seeds \cap ActiveNodes(m)) \subseteq Reached(n, seeds)
<1>0. Reached(m, seeds \cap ActiveNodes(m)) \subseteq ActiveNodes(n)
  BY DEF Reached, Below
<1> SUFFICES ASSUME NEW i \in Reached(m, seeds \cap ActiveNodes(m)), NEW S \in Closed(n), seeds \subseteq S
             PROVE  i \in S
  BY <1>0 DEF Reached
<1> DEFINE T == S \cap ActiveNodes(m)
<1>1. ASSUME NEW b \in ActiveBranches(m) \ OrphanBranches(m), Ends(b) \cap T # {}
      PROVE  Ends(b) \subseteq T
  <2>1. Ends(b) \subseteq ActiveNodes(m)
    BY <1>1 DEF OrphanBranches
  <2>2. b \in ActiveBranches(n) \ OrphanBranches(n)
    BY <1>1, <2>1 DEF OrphanBranches, Below
  <2>3. QED
    BY <1>1, <2>1, <2>2 DEF Closed
<1>2. T \in Closed(m)
  BY <1>1 DEF Closed
<1>3. i \in ActiveNodes(m) /\ i \in T
  BY <1>2 DEF Reached
<1>4. QED
  BY <1>3

(* The sets a cascade step leaves.                                            *)
LEMMA OrphanSets ==
    ASSUME NEW n \in Network
    PROVE  LET m == disable_orphan_branches(n)
           IN  /\ Aside(m, n)
               /\ ActiveNodes(m) = ActiveNodes(n) /\ ActiveSlacks(m) = ActiveSlacks(n)
               /\ ActiveBranches(m) = {b \in ActiveBranches(n) : Ends(b) \subseteq ActiveNodes(n)}
<1> DEFINE m == disable_orphan_branches(n)
<1>1. Aside(m, n) /\ m.nodeOn = n.nodeOn /\ m.nodeType = n.nodeType
      /\ m.branchOn = [b \in Branches |-> n.branchOn[b] /\ b \notin OrphanBranches(n)]
  BY DEF disable_orphan_branches, Network, Off, Aside
<1>2. QED
  BY <1>1 DEF ActiveNodes, ActiveSlacks, ActiveBranches, OrphanBranches, Aside

LEMMA IsolatedSets ==
    ASSUME NEW n \in Network
    PROVE  LET m == disable_isolated(n)
           IN  /\ Aside(m, n)
               /\ ActiveBranches(m) = ActiveBranches(n) /\ ActiveSlacks(m) = ActiveSlacks(n)
               /\ ActiveNodes(m) = {i \in ActiveNodes(n) : i \in ActiveSlacks(n) \/ i \in NodesWithBranch(n)}
<1> DEFINE m == disable_isolated(n)
<1>1. Aside(m, n) /\ m.branchOn = n.branchOn
      /\ m.nodeOn = [i \in Nodes |-> n.nodeOn[i] /\ i \notin IsolatedNodes(n)]
  BY DEF disable_isolated, Network, Off, Aside
<1>2. QED
  BY <1>1, IsolatedStep DEF ActiveNodes, ActiveBranches, IsolatedNodes

LEMMA DisconnectedSets ==
    ASSUME NEW n \in Network, NEW recheck \in BOOLEAN
    PROVE  LET m == disable_disconnected(n, recheck)
           IN  /\ Aside(m, n)
               /\ ActiveSlacks(m) = ActiveSlacks(n)
               /\ ActiveNodes(m) = ActiveNodes(n) \ DisconnectedNodes(n)
               /\ ActiveBranches(m) = {b \in ActiveBranches(n) : recheck => Ends(b) \subseteq ActiveNodes(m)}
<1> DEFINE cut == [n EXCEPT !.nodeOn = Off(@, DisconnectedNodes(n))]
           m == disable_disconnected(n, recheck)
<1>1. cut \in Network /\ cut.branchOn = n.branchOn /\ Aside(cut, n)
      /\ cut.nodeOn = [i \in Nodes |-> n.nodeOn[i] /\ i \notin DisconnectedNodes(n)]
  BY DEF Network, Off, Aside
<1>2. ActiveSlacks(m) = ActiveSlacks(n) /\ ActiveNodes(m) = ActiveNodes(n) \ DisconnectedNodes(n)
  BY DisconnectedStep
<1>3. ActiveNodes(cut) = ActiveNodes(m) /\ ActiveBranches(cut) = ActiveBranches(n)
  BY <1>1, <1>2 DEF ActiveNodes, ActiveBranches
<1>4. CASE recheck
  <2>1. m = disable_orphan_branches(cut)
    BY <1>4 DEF disable_disconnected
  <2>2. Aside(m, cut)
        /\ ActiveBranches(m) = {b \in ActiveBranches(cut) : Ends(b) \subseteq ActiveNodes(cut)}
    BY <1>1, <2>1, OrphanSets
  <2> HIDE DEF m, cut
  <2>3. Aside(m, n)
    BY <1>1, <2>2 DEF Aside
  <2>4. QED
    BY <1>2, <1>3, <1>4, <2>2, <2>3 DEF m
<1>5. CASE ~recheck
  <2>1. m = cut
    BY <1>5 DEF disable_disconnected
  <2> HIDE DEF m, cut
  <2>2. Aside(m, n)
    BY <1>1, <2>1
  <2>3. QED
    BY <1>2, <1>3, <1>5, <2>1, <2>2 DEF m
<1>6. QED
  BY <1>4, <1>5

(* What is on in the smaller of two networks after a step of the cascade is   *)
(* on in the larger one after it.                                             *)
LEMMA OrphansMonotone ==
    ASSUME NEW c, NEW m \in Network, NEW n \in Network, Below(m, n)
    PROVE  Below(WithoutOrphans(c, m), WithoutOrphans(c, n))
BY OrphanSets DEF WithoutOrphans, Below

LEMMA DisconnectedMonotone ==
    ASSUME NEW c, NEW m \in Network, NEW n \in Network, Below(m, n)
    PROVE  Below(WithoutDisconnected(c, m), WithoutDisconnected(c, n))
<1> DEFINE recheck == "disable_orphan_branches" \in c
           a == disable_disconnected(m, recheck)
           b == disable_disconnected(n, recheck)
<1>1. recheck \in BOOLEAN
  OBVIOUS
<1> HIDE DEF recheck
<1>2. ActiveNodes(m) \ DisconnectedNodes(m) \subseteq ActiveNodes(n) \ DisconnectedNodes(n)
  <2>1. CASE ActiveSlacks(n) = {}
    BY <2>1 DEF DisconnectedNodes, Below
  <2>2. CASE ActiveSlacks(n) # {}
    <3>1. ActiveSlacks(n) \cap ActiveNodes(m) = ActiveSlacks(m)
      BY DEF Below, ActiveSlacks
    <3>2. Reached(m, ActiveSlacks(m)) \subseteq Reached(n, ActiveSlacks(n))
      BY <3>1, ReachedMonotone
    <3>3. QED
      BY <2>2, <3>2 DEF DisconnectedNodes, Below
  <2>3. QED
    BY <2>1, <2>2
<1>3. Below(a, b)
  BY <1>1, <1>2, DisconnectedSets DEF Below
<1>4. QED
  BY <1>3 DEF WithoutDisconnected, recheck

LEMMA IsolatedMonotone ==
    ASSUME NEW c, NEW m \in Network, NEW n \in Network, Below(m, n)
    PROVE  Below(WithoutIsolated(c, m), WithoutIsolated(c, n))
<1>1. NodesWithBranch(m) \subseteq NodesWithBranch(n)
  BY DEF Below, NodesWithBranch
<1>2. QED
  BY <1>1, IsolatedSets DEF WithoutIsolated, Below

(* The cascade returns networks, and changes statuses of nodes and branches.  *)
LEMMA CutTypes ==
    ASSUME NEW c, NEW n \in Network
    PROVE  /\ WithoutOrphans(c, n) \in Network
           /\ WithoutDisconnected(c, n) \in Network
           /\ WithoutIsolated(c, n) \in Network
<1> DEFINE recheck == "disable_orphan_branches" \in c
<1>1. recheck \in BOOLEAN /\ WithoutDisconnected(c, n) =
          IF "disable_disconnected" \in c THEN disable_disconnected(n, recheck) ELSE n
  BY DEF WithoutDisconnected
<1> HIDE DEF recheck
<1>2. QED
  BY <1>1, StepTypes DEF WithoutOrphans, WithoutIsolated

LEMMA CutMonotone ==
    ASSUME NEW c, NEW m \in Network, NEW n \in Network, Below(m, n)
    PROVE  Below(Cut(c, m), Cut(c, n))
BY OrphansMonotone, DisconnectedMonotone, IsolatedMonotone, CutTypes DEF Cut

LEMMA CutFrame ==
    ASSUME NEW c, NEW n \in Network
    PROVE  LET m == Cut(c, n) IN m \in Network /\ Aside(m, n) /\ Below(m, n)
<1>1. ASSUME NEW k \in Network
      PROVE  Aside(WithoutOrphans(c, k), k) /\ Below(WithoutOrphans(c, k), k)
  BY OrphanSets DEF WithoutOrphans, Below, Aside
<1>2. ASSUME NEW k \in Network
      PROVE  Aside(WithoutDisconnected(c, k), k) /\ Below(WithoutDisconnected(c, k), k)
  <2> DEFINE recheck == "disable_orphan_branches" \in c
  <2>1. /\ recheck \in BOOLEAN
        /\ WithoutDisconnected(c, k) =
             IF "disable_disconnected" \in c THEN disable_disconnected(k, recheck) ELSE k
    BY DEF WithoutDisconnected
  <2> HIDE DEF recheck
  <2>2. QED
    BY <2>1, DisconnectedSets DEF Below, Aside
<1>3. ASSUME NEW k \in Network
      PROVE  Aside(WithoutIsolated(c, k), k) /\ Below(WithoutIsolated(c, k), k)
  BY IsolatedSets DEF WithoutIsolated, Below, Aside
<1> DEFINE o == WithoutOrphans(c, n)
           d == WithoutDisconnected(c, o)
           i == WithoutIsolated(c, d)
<1>4. o \in Network /\ d \in Network /\ i \in Network
  BY CutTypes
<1>5. Aside(o, n) /\ Below(o, n) /\ Aside(d, o) /\ Below(d, o) /\ Aside(i, d) /\ Below(i, d)
  BY <1>1, <1>2, <1>3, <1>4
<1> HIDE DEF o, d, i
<1>6. i \in Network /\ Aside(i, n) /\ Below(i, n)
  BY <1>4, <1>5 DEF Aside, Below
<1>7. QED
  BY <1>6 DEF Cut, i, d, o

(* One pass is enough, as a fact about the function.                          *)
LEMMA CutTwice ==
    ASSUME NEW c, NEW n \in Network
    PROVE  Below(Cut(c, n), Cut(c, Cut(c, n)))
<1> DEFINE o == WithoutOrphans(c, n)
           d == WithoutDisconnected(c, o)
           i == WithoutIsolated(c, d)
<1>1. o \in Network /\ d \in Network /\ i \in Network
  BY CutTypes
<1>2. "disable_orphan_branches" \in c => OrphanBranches(o) = {}
  BY OrphanStep DEF WithoutOrphans
<1> HIDE DEF o
<1>3. /\ "disable_orphan_branches" \in c => OrphanBranches(d) = {}
      /\ "disable_disconnected" \in c => DisconnectedNodes(d) = {}
  <2> DEFINE recheck == "disable_orphan_branches" \in c
             e == disable_disconnected(o, recheck)
  <2>1. recheck \in BOOLEAN
    OBVIOUS
  <2>2. d = IF "disable_disconnected" \in c THEN e ELSE o
    BY DEF WithoutDisconnected
  <2> HIDE DEF recheck, d
  <2>3. (recheck => OrphanBranches(e) = {}) /\ DisconnectedNodes(e) = {}
    BY <1>1, <2>1, DisconnectedStep
  <2>4. QED
    BY <1>2, <2>2, <2>3 DEF recheck
<1> HIDE DEF d
<1>4. /\ "disable_orphan_branches" \in c => OrphanBranches(i) = {}
      /\ "disable_disconnected" \in c => DisconnectedNodes(i) = {}
      /\ "disable_isolated" \in c => IsolatedNodes(i) = {}
  BY <1>1, <1>3, IsolatedStep DEF WithoutIsolated
<1> HIDE DEF i
<1>5. Below(i, WithoutOrphans(c, i))
  BY <1>1, <1>4, OrphanSets DEF WithoutOrphans, Below, OrphanBranches
<1>6. Below(i, WithoutDisconnected(c, i))
  <2> DEFINE recheck == "disable_orphan_branches" \in c
  <2>1. CASE "disable_disconnected" \in c
    <3>1. WithoutDisconnected(c, i) = disable_disconnected(i, recheck) /\ recheck \in BOOLEAN
      BY <2>1 DEF WithoutDisconnected
    <3>2. recheck => OrphanBranches(i) = {}
      BY <1>4
    <3> HIDE DEF recheck
    <3>3. QED
      BY <1>1, <1>4, <2>1, <3>1, <3>2, DisconnectedSets DEF Below, OrphanBranches
  <2>2. CASE "disable_disconnected" \notin c
    BY <2>2 DEF WithoutDisconnected, Below
  <2>3. QED
    BY <2>1, <2>2
<1>7. Below(i, WithoutIsolated(c, i))
  BY <1>1, <1>4, IsolatedSets DEF WithoutIsolated, Below, IsolatedNodes
<1>8. Below(i, WithoutDisconnected(c, WithoutOrphans(c, i)))
  <2>1. Below(WithoutDisconnected(c, i), WithoutDisconnected(c, WithoutOrphans(c, i)))
    BY <1>1, <1>5, CutTypes, DisconnectedMonotone
  <2>2. QED
    BY <1>6, <2>1 DEF Below
<1>9. Below(i, Cut(c, i))
  <2>1. Below(WithoutIsolated(c, i), Cut(c, i))
    BY <1>1, <1>8, CutTypes, IsolatedMonotone DEF Cut
  <2>2. QED
    BY <1>7, <2>1 DEF Below
<1>10. QED
  BY <1>9 DEF Cut, i, d, o


ActiveGens(n) == {g \in Gens : n.genOn[g]}

NotMoreOn(m, n) ==
    /\ ActiveNodes(m) \subseteq ActiveNodes(n)
    /\ ActiveBranches(m) \subseteq ActiveBranches(n)
    /\ ActiveGens(m) \subseteq ActiveGens(n)

(* An entry of the plan reads the same in every network, so an overlay never  *)
(* reaches below what it made of a larger one.                                *)
LEMMA OverlayBetween ==
    ASSUME NEW S, NEW f \in [S -> BOOLEAN], NEW g \in [S -> BOOLEAN], NEW r, Statuses(r),
           \A x \in S : f[x] => Overlay(g, r)[x]
    PROVE  \A x \in S : (f[x] => Overlay(f, r)[x]) /\ (Overlay(f, r)[x] => Overlay(g, r)[x])
<1> SUFFICES ASSUME NEW x \in S
             PROVE  (f[x] => Overlay(f, r)[x]) /\ (Overlay(f, r)[x] => Overlay(g, r)[x])
  OBVIOUS
<1>1. /\ x \in DOMAIN r => Overlay(f, r)[x] = r[x] /\ Overlay(g, r)[x] = r[x]
      /\ x \notin DOMAIN r => Overlay(f, r)[x] = f[x] /\ Overlay(g, r)[x] = g[x]
  BY DEF Overlay
<1>2. CASE x \in DOMAIN r
  BY <1>1, <1>2, Zenon
<1>3. CASE x \notin DOMAIN r
  <2>1. f[x] => g[x]
    BY <1>1, <1>3, Zenon
  <2>2. QED
    BY <1>1, <1>3, <2>1, Zenon
<1>4. QED
  BY <1>2, <1>3

LEMMA SeenTypes ==
    ASSUME NEW c, NEW p \in Plans, NEW n \in Network
    PROVE  LET m == Seen(c, p, n)
           IN  /\ m \in Network
               /\ m.nodeType = n.nodeType
               /\ m.existGen = n.existGen /\ m.generation = n.generation
BY StepTypes DEF Seen, apply_topology, Network

LEMMA SeenBetween ==
    ASSUME NEW c, NEW p \in Plans, NEW m \in Network, NEW n \in Network,
           NotMoreOn(m, Seen(c, p, n))
    PROVE  NotMoreOn(m, Seen(c, p, m)) /\ NotMoreOn(Seen(c, p, m), Seen(c, p, n))
<1>1. CASE "topology" \notin c
  BY <1>1 DEF Seen, NotMoreOn
<1>2. CASE "topology" \in c
  <2> DEFINE a == apply_topology(n, p)
             b == apply_topology(m, p)
  <2>1. Statuses(p.nodes) /\ Statuses(p.branches) /\ Statuses(p.gens)
    BY InputsAssumption
  <2>2. /\ a.nodeOn = Overlay(n.nodeOn, p.nodes) /\ b.nodeOn = Overlay(m.nodeOn, p.nodes)
        /\ a.branchOn = Overlay(n.branchOn, p.branches) /\ b.branchOn = Overlay(m.branchOn, p.branches)
        /\ a.genOn = Overlay(n.genOn, p.gens) /\ b.genOn = Overlay(m.genOn, p.gens)
    BY DEF apply_topology, Network
  <2>3. /\ n.nodeOn \in [Nodes -> BOOLEAN] /\ m.nodeOn \in [Nodes -> BOOLEAN]
        /\ n.branchOn \in [Branches -> BOOLEAN] /\ m.branchOn \in [Branches -> BOOLEAN]
        /\ n.genOn \in [Gens -> BOOLEAN] /\ m.genOn \in [Gens -> BOOLEAN]
    BY DEF Network
  <2>4. Seen(c, p, m) = b /\ Seen(c, p, n) = a
    BY <1>2 DEF Seen
  <2> HIDE DEF a, b
  <2>5. /\ \A x \in Nodes : m.nodeOn[x] => a.nodeOn[x]
        /\ \A x \in Branches : m.branchOn[x] => a.branchOn[x]
        /\ \A x \in Gens : m.genOn[x] => a.genOn[x]
    BY <2>4, Zenon DEF NotMoreOn, ActiveNodes, ActiveBranches, ActiveGens
  <2>6. \A x \in Nodes : (m.nodeOn[x] => b.nodeOn[x]) /\ (b.nodeOn[x] => a.nodeOn[x])
    BY <2>1, <2>2, <2>3, <2>5, OverlayBetween
  <2>7. \A x \in Branches : (m.branchOn[x] => b.branchOn[x]) /\ (b.branchOn[x] => a.branchOn[x])
    BY <2>1, <2>2, <2>3, <2>5, OverlayBetween
  <2>8. \A x \in Gens : (m.genOn[x] => b.genOn[x]) /\ (b.genOn[x] => a.genOn[x])
    BY <2>1, <2>2, <2>3, <2>5, OverlayBetween
  <2>9. QED
    BY <2>4, <2>6, <2>7, <2>8, Zenon DEF NotMoreOn, ActiveNodes, ActiveBranches, ActiveGens
<1>3. QED
  BY <1>1, <1>2

(* The columns other than the types.                                          *)
SameStatus(m, n) ==
    /\ m.nodeOn = n.nodeOn /\ m.branchOn = n.branchOn /\ m.genOn = n.genOn
    /\ m.existGen = n.existGen /\ m.generation = n.generation

LEMMA WithOneSlackFrame ==
    ASSUME NEW c, NEW n \in Network
    PROVE  WithOneSlack(c, n) \in Network /\ SameStatus(WithOneSlack(c, n), n)
BY SlackStep DEF WithOneSlack, refine_slack_to_one, SameStatus, Network

LEMMA WithTypesFrame ==
    ASSUME NEW c, NEW n \in Network
    PROVE  LET m == WithTypes(c, n)
           IN  /\ m \in Network /\ SameStatus(m, n)
               /\ ActiveSlacks(m) = ActiveSlacks(n)
               /\ "refine_node_types" \in c => TypesFollow(m)
BY TypesStep, TypesStepFollows DEF WithTypes, refine_node_types, SameStatus, Same, Network

(* The slack that was chosen is the only candidate left, and is kept.         *)
LEMMA SlackOnce ==
    ASSUME NEW c, NEW n \in Network, NEW m \in Network,
           ActiveNodes(m) \subseteq ActiveNodes(n), ActiveBranches(m) \subseteq ActiveBranches(n),
           ActiveSlacks(m) = ActiveSlacks(WithOneSlack(c, n))
    PROVE  WithOneSlack(c, m) = m
<1> SUFFICES ASSUME "refine_slack" \in c PROVE refine_slack_to_one(m) = m
  BY DEF WithOneSlack
<1> DEFINE a == refine_slack_to_one(n)
<1>1. ActiveSlacks(m) = ActiveSlacks(a)
  BY DEF WithOneSlack
<1>2. ActiveSlacks(a) \subseteq ActiveSlacks(n)
  <2>1. /\ a.nodeOn = n.nodeOn
        /\ a.nodeType = [i \in Nodes |-> IF i \in SlacksToDemote(n) THEN "PQ" ELSE n.nodeType[i]]
    BY DEF refine_slack_to_one, Network
  <2>2. QED
    BY <2>1 DEF ActiveSlacks, ActiveNodes
<1>3. SlackCandidates(m) \subseteq SlackCandidates(n)
  BY <1>1, <1>2 DEF SlackCandidates, NodesWithBranch
<1>4. SlacksToDemote(m) = {}
  <2>1. CASE SlackCandidates(m) = {}
    BY <2>1 DEF SlacksToDemote
  <2>2. CASE SlackCandidates(m) # {}
    <3>1. ActiveSlacks(m) = ChosenSlacks(n)
      BY <1>1, <1>3, <2>2, SlackStep
    <3>2. ASSUME NEW i \in ActiveSlacks(m), NEW j \in ActiveSlacks(m) PROVE i = j
      <4>1. i \in SlackCandidates(n) /\ j \in SlackCandidates(n) /\ Before(i, j) /\ Before(j, i)
        BY <3>1 DEF ChosenSlacks
      <4>2. i \in Nat /\ j \in Nat /\ Priority[i] \in Int /\ Priority[j] \in Int
        BY <4>1, NodesAssumption, PriorityAssumption DEF SlackCandidates, ActiveSlacks, ActiveNodes
      <4>3. QED
        BY <4>1, <4>2 DEF Before
    <3>3. ASSUME NEW i \in ActiveSlacks(m) PROVE i \in ChosenSlacks(m)
      <4>1. \A j \in SlackCandidates(m) : j = i
        BY <3>2 DEF SlackCandidates
      <4>2. i \in SlackCandidates(m)
        BY <2>2, <4>1
      <4>3. Before(i, i)
        BY NodesAssumption, PriorityAssumption DEF Before, ActiveSlacks, ActiveNodes
      <4>4. QED
        BY <4>1, <4>2, <4>3 DEF ChosenSlacks
    <3>4. QED
      BY <3>3 DEF SlacksToDemote
  <2>3. QED
    BY <2>1, <2>2
<1>5. QED
  BY <1>4 DEF refine_slack_to_one, Network

(* A boolean column is known by where it is on.                               *)
LEMMA ColumnEquality ==
    ASSUME NEW S, NEW f \in [S -> BOOLEAN], NEW g \in [S -> BOOLEAN],
           {x \in S : f[x]} = {x \in S : g[x]}
    PROVE  f = g
<1>1. ASSUME NEW x \in S PROVE f[x] = g[x]
  <2>1. f[x] \in BOOLEAN /\ g[x] \in BOOLEAN
    OBVIOUS
  <2>2. f[x] <=> g[x]
    BY Zenon
  <2>3. QED
    BY <2>1, <2>2
<1>2. QED
  BY <1>1

(* What generator_status leaves on.                                           *)
LEMMA LiveGens ==
    ASSUME NEW c, NEW n \in Network
    PROVE  LET m == WithLiveGens(c, n)
           IN  /\ m \in Network
               /\ m.nodeOn = n.nodeOn /\ m.branchOn = n.branchOn /\ m.nodeType = n.nodeType
               /\ m.existGen = n.existGen /\ m.generation = n.generation
               /\ ActiveGens(m) = {g \in ActiveGens(n) :
                      "generator_status" \in c => NodeOf[g] \notin Nodes \ ActiveNodes(n)}
<1> DEFINE m == generator_status(n)
<1>1. /\ m \in Network /\ m.nodeOn = n.nodeOn /\ m.branchOn = n.branchOn /\ m.nodeType = n.nodeType
      /\ m.existGen = n.existGen /\ m.generation = n.generation
      /\ m.genOn = [g \in Gens |-> n.genOn[g] /\ g \notin GensOfDeadNodes(n)]
  BY DEF generator_status, Network, Off
<1>2. ActiveGens(m) = {g \in ActiveGens(n) : NodeOf[g] \notin Nodes \ ActiveNodes(n)}
  BY <1>1 DEF ActiveGens, GensOfDeadNodes
<1>3. QED
  BY <1>1, <1>2 DEF WithLiveGens, ActiveGens

-----------------------------------------------------------------------------
(* prepare_network twice.                                                     *)

LEMMA PrepareTwice ==
    ASSUME NEW c, NEW p \in Plans, NEW n \in Network
    PROVE  LET y == Prepared(c, p, n)
               z == Prepared(c, p, y)
           IN  /\ y \in Network /\ z \in Network
               /\ SameStatus(z, y)
               /\ \A i \in Nodes : z.nodeType[i] # y.nodeType[i] =>
                      /\ "refine_node_types" \in c
                      /\ i \in WithGens(y) \ WithActiveGen(y) /\ i \notin ActiveNodes(y)
                      /\ y.nodeType[i] = "PV" /\ z.nodeType[i] = "PQ"
<1> DEFINE a1 == Seen(c, p, n)
           a2 == WithOneSlack(c, a1)
           a3 == WithTypes(c, a2)
           a6 == Cut(c, a3)
           y  == WithLiveGens(c, a6)
           b1 == Seen(c, p, y)
           b2 == WithOneSlack(c, b1)
           b3 == WithTypes(c, b2)
           b6 == Cut(c, b3)
           z  == WithLiveGens(c, b6)
<1>1. a1 \in Network /\ a2 \in Network /\ SameStatus(a2, a1)
  BY SeenTypes, WithOneSlackFrame
<1>2. /\ a3 \in Network /\ SameStatus(a3, a2) /\ ActiveSlacks(a3) = ActiveSlacks(a2)
      /\ "refine_node_types" \in c => TypesFollow(a3)
  BY <1>1, WithTypesFrame
<1>3. a6 \in Network /\ Aside(a6, a3) /\ Below(a6, a3) /\ Below(a6, Cut(c, a6))
  BY <1>2, CutFrame, CutTwice
<1>4. /\ y \in Network
      /\ y.nodeOn = a6.nodeOn /\ y.branchOn = a6.branchOn /\ y.nodeType = a6.nodeType
      /\ y.existGen = a6.existGen /\ y.generation = a6.generation
      /\ ActiveGens(y) = {g \in ActiveGens(a6) :
              "generator_status" \in c => NodeOf[g] \notin Nodes \ ActiveNodes(a6)}
  BY <1>3, LiveGens
<1>5. /\ b1 \in Network /\ b1.nodeType = y.nodeType
      /\ b1.existGen = y.existGen /\ b1.generation = y.generation
  BY <1>4, SeenTypes
<1>6. b2 \in Network /\ SameStatus(b2, b1)
  BY <1>5, WithOneSlackFrame
<1>7. /\ b3 \in Network /\ SameStatus(b3, b2) /\ ActiveSlacks(b3) = ActiveSlacks(b2)
  BY <1>6, WithTypesFrame
<1>8. b6 \in Network /\ Aside(b6, b3)
  BY <1>7, CutFrame
<1>9. /\ z \in Network
      /\ z.nodeOn = b6.nodeOn /\ z.branchOn = b6.branchOn /\ z.nodeType = b6.nodeType
      /\ z.existGen = b6.existGen /\ z.generation = b6.generation
      /\ ActiveGens(z) = {g \in ActiveGens(b6) :
              "generator_status" \in c => NodeOf[g] \notin Nodes \ ActiveNodes(b6)}
  BY <1>8, LiveGens
<1>10. b1 = Seen(c, p, y) /\ a2 = WithOneSlack(c, a1) /\ b2 = WithOneSlack(c, b1)
       /\ a1 = Seen(c, p, n) /\ b3 = WithTypes(c, b2)
  OBVIOUS
<1>11. a6 = Cut(c, a3) /\ b6 = Cut(c, b3)
  OBVIOUS
<1> HIDE DEF a1, a2, a3, a6, y, b1, b2, b3, b6, z
<1>12. /\ ActiveNodes(a1) = ActiveNodes(a3) /\ ActiveBranches(a1) = ActiveBranches(a3)
       /\ ActiveGens(a1) = ActiveGens(a6)
       /\ ActiveNodes(y) = ActiveNodes(a6) /\ ActiveBranches(y) = ActiveBranches(a6)
       /\ ActiveSlacks(y) = ActiveSlacks(a6)
  BY <1>1, <1>2, <1>3, <1>4 DEF SameStatus, Aside, ActiveNodes, ActiveBranches, ActiveGens, ActiveSlacks
<1>13. NotMoreOn(y, a1)
  BY <1>3, <1>4, <1>12 DEF NotMoreOn, Below
<1>14. NotMoreOn(y, b1) /\ NotMoreOn(b1, a1)
  BY <1>4, <1>10, <1>13, SeenBetween
<1>15. ActiveSlacks(b1) = ActiveSlacks(a3)
  <2>1. b1.nodeType = a3.nodeType /\ y.nodeType = a3.nodeType
    BY <1>3, <1>4, <1>5 DEF Aside
  <2>2. /\ ActiveSlacks(a3) = {i \in ActiveNodes(a3) : a3.nodeType[i] = "SLACK"}
        /\ ActiveSlacks(b1) = {i \in ActiveNodes(b1) : a3.nodeType[i] = "SLACK"}
        /\ ActiveSlacks(y) = {i \in ActiveNodes(y) : a3.nodeType[i] = "SLACK"}
    BY <2>1 DEF ActiveSlacks
  <2>3. ActiveSlacks(y) = ActiveSlacks(a3)
    BY <1>3, <1>12 DEF Below
  <2>4. QED
    BY <2>2, <2>3, <1>12, <1>14 DEF NotMoreOn
<1>16. b2 = b1
  BY <1>1, <1>2, <1>5, <1>10, <1>14, <1>15, SlackOnce DEF NotMoreOn
<1>17. /\ ActiveNodes(b3) = ActiveNodes(b1) /\ ActiveBranches(b3) = ActiveBranches(b1)
       /\ ActiveGens(b3) = ActiveGens(b1) /\ ActiveGens(b6) = ActiveGens(b1)
  BY <1>7, <1>8, <1>16 DEF SameStatus, Aside, ActiveNodes, ActiveBranches, ActiveGens
<1>18. Below(a6, b3) /\ Below(b3, a3)
  BY <1>3, <1>7, <1>12, <1>14, <1>15, <1>16, <1>17 DEF Below, NotMoreOn
<1>19. ActiveNodes(b6) = ActiveNodes(a6) /\ ActiveBranches(b6) = ActiveBranches(a6)
  <2>1. Below(Cut(c, a6), b6) /\ Below(b6, a6)
    BY <1>2, <1>3, <1>7, <1>11, <1>18, CutMonotone
  <2>2. QED
    BY <2>1, <1>3 DEF Below
<1>20. ActiveGens(z) = ActiveGens(y)
  BY <1>4, <1>9, <1>12, <1>14, <1>17, <1>19 DEF NotMoreOn
<1>21. z.nodeOn = y.nodeOn /\ z.branchOn = y.branchOn /\ z.genOn = y.genOn
  <2>1. /\ z.nodeOn \in [Nodes -> BOOLEAN] /\ y.nodeOn \in [Nodes -> BOOLEAN]
        /\ z.branchOn \in [Branches -> BOOLEAN] /\ y.branchOn \in [Branches -> BOOLEAN]
        /\ z.genOn \in [Gens -> BOOLEAN] /\ y.genOn \in [Gens -> BOOLEAN]
    BY <1>4, <1>9 DEF Network
  <2>2. ActiveNodes(z) = ActiveNodes(y) /\ ActiveBranches(z) = ActiveBranches(y)
    BY <1>4, <1>9, <1>19 DEF ActiveNodes, ActiveBranches
  <2>3. QED
    BY <2>1, <2>2, <1>20, ColumnEquality DEF ActiveNodes, ActiveBranches, ActiveGens
<1>22. z.existGen = y.existGen /\ z.generation = y.generation
  BY <1>5, <1>7, <1>8, <1>9, <1>16 DEF SameStatus, Aside
<1>23. ASSUME NEW i \in Nodes, z.nodeType[i] # y.nodeType[i]
       PROVE  /\ "refine_node_types" \in c
              /\ i \in WithGens(y) \ WithActiveGen(y) /\ i \notin ActiveNodes(y)
              /\ y.nodeType[i] = "PV" /\ z.nodeType[i] = "PQ"
  <2>1. z.nodeType = b3.nodeType /\ b1.nodeType = y.nodeType /\ b1.nodeType = a3.nodeType
    BY <1>3, <1>4, <1>5, <1>8, <1>9 DEF Aside
  <2>2. "refine_node_types" \in c /\ b3 = refine_node_types(b1)
    BY <1>10, <1>16, <1>23, <2>1 DEF WithTypes
  <2>3. z.nodeType[i] = IF i \in ToPromote(b1) THEN "PV" ELSE IF i \in ToDemote(b1) THEN "PQ" ELSE y.nodeType[i]
    BY <1>5, <2>1, <2>2 DEF refine_node_types, Network
  <2>4. /\ WithGens(a3) = WithGens(b1) /\ WithGens(y) = WithGens(b1)
        /\ WithActiveGen(b1) = {j \in Nodes : \E g \in ActiveGens(b1) : NodeOf[g] = j}
        /\ WithActiveGen(a3) = {j \in Nodes : \E g \in ActiveGens(a1) : NodeOf[g] = j}
        /\ WithActiveGen(y)  = {j \in Nodes : \E g \in ActiveGens(y) : NodeOf[g] = j}
    BY <1>1, <1>2 DEF WithGens, WithActiveGen, ActiveGens, SameStatus
  <2>5. i \notin ToPromote(b1)
    <3> SUFFICES ASSUME i \in ToPromote(b1) PROVE FALSE
      OBVIOUS
    <3>1. i \in ActiveNodes(a3) /\ i \in WithActiveGen(a3) /\ a3.nodeType[i] = "PQ"
      BY <1>12, <1>14, <2>1, <2>4 DEF ToPromote, NotMoreOn
    <3>2. i \in WithGens(a3)
      BY <3>1 DEF WithGens, WithActiveGen
    <3>3. QED
      BY <1>2, <2>2, <3>1, <3>2 DEF TypesFollow
  <2>6. i \in ToDemote(b1) /\ y.nodeType[i] = "PV" /\ z.nodeType[i] = "PQ"
    BY <1>23, <2>1, <2>3, <2>5 DEF ToDemote
  <2>7. i \in WithGens(y) /\ i \notin WithActiveGen(b1) /\ i \notin WithActiveGen(y)
    BY <1>14, <2>4, <2>6 DEF ToDemote, NotMoreOn
  <2>8. i \notin ActiveNodes(y)
    <3>1. i \in WithActiveGen(a3)
      BY <1>2, <2>1, <2>2, <2>4, <2>6, <2>7 DEF TypesFollow
    <3>2. PICK g \in ActiveGens(a1) : NodeOf[g] = i
      BY <2>4, <3>1
    <3>3. g \in ActiveGens(a6) /\ g \notin ActiveGens(y)
      BY <1>12, <2>4, <2>7, <3>2
    <3>4. QED
      BY <1>4, <1>12, <3>2, <3>3
  <2>9. QED
    BY <2>2, <2>6, <2>7, <2>8
<1>24. QED
  BY <1>4, <1>9, <1>21, <1>22, <1>23 DEF SameStatus, Prepared, Typed, a1, a2, a3, a6, y, b1, b2, b3, b6, z


(* Nodes whose type the second preparation takes back lose it in the second   *)
(* pass over types of a run as well.                                          *)
LEMMA RunOfPrepared ==
    ASSUME NEW c, NEW p \in Plans, NEW n \in Network
    PROVE  Ran(c, p, Prepared(c, p, n)) = Ran(c, p, n)
<1> DEFINE y == Prepared(c, p, n)
           z == Prepared(c, p, y)
<1>1. y \in Network /\ z \in Network
  BY PrepareTwice
<1>2. z.nodeOn = y.nodeOn /\ z.branchOn = y.branchOn /\ z.genOn = y.genOn
      /\ z.existGen = y.existGen /\ z.generation = y.generation
  BY PrepareTwice DEF SameStatus
<1>3. \A i \in Nodes : z.nodeType[i] # y.nodeType[i] =>
          /\ "refine_node_types" \in c
          /\ i \in WithGens(y) \ WithActiveGen(y) /\ i \notin ActiveNodes(y)
          /\ y.nodeType[i] = "PV" /\ z.nodeType[i] = "PQ"
  BY PrepareTwice
<1> SUFFICES WithTypes(c, z) = WithTypes(c, y)
  BY DEF Ran
<1> HIDE DEF y, z
<1>4. CASE "refine_node_types" \notin c
  <2>1. z.nodeType \in [Nodes -> NodeTypes] /\ y.nodeType \in [Nodes -> NodeTypes]
    BY <1>1 DEF Network
  <2>2. z.nodeType = y.nodeType
    BY <1>3, <1>4, <2>1
  <2>3. z = y
    BY <1>1, <1>2, <2>2 DEF Network
  <2>4. QED
    BY <2>3
<1>5. CASE "refine_node_types" \in c
  <2> DEFINE tz == [i \in Nodes |-> IF i \in ToPromote(z) THEN "PV" ELSE IF i \in ToDemote(z) THEN "PQ" ELSE z.nodeType[i]]
             ty == [i \in Nodes |-> IF i \in ToPromote(y) THEN "PV" ELSE IF i \in ToDemote(y) THEN "PQ" ELSE y.nodeType[i]]
             rz == refine_node_types(z)
             ry == refine_node_types(y)
  <2>1. /\ ActiveNodes(z) = ActiveNodes(y)
        /\ WithGens(z) = WithGens(y) /\ WithActiveGen(z) = WithActiveGen(y)
    BY <1>2 DEF ActiveNodes, WithGens, WithActiveGen
  <2>2. ASSUME NEW i \in Nodes PROVE tz[i] = ty[i]
    <3>1. CASE z.nodeType[i] = y.nodeType[i]
      BY <2>1, <3>1 DEF ToPromote, ToDemote
    <3>2. CASE z.nodeType[i] # y.nodeType[i]
      BY <1>3, <2>1, <3>2 DEF ToPromote, ToDemote
    <3>3. QED
      BY <3>1, <3>2
  <2>3. tz = ty
    BY <2>2
  <2>4. /\ rz \in Network /\ rz.nodeType = tz /\ rz.nodeOn = z.nodeOn /\ rz.branchOn = z.branchOn
        /\ rz.genOn = z.genOn /\ rz.existGen = z.existGen /\ rz.generation = z.generation
    BY <1>1, TypesStep DEF refine_node_types, Network
  <2>5. /\ ry \in Network /\ ry.nodeType = ty /\ ry.nodeOn = y.nodeOn /\ ry.branchOn = y.branchOn
        /\ ry.genOn = y.genOn /\ ry.existGen = y.existGen /\ ry.generation = y.generation
    BY <1>1, TypesStep DEF refine_node_types, Network
  <2> HIDE DEF tz, ty, rz, ry
  <2>6. rz = ry
    BY <1>2, <2>3, <2>4, <2>5 DEF Network
  <2>7. QED
    BY <1>5, <2>6 DEF WithTypes, rz, ry
<1>6. QED
  BY <1>4, <1>5

-----------------------------------------------------------------------------
(* The second inductive invariant: the working copy is what the steps passed  *)
(* make of the call's input, and the networks returned are what the calls     *)
(* compute.                                                                   *)

Result(e, c, p, n) == IF e = "run" THEN Ran(c, p, n) ELSE Prepared(c, p, n)

Trace ==
    LET source == Source(call, returned)
        seen   == Seen(cfg, plan, source)
        typed  == Typed(cfg, seen)
        done   == Prepared(cfg, plan, source)
    IN  /\ pos = 1 => net = source
        /\ pos = 2 => net = seen
        /\ pos = 3 => net = WithOneSlack(cfg, seen)
        /\ pos = 4 => net = typed
        /\ pos = 5 => net = WithoutOrphans(cfg, typed)
        /\ pos = 6 => net = WithoutDisconnected(cfg, WithoutOrphans(cfg, typed))
        /\ pos = 7 => net = Cut(cfg, typed)
        /\ pos = 8 => net = done
        /\ pos = 9 => net = IF entry = "run" THEN WithTypes(cfg, done) ELSE done
        /\ pos = 10 => net = Result(entry, cfg, plan, source)

Returns ==
    /\ call > 1 => returned[1] = Ran(cfg, plan, input)
    /\ call > 2 => returned[2] = Prepared(cfg, plan, input)
    /\ call > 3 => returned[3] = Prepared(cfg, plan, returned[2])
    /\ call > 4 => returned[4] = Ran(cfg, plan, returned[2])

HInv == Returns /\ (InCall => Trace)

LEMMA InitHInv == Init => HInv
BY DEF Init, HInv, Returns, Trace, Source, CALLS

(* A step of the executor changes the working copy and the position.          *)
LEMMA Moves ==
    ASSUME TypeOK, HInv, NEW step, AtStep(step), NEW n, Do(step, n)
    PROVE  /\ Trace /\ Returns' /\ pos' = pos + 1 /\ pos \in 1..9
           /\ UNCHANGED <<cfg, plan, entry>>
           /\ Source(call, returned)' = Source(call, returned)
           /\ Skipped(step) => net' = net
           /\ ~Skipped(step) => net' = n
<1>1. /\ pos' = pos + 1 /\ UNCHANGED <<cfg, plan, input, call, returned>>
      /\ Skipped(step) => net' = net
      /\ ~Skipped(step) => net' = n
  BY DEF Do, TypeOK
<1>2. Trace /\ pos \in 1..9
  BY Lengths DEF HInv, AtStep, TypeOK
<1>3. Source(call, returned)' = Source(call, returned) /\ entry' = entry /\ Returns'
  BY <1>1 DEF Source, entry, Returns, HInv
<1>4. QED
  BY <1>1, <1>2, <1>3

LEMMA StepHInv ==
    ASSUME TypeOK, HInv, NEW step, NEW n, AtStep(step), Do(step, n),
           \/ step = "topology" /\ n = apply_topology(net, plan)
           \/ step = "refine_slack" /\ n = refine_slack_to_one(net)
           \/ step = "refine_node_types" /\ n = refine_node_types(net)
           \/ step = "disable_orphan_branches" /\ n = disable_orphan_branches(net)
           \/ step = "disable_disconnected"
              /\ n = disable_disconnected(net, "disable_orphan_branches" \in cfg)
           \/ step = "disable_isolated" /\ n = disable_isolated(net)
           \/ step = "generator_status" /\ n = generator_status(net)
           \/ step = "refine_node_types_2" /\ n = refine_node_types(net)
           \/ step = "aggregate_generators" /\ n = aggregate_generators(net)
    PROVE  HInv'
<1> DEFINE source == Source(call, returned)
<1>1. /\ Trace /\ Returns' /\ pos' = pos + 1 /\ pos \in 1..9
      /\ UNCHANGED <<cfg, plan, entry>>
      /\ source' = source
      /\ Skipped(step) => net' = net
      /\ ~Skipped(step) => net' = n
  BY Moves
<1>p. /\ step = "topology" => pos = 1
      /\ step = "refine_slack" => pos = 2
      /\ step = "refine_node_types" => pos = 3
      /\ step = "disable_orphan_branches" => pos = 4
      /\ step = "disable_disconnected" => pos = 5
      /\ step = "disable_isolated" => pos = 6
      /\ step = "generator_status" => pos = 7
      /\ step = "refine_node_types_2" => pos = 8
      /\ step = "aggregate_generators" => pos = 9
  BY <1>1, Positions
<1> HIDE DEF source
<1>2. CASE step = "topology" /\ n = apply_topology(net, plan)
  <2>1. net' = Seen(cfg, plan, source)
    BY <1>1, <1>p, <1>2 DEF Trace, source, Seen, Skipped, On, ToggleOf, RunOnly
  <2>2. QED
    BY <1>1, <1>p, <1>2, <2>1 DEF HInv, Trace, source
<1>3. CASE step = "refine_slack" /\ n = refine_slack_to_one(net)
  <2>1. net' = WithOneSlack(cfg, Seen(cfg, plan, source))
    BY <1>1, <1>p, <1>3 DEF Trace, source, WithOneSlack, Skipped, On, ToggleOf, RunOnly
  <2>2. QED
    BY <1>1, <1>p, <1>3, <2>1 DEF HInv, Trace, source
<1>4. CASE step = "refine_node_types" /\ n = refine_node_types(net)
  <2>1. net' = Typed(cfg, Seen(cfg, plan, source))
    BY <1>1, <1>p, <1>4 DEF Trace, source, WithTypes, Typed, Skipped, On, ToggleOf, RunOnly
  <2>2. QED
    BY <1>1, <1>p, <1>4, <2>1 DEF HInv, Trace, source
<1>5. CASE step = "disable_orphan_branches" /\ n = disable_orphan_branches(net)
  <2>1. net' = WithoutOrphans(cfg, Typed(cfg, Seen(cfg, plan, source)))
    BY <1>1, <1>p, <1>5 DEF Trace, source, WithoutOrphans, Skipped, On, ToggleOf, RunOnly
  <2>2. QED
    BY <1>1, <1>p, <1>5, <2>1 DEF HInv, Trace, source
<1>6. CASE step = "disable_disconnected" /\ n = disable_disconnected(net, "disable_orphan_branches" \in cfg)
  <2>1. net' = WithoutDisconnected(cfg, WithoutOrphans(cfg, Typed(cfg, Seen(cfg, plan, source))))
    BY <1>1, <1>p, <1>6 DEF Trace, source, WithoutDisconnected, Skipped, On, ToggleOf, RunOnly
  <2>2. QED
    BY <1>1, <1>p, <1>6, <2>1 DEF HInv, Trace, source
<1>7. CASE step = "disable_isolated" /\ n = disable_isolated(net)
  <2>1. net' = Cut(cfg, Typed(cfg, Seen(cfg, plan, source)))
    BY <1>1, <1>p, <1>7 DEF Trace, source, WithoutIsolated, Cut, Skipped, On, ToggleOf, RunOnly
  <2>2. QED
    BY <1>1, <1>p, <1>7, <2>1 DEF HInv, Trace, source
<1>8. CASE step = "generator_status" /\ n = generator_status(net)
  <2>1. net' = Prepared(cfg, plan, source)
    BY <1>1, <1>p, <1>8 DEF Trace, source, WithLiveGens, Prepared, Skipped, On, ToggleOf, RunOnly
  <2>2. QED
    BY <1>1, <1>p, <1>8, <2>1 DEF HInv, Trace, source
<1>9. CASE step = "refine_node_types_2" /\ n = refine_node_types(net)
  <2>1. net' = IF entry = "run" THEN WithTypes(cfg, Prepared(cfg, plan, source)) ELSE Prepared(cfg, plan, source)
    <3>1. net = Prepared(cfg, plan, source)
      BY <1>1, <1>p, <1>9 DEF Trace, source
    <3>2. Skipped(step) <=> "refine_node_types" \notin cfg \/ entry = "prepare"
      BY <1>9 DEF Skipped, On, ToggleOf, RunOnly
    <3>3. entry = "run" \/ entry = "prepare"
      BY Lengths DEF TypeOK, AtStep, InCall, entry, CALLS
    <3>4. QED
      BY <1>1, <1>9, <3>1, <3>2, <3>3 DEF WithTypes
  <2>2. QED
    BY <1>1, <1>p, <1>9, <2>1 DEF HInv, Trace, source
<1>10. CASE step = "aggregate_generators" /\ n = aggregate_generators(net)
  <2>1. net' = Result(entry, cfg, plan, source)
    <3>1. net = IF entry = "run" THEN WithTypes(cfg, Prepared(cfg, plan, source)) ELSE Prepared(cfg, plan, source)
      BY <1>1, <1>p, <1>10 DEF Trace, source
    <3>2. Skipped(step) <=> "aggregate_generators" \notin cfg \/ entry = "prepare"
      BY <1>10 DEF Skipped, On, ToggleOf, RunOnly
    <3>3. entry = "run" \/ entry = "prepare"
      BY Lengths DEF TypeOK, AtStep, InCall, entry, CALLS
    <3>4. QED
      BY <1>1, <1>10, <3>1, <3>2, <3>3 DEF WithSums, Result, Ran
  <2>2. QED
    BY <1>1, <1>p, <1>10, <2>1 DEF HInv, Trace, source
<1>11. QED
  BY <1>2, <1>3, <1>4, <1>5, <1>6, <1>7, <1>8, <1>9, <1>10

LEMMA ReturnHInv == TypeOK /\ HInv /\ Return => HInv'
<1> SUFFICES ASSUME TypeOK, HInv, Return PROVE HInv'
  OBVIOUS
<1>1. /\ call \in 1..4 /\ pos = 10 /\ Trace /\ Returns
      /\ returned \in Seq(Network) /\ Len(returned) = call - 1 /\ net \in Network
  BY Lengths DEF TypeOK, HInv, Return, StepsDone, InCall
<1>2. /\ returned' = Append(returned, net) /\ call' = call + 1 /\ pos' = 1
      /\ UNCHANGED <<cfg, plan, input>>
      /\ call < 4 => net' = Source(call + 1, returned')
  BY Lengths DEF Return
<1>3. /\ returned'[call] = net
      /\ \A k \in 1..4 : k < call => returned'[k] = returned[k]
  BY <1>1, <1>2
<1>4. net = Result(entry, cfg, plan, Source(call, returned))
  BY <1>1 DEF Trace
<1>5. /\ call = 1 => net = Ran(cfg, plan, input)
      /\ call = 2 => net = Prepared(cfg, plan, input)
      /\ call = 3 => net = Prepared(cfg, plan, returned[2])
      /\ call = 4 => net = Ran(cfg, plan, returned[2])
  BY <1>4 DEF Result, entry, Source, CALLS
<1>6. Returns'
  BY <1>1, <1>2, <1>3, <1>5 DEF Returns
<1>7. ASSUME InCall' PROVE Trace'
  <2>1. call < 4
    BY <1>1, <1>2, <1>7, Lengths DEF InCall
  <2>2. net' = Source(call, returned)'
    BY <1>2, <2>1 DEF Source
  <2>3. QED
    BY <1>2, <2>2 DEF Trace
<1>8. QED
  BY <1>6, <1>7 DEF HInv

LEMMA HInvInductive == TypeOK /\ HInv /\ [Next]_vars => HInv'
<1> SUFFICES ASSUME TypeOK, HInv, [Next]_vars PROVE HInv'
  OBVIOUS
<1>1. CASE Return
  BY <1>1, ReturnHInv
<1>2. CASE UNCHANGED vars
  <2>1. /\ Returns' = Returns /\ InCall' = InCall /\ entry' = entry
        /\ Source(call, returned)' = Source(call, returned)
    BY <1>2 DEF vars, Returns, InCall, entry, Source
  <2>2. Trace' = Trace
    BY <1>2, <2>1 DEF vars, Trace
  <2>3. QED
    BY <2>1, <2>2 DEF HInv
<1>3. CASE Topology
  BY <1>3, StepHInv DEF Topology
<1>4. CASE RefineSlack
  BY <1>4, StepHInv DEF RefineSlack
<1>5. CASE RefineNodeTypes
  BY <1>5, StepHInv DEF RefineNodeTypes
<1>6. CASE DisableOrphanBranches
  BY <1>6, StepHInv DEF DisableOrphanBranches
<1>7. CASE DisableDisconnected
  BY <1>7, StepHInv DEF DisableDisconnected
<1>8. CASE DisableIsolated
  BY <1>8, StepHInv DEF DisableIsolated
<1>9. CASE GeneratorStatus
  BY <1>9, StepHInv DEF GeneratorStatus
<1>10. CASE RefineNodeTypes2
  BY <1>10, StepHInv DEF RefineNodeTypes2
<1>11. CASE AggregateGenerators
  BY <1>11, StepHInv DEF AggregateGenerators
<1>12. QED
  BY <1>1, <1>2, <1>3, <1>4, <1>5, <1>6, <1>7, <1>8, <1>9, <1>10, <1>11 DEF Next, CallerDone

LEMMA HInvAlways == Spec => [](TypeOK /\ HInv)
<1>1. IInv => TypeOK
  BY DEF IInv
<1>2. QED
  BY <1>1, IInvAlways, InitHInv, HInvInductive, PTL DEF Spec

(* Materializing a network first changes nothing in what a run makes of it,   *)
(* for every network, plan and configuration.                                 *)
THEOREM RunOnPreparedIsIdentical == Spec => []MaterializedRunIsIdentical
<1>1. TypeOK /\ HInv => MaterializedRunIsIdentical
  <2> SUFFICES ASSUME TypeOK, HInv, ~InCall PROVE returned[4] = returned[1]
    BY DEF MaterializedRunIsIdentical
  <2>1. call = 5 /\ input \in Network /\ plan \in Plans
    BY Lengths, InputsAssumption DEF TypeOK, InCall
  <2>2. returned[1] = Ran(cfg, plan, input) /\ returned[4] = Ran(cfg, plan, Prepared(cfg, plan, input))
    BY <2>1 DEF HInv, Returns
  <2>3. QED
    BY <2>1, <2>2, RunOfPrepared
<1>2. QED
  BY <1>1, HInvAlways, PTL

(* A second prepare_network keeps every status, every generation field and    *)
(* the types of the nodes that are on.                                        *)
THEOREM SecondPrepareKeepsLiveNetwork == Spec => []RepeatedPrepareKeepsLiveNetwork
<1>1. TypeOK /\ HInv => RepeatedPrepareKeepsLiveNetwork
  <2> DEFINE y == returned[2]
             z == returned[3]
  <2> SUFFICES ASSUME TypeOK, HInv, ~InCall
               PROVE  /\ [z EXCEPT !.nodeType = y.nodeType] = y
                      /\ \A i \in ActiveNodes(y) : z.nodeType[i] = y.nodeType[i]
    BY DEF RepeatedPrepareKeepsLiveNetwork
  <2>1. call = 5 /\ input \in Network /\ plan \in Plans
    BY Lengths, InputsAssumption DEF TypeOK, InCall
  <2>2. y = Prepared(cfg, plan, input) /\ z = Prepared(cfg, plan, y)
    BY <2>1 DEF HInv, Returns
  <2> HIDE DEF y, z
  <2>3. /\ y \in Network /\ z \in Network /\ SameStatus(z, y)
        /\ \A i \in Nodes : z.nodeType[i] # y.nodeType[i] => i \notin ActiveNodes(y)
    BY <2>1, <2>2, PrepareTwice
  <2>4. [z EXCEPT !.nodeType = y.nodeType] = y
    BY <2>3 DEF SameStatus, Network
  <2>5. \A i \in ActiveNodes(y) : z.nodeType[i] = y.nodeType[i]
    BY <2>3 DEF ActiveNodes
  <2>6. QED
    BY <2>4, <2>5
<1>2. QED
  BY <1>1, HInvAlways, PTL
=============================================================================
