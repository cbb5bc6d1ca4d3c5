--------------------------- MODULE VoltageRefine ---------------------------
(* v_refine.py and v_mirror.py: the V readings that agree with the solution   *)
(* are trusted more, and the flat priors of nodes nobody measures are lifted  *)
(* to the level of the measured network around them.                          *)
(*                                                                            *)
(* Voltages are in thousandths of the node's nominal; vm is the solution and  *)
(* vnom the voltage class, functions on the active nodes: those the earlier   *)
(* steps switched off have lost their branches.                               *)
EXTENDS MeasRows

CONSTANTS
    VRefineThreshold,   \* v_refine_rn, in sigmas
    VRefineDivisor,     \* 1 / v_refine_factor
    MaxPuDev, MinLift,
    CrossAtMinVnom,     \* _CROSS_AT_MIN_VNOM
    MaxDepth            \* v_mirror_chain_max_depth; the decay is one half

ASSUME VoltageAssumption ==
    VRefineDivisor \in Nat \ {0} /\ MaxPuDev \in Int /\ MinLift \in Int /\ MaxDepth \in Nat

Nominal == 1000

-----------------------------------------------------------------------------
(* v_refine                                                                   *)

Tighten(m) ==
    {i \in Rows(m, {"V"}, FALSE) :
        Abs(m[i].value - m[i].h) < VRefineThreshold * m[i].sigma}

ApplyVRefine(m, ids) ==
    [i \in DOMAIN m |->
        IF i \in ids THEN [m[i] EXCEPT !.sigma = @ \div VRefineDivisor] ELSE m[i]]

-----------------------------------------------------------------------------
(* v_mirror: clusters of nodes without a single real measurement.             *)

\* Mutant: any prior is a placeholder.
NodesWithPrior(m) == {m[i].obj : i \in Rows(m, {"V"}, TRUE)}

\* Active pseudo-V rows that still hold the nominal.
FlatNodes(m) == {m[i].obj : i \in {j \in Rows(m, {"V"}, TRUE) : m[j].value = Nominal}}

MeasuredNodes(m, net) ==
    UNION {NodesOf(net, m[i]) : i \in Rows(m, FlowKinds \cup InjectionKinds \cup {"V"}, FALSE)}

Blind(m, net, vm) == DOMAIN vm \ MeasuredNodes(m, net)

\* The component of a blind node among the blind ones.
Cluster(m, net, vm, n) ==
    LET blind == Blind(m, net, vm)
        Around(s) == UNION {Neighbours(net, ActiveBranches(net), k) : k \in s}
        within[d \in 0..Cardinality(blind)] ==
            IF d = 0 THEN {n}
            ELSE LET before == within[d - 1] IN before \cup (blind \cap Around(before))
    IN within[Cardinality(blind)]

Boundary(net, branches, cluster) ==
    (UNION {Neighbours(net, branches, n) : n \in cluster}) \ cluster

Transformers(net) == {b \in ActiveBranches(net) : net[b].trafo}

\* Boundary nodes whose level a node of the cluster may take over.
LevelSources(m, net, vnom, vm, cross_at, n) ==
    LET cluster == Cluster(m, net, vm, n)
        same == {b \in Boundary(net, ActiveBranches(net), cluster) : vnom[b] = vnom[n]}
        beyond == {b \in Boundary(net, Transformers(net), cluster) : vnom[b] >= CrossAtMinVnom}
    IN IF same = {} /\ cross_at /\ vnom[n] >= CrossAtMinVnom THEN beyond ELSE same

LevelOf(vm, nodes) == Median([b \in nodes |-> vm[b]])

Plausible(level) == Abs(level - Nominal) <= MaxPuDev

(* A plan is a function from nodes to the new value of their pseudo-V.        *)
VMirrorPlan(m, net, vnom, vm, cross_at) ==
    LET Sources(n) == LevelSources(m, net, vnom, vm, cross_at, n)
        target == [n \in {k \in FlatNodes(m) \cap Blind(m, net, vm) : Sources(k) # {}} |->
                      LevelOf(vm, Sources(n))]
    IN [n \in {k \in DOMAIN target : Plausible(target[k]) /\ target[k] - vm[k] > MinLift} |->
            target[n]]

-----------------------------------------------------------------------------
(* v_mirror_chain: fronts from the nodes with a live V reading.               *)

\* Mutant: levels cross every transformer.
ChainEdgesAcross(net, vnom, cross_at) == ActiveBranches(net)

ChainEdges(net, vnom, cross_at) ==
    {b \in ActiveBranches(net) :
        \/ vnom[net[b].from] = vnom[net[b].to]
        \/ /\ cross_at /\ net[b].trafo
           /\ vnom[net[b].from] >= CrossAtMinVnom /\ vnom[net[b].to] >= CrossAtMinVnom}

LiveSources(m, vm) ==
    {n \in {m[i].obj : i \in Rows(m, {"V"}, FALSE)} \cap DOMAIN vm : Plausible(vm[n])}

(* Front d: its nodes with the level each inherits undecayed, the median over *)
(* its neighbours in the front before; reached: all nodes up to it.           *)
Fronts(m, net, vnom, vm, cross_at) ==
    LET edges == ChainEdges(net, vnom, cross_at)
        front[d \in 0..MaxDepth] ==
            IF d = 0
            THEN [level |-> [n \in LiveSources(m, vm) |-> vm[n]],
                  reached |-> LiveSources(m, vm)]
            ELSE LET before == front[d - 1]
                     from == DOMAIN before.level
                     new == (UNION {Neighbours(net, edges, n) : n \in from}) \ before.reached
                 IN [level |-> [w \in new |->
                         Median([u \in from \cap Neighbours(net, edges, w) |->
                                    before.level[u]])],
                     reached |-> before.reached \cup new]
    IN front

\* 1 / decay^(d - 1)
Divisor[d \in 1..MaxDepth] == IF d = 1 THEN 1 ELSE 2 * Divisor[d - 1]

\* 1 + (pu - 1) * decay^(d - 1)
Decayed(level, d) == Nominal + (level - Nominal) \div Divisor[d]

ChainPlan(m, net, vnom, vm, cross_at) ==
    LET front == Fronts(m, net, vnom, vm, cross_at)
        depths == 1..MaxDepth
        Depth(n) == CHOOSE d \in depths : n \in DOMAIN front[d].level
        level == [n \in (UNION {DOMAIN front[d].level : d \in depths}) \cap FlatNodes(m) |->
                     front[Depth(n)].level[n]]
        target == [n \in {k \in DOMAIN level : Plausible(level[k])} |->
                      Decayed(level[n], Depth(n))]
    IN [n \in {k \in DOMAIN target : target[k] - vm[k] > MinLift} |-> target[n]]

\* Inactive pseudo-V rows are moved too.
ApplyVMirror(m, plan) ==
    [i \in DOMAIN m |->
        IF m[i].kind = "V" /\ m[i].pseudo /\ m[i].obj \in DOMAIN plan
        THEN [m[i] EXCEPT !.value = plan[m[i].obj]] ELSE m[i]]
=============================================================================
