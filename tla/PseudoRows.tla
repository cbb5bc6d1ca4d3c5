------------------------------ MODULE PseudoRows ------------------------------
(* preprocessing/mirror_voltage.py, pseudo_measurements.py and the node part   *)
(* of telemetry/apply_resolved.py: the rows that make every node observable.   *)
(* Beside its ranges a node carries the operating point genP, genQ, loadP,     *)
(* loadQ, the input voltage vm, the setpoint vset, its area, and whether a     *)
(* machine of it runs.  A branch is unit when it is a transformer of ratio     *)
(* one.                                                                        *)
EXTENDS MeasTable

CONSTANTS
    ZeroInjVariance, TransitVariance,
    EmptyFactor, LoadFactor, BoundaryFactor, ScopeFactor,
    MaxDeclared, MaxNegative    \* sanity caps of materialization

ActiveNodes(nodes) == {n \in DOMAIN nodes : nodes[n].status}

\* Mutant: rows that are switched off count as well.
HaveAny(m, kind) == {m[i].obj : i \in {j \in DOMAIN m : m[j].kind = kind}}

\* scan_node_meas_by_kind: real or pseudo, active.
Have(m, kind) ==
    {m[i].obj : i \in Rows(m, {kind}, FALSE) \cup Rows(m, {kind}, TRUE)}

RealV(m) == {m[i].obj : i \in Rows(m, {"V"}, FALSE)}

\* The last real V row of a node is the one that counts.
LastV(m, n) == Max({i \in Rows(m, {"V"}, FALSE) : m[i].obj = n})

-----------------------------------------------------------------------------
(* mirror_voltage_through_unit_tap_links: branch by branch, a node mirrored   *)
(* once is no longer bare, and a mirrored V is no source.                     *)

MirrorRow(m, source, node) ==
    PseudoRow("V", node, m[LastV(m, source)].value, m[LastV(m, source)].var)

\* What branch b adds to the rows mirrored so far.
Through(m, nodes, branches, rows, b) ==
    LET f == branches[b].from
        t == branches[b].to
        bare(n) == n \notin Have(m, "V") /\ \A j \in DOMAIN rows : rows[j].obj # n
    IN IF ~branches[b].status \/ ~branches[b].unit \/ ~({f, t} \subseteq ActiveNodes(nodes)) THEN <<>>
       ELSE IF f \in RealV(m) /\ bare(t) THEN <<MirrorRow(m, f, t)>>
       ELSE IF t \in RealV(m) /\ bare(f) THEN <<MirrorRow(m, t, f)>>
       ELSE <<>>

MirrorRows(m, nodes, branches) ==
    LET rows[b \in 0 .. Len(branches)] ==
            IF b = 0 THEN <<>>
            ELSE rows[b - 1] \o Through(m, nodes, branches, rows[b - 1], b)
    IN rows[Len(branches)]

-----------------------------------------------------------------------------
(* apply_materialize_resolved: an observed value goes to its node verbatim,   *)
(* other loads take the median share of their area.  range names the box of   *)
(* the load, "lp" or "lq".                                                    *)

Sane(box) == 0 < box[2] /\ box[2] <= MaxDeclared /\ box[1] >= -MaxNegative

ShareOf(nodes, obs, range, calibrated) ==
    Median([n \in calibrated |-> (100 * obs[n]) \div nodes[n][range][2]])

Filled(nodes, obs, range, n) ==
    LET calibrated == {k \in ActiveNodes(nodes) \cap DOMAIN obs : Sane(nodes[k][range])}
        ofArea == {k \in calibrated : nodes[k].area = nodes[n].area}
        share == IF ofArea # {} THEN ShareOf(nodes, obs, range, ofArea)
                 ELSE IF calibrated # {} THEN ShareOf(nodes, obs, range, calibrated)
                 ELSE 40
        box == nodes[n][range]
        value == (share * box[2]) \div 100
    IN IF value < box[1] THEN box[1] ELSE IF value > box[2] THEN box[2] ELSE value

LoadValue(nodes, obs, range, n, current) ==
    IF ~nodes[n].status THEN current
    ELSE IF n \in DOMAIN obs THEN obs[n]
    ELSE IF nodes[n].existLoad /\ Sane(nodes[n][range]) THEN Filled(nodes, obs, range, n)
    ELSE current

GenValue(nodes, obs, n, current) ==
    IF nodes[n].status /\ n \in DOMAIN obs THEN obs[n] ELSE current

Materialize(nodes, obs) ==
    [n \in DOMAIN nodes |->
        [nodes[n] EXCEPT !.loadP = LoadValue(nodes, obs.loadP, "lp", n, @),
                         !.loadQ = LoadValue(nodes, obs.loadQ, "lq", n, @),
                         !.genP = GenValue(nodes, obs.genP, n, @),
                         !.genQ = GenValue(nodes, obs.genQ, n, @)]]

-----------------------------------------------------------------------------
(* add_external_pseudo_measurements *)

ExternalRows(nodes, given) ==
    LET row(e) == PseudoRow(e.kind, e.node, e.value, e.var)
    IN FlattenSeq([j \in DOMAIN given |->
                      IF given[j].node \in ActiveNodes(nodes) THEN <<row(given[j])>> ELSE <<>>])

-----------------------------------------------------------------------------
(* add_pseudo_measurements *)

\* exist_load and exist_gen say something only if some node has one.
HaveProps(nodes) == \E n \in DOMAIN nodes : nodes[n].existLoad \/ nodes[n].existGen

Unloaded(n) == n.genP = 0 /\ n.loadP = 0 /\ n.genQ = 0 /\ n.loadQ = 0

EmptyModel(nodes) ==
    LET loaded == {n \in ActiveNodes(nodes) : ~Unloaded(nodes[n])}
    IN 100 * Cardinality(loaded) < Cardinality(ActiveNodes(nodes))

Transit(nodes, n) ==
    IF HaveProps(nodes) THEN ~nodes[n].existLoad /\ ~nodes[n].existGen
    ELSE Unloaded(nodes[n])

TightTransit(nodes, n, cfg) == cfg.tightTransit /\ HaveProps(nodes) /\ Transit(nodes, n)

AtSetpoint(nodes, n) ==
    HaveProps(nodes) /\ nodes[n].vset > 0 /\ (nodes[n].existGen \/ nodes[n].slack)

PriorV(nodes, n) ==
    IF AtSetpoint(nodes, n) THEN nodes[n].vset
    ELSE IF nodes[n].vm > 0 THEN nodes[n].vm ELSE nodes[n].vn

\* Neighbours of a node with a V row hold their voltage through the line.
Anchored(m, nodes, branches, n, cfg) ==
    /\ cfg.unobsFrac # None
    /\ Neighbours(branches, ActiveBranches(branches), n) \cap Have(m, "V") = {}
    /\ 100 * Abs(PriorV(nodes, n) - nodes[n].vn) >= cfg.minDeviation * nodes[n].vn

InScope(nodes, n, cfg) ==
    \/ cfg.scope = "all"
    \/ cfg.scope = "generation" /\ (nodes[n].existGen \/ nodes[n].slack \/ nodes[n].machine)

VarPriorV(m, nodes, branches, n, cfg) ==
    LET vn2 == nodes[n].vn * nodes[n].vn
        base == IF nodes[n].slack THEN CeilDiv(vn2, 10000)
                ELSE IF ~AtSetpoint(nodes, n) /\ Anchored(m, nodes, branches, n, cfg)
                     THEN CeilDiv(cfg.unobsFrac * cfg.unobsFrac * vn2, 100)
                ELSE CeilDiv(25 * vn2, 100)
    IN base * (IF InScope(nodes, n, cfg) THEN 1 ELSE ScopeFactor)

VPrior(m, nodes, branches, n, cfg) ==
    IF cfg.pseudoV /\ n \notin Have(m, "V") /\ nodes[n].vn > 0
    THEN <<PseudoRow("V", n, PriorV(nodes, n), VarPriorV(m, nodes, branches, n, cfg))>>
    ELSE <<>>

(* A load without data whose injection the measurements fix anyway: every     *)
(* active branch of the node carries a real flow (for Q, or V at both ends).  *)
Determined(m, nodes, branches, n, part) ==
    LET incident == {b \in ActiveBranches(branches) : n \in {branches[b].from, branches[b].to}}
        flow == IF part = "Pinj" THEN "P" ELSE "Q"
        metered(b) == \E i \in Rows(m, {flow}, FALSE) : m[i].obj = b
        bothV(b) == part = "Qinj" /\ {branches[b].from, branches[b].to} \subseteq RealV(m)
        box == IF part = "Pinj" THEN nodes[n].lp ELSE nodes[n].lq
        value == IF part = "Pinj" THEN nodes[n].loadP ELSE nodes[n].loadQ
    IN /\ nodes[n].existLoad
       /\ Unset(box) /\ value = 0
       /\ incident # {}
       /\ \A b \in incident : metered(b) \/ bothV(b)

InjectionBase(nodes, n) ==
    ZeroInjVariance * (IF EmptyModel(nodes)
                       THEN IF HaveProps(nodes) /\ Transit(nodes, n) THEN 10 ELSE EmptyFactor
                       ELSE IF Transit(nodes, n) THEN 1 ELSE LoadFactor)

\* A released injection leaves the whole generation range open.
RangeVariance(box, fallback) ==
    IF Declared(box)
    THEN Largest(fallback, CeilDiv(100 * (box[2] - box[1]) * (box[2] - box[1]), 4))
    ELSE 100 * fallback

VarInjectionPrior(m, nodes, branches, n, part, released, cfg) ==
    LET box == IF part = "Pinj" THEN nodes[n].gp ELSE nodes[n].gq
        open == IF <<n, part>> \in released THEN RangeVariance(box, InjectionBase(nodes, n))
                ELSE InjectionBase(nodes, n)
    IN open * (IF cfg.loosenUnknown /\ Determined(m, nodes, branches, n, part)
               THEN BoundaryFactor ELSE 1)

\* A node with a real P injection gets no Q prior either.
InjectionPriors(m, nodes, branches, n, released, cfg) ==
    LET prior(part, value) ==
            PseudoRow(part, n, value, VarInjectionPrior(m, nodes, branches, n, part, released, cfg))
        p == prior("Pinj", nodes[n].genP - nodes[n].loadP)
        q == prior("Qinj", nodes[n].genQ - nodes[n].loadQ)
    IN IF ~cfg.pseudoInjections THEN <<>>
       ELSE IF TightTransit(nodes, n, cfg)
            THEN <<PseudoRow("Pinj", n, 0, TransitVariance), PseudoRow("Qinj", n, 0, TransitVariance)>>
       ELSE IF n \in Have(m, "Pinj") THEN <<>>
       ELSE IF n \in Have(m, "Qinj") THEN <<p>>
       ELSE <<p, q>>

Priors(m, nodes, branches, released, cfg) ==
    FlattenSeq([n \in DOMAIN nodes |->
        IF ~nodes[n].status THEN <<>>
        ELSE VPrior(m, nodes, branches, n, cfg) \o InjectionPriors(m, nodes, branches, n, released, cfg)])
=============================================================================
