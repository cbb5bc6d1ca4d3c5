----------------------------- MODULE MeasFilters -----------------------------
(* The steps that judge applied readings against what the network says of      *)
(* them: telemetry/voltage_filter.py, load_only_injection.py, measurements.py  *)
(* and sigma_floor.py.  fixed is the set of row ids whose variance is final.   *)
(* A node has ranges gp, gq, lp, lq as <<lo, hi>>, voltages vn, vcrit, vmin,   *)
(* vmax, and flags status, slack, existGen, existLoad.                         *)
EXTENDS MeasTable

CONSTANTS
    MinFilterVn,        \* voltage_filter_min_nominal_kv
    UpperMargin,        \* upper_margin_pct
    UpperFallback,      \* upper_fallback_factor, in percent
    PhysicalLow, PhysicalHigh,  \* nonphysical factors, in percent
    GenVSigma2,         \* GEN_V_SIGMA2
    RelaxSigma          \* RELAX_SIGMA

VoltageRows(m) == Rows(m, {"V"}, FALSE) \cup Rows(m, {"V"}, TRUE)

-----------------------------------------------------------------------------
(* apply_voltage_range_filter, with the pipeline's action "downweight".       *)

\* Twice the lower limit: a limit under half the nominal is a placeholder.
Lower2(n) ==
    IF 2 * n.vcrit >= n.vn THEN 2 * n.vcrit
    ELSE IF 2 * n.vmin >= n.vn THEN 2 * n.vmin
    ELSE n.vn

OutOfRange(v, n) ==
    \/ v <= 0
    \/ 2 * v < Lower2(n)
    \/ 100 * v > (IF n.vmax > 0 THEN n.vmax * (100 + UpperMargin) ELSE n.vn * UpperFallback)

NonPhysical(v, n) ==
    v <= 0 \/ 100 * v < n.vn * PhysicalLow \/ 100 * v > n.vn * PhysicalHigh

Downweighted(row) ==
    [row EXCEPT !.var = @ * QuestionableFactor, !.quality = Questionable]

Checked(m, nodes) ==
    {i \in VoltageRows(m) : /\ m[i].obj \in DOMAIN nodes
                            /\ nodes[m[i].obj].vn > 0
                            /\ nodes[m[i].obj].vn >= MinFilterVn}

RangeFilter(m, nodes, fixed, cfg) ==
    [i \in DOMAIN m |->
        LET n == nodes[m[i].obj]
        IN IF i \notin Checked(m, nodes) THEN m[i]
           ELSE IF cfg.nonPhysical /\ NonPhysical(m[i].value, n)
                THEN [m[i] EXCEPT !.status = FALSE]
           ELSE IF OutOfRange(m[i].value, n) /\ m[i].id \notin fixed THEN Downweighted(m[i])
           ELSE m[i]]

-----------------------------------------------------------------------------
(* apply_voltage_meas_calibration_for_gen_nodes.                              *)

HoldsVoltage(n) ==
    n.status /\ (n.slack \/ (n.gp[2] # 0 /\ n.gp[2] \notin {-Sentinel, Sentinel}))

\* Mutant: a reading under suspicion is calibrated like any other.
GenVoltageAnyQuality(m, nodes, fixed, cfg) ==
    [i \in DOMAIN m |->
        IF i \in VoltageRows(m) /\ m[i].obj \in DOMAIN nodes /\ HoldsVoltage(nodes[m[i].obj])
             /\ m[i].id \notin fixed
        THEN [m[i] EXCEPT !.var = GenVSigma2] ELSE m[i]]

GenVoltage(m, nodes, fixed, cfg) ==
    [i \in DOMAIN m |->
        IF /\ i \in VoltageRows(m)
           /\ m[i].obj \in DOMAIN nodes /\ HoldsVoltage(nodes[m[i].obj])
           /\ m[i].quality = Good
           /\ m[i].id \notin fixed
           /\ ~(cfg.tighten /\ m[i].var <= GenVSigma2)
        THEN [m[i] EXCEPT !.var = GenVSigma2]
        ELSE m[i]]

-----------------------------------------------------------------------------
(* Injections measured in part. *)

InjectionReadings(m, part) == Rows(m, {part}, FALSE)

Generating(nodes) ==
    {n \in DOMAIN nodes : nodes[n].status /\ nodes[n].existGen /\ Declared(nodes[n].gp)}

\* The rows that release_load_only_injections switches off.
ReleasedRows(m, nodes, plan) ==
    UNION {{i \in InjectionReadings(m, part) : m[i].obj \in LoadOnly(plan, part) \cap Generating(nodes)} :
              part \in InjectionKinds}

Release(m, nodes, plan) ==
    [i \in DOMAIN m |-> IF i \in ReleasedRows(m, nodes, plan)
                        THEN [m[i] EXCEPT !.status = FALSE, !.flag = "load_only"] ELSE m[i]]

ReleasedNodes(m, nodes, plan) ==
    {<<m[i].obj, m[i].kind>> : i \in ReleasedRows(m, nodes, plan)}

-----------------------------------------------------------------------------
(* relax_generation_min_to_injection: the first P reading of a node.          *)

FirstReading(m, n) ==
    LET hits == {i \in InjectionReadings(m, "Pinj") : m[i].obj = n}
    IN CHOOSE i \in hits : \A j \in hits : i <= j

\* Mutant: a generation-only reading is taken with the load box of its node.
LoadBoxOfNode(nodes, n, plan) ==
    IF ~nodes[n].existLoad THEN <<0, 0>>
    ELSE IF DeclaredOrPoint(nodes[n].lp) THEN nodes[n].lp ELSE None

\* The load box the reading is to be taken with; None: unknown.
LoadBox(nodes, n, plan) ==
    IF n \in GenerationOnly(plan, "Pinj") \/ ~nodes[n].existLoad THEN <<0, 0>>
    ELSE IF DeclaredOrPoint(nodes[n].lp) THEN nodes[n].lp
    ELSE None

\* How far the reading and the most load miss the minimum generation.
Shortfall(m, nodes, n, plan) ==
    Resolve(nodes[n].gp)[1] - m[FirstReading(m, n)].value - LoadBox(nodes, n, plan)[2]

RuledOut(m, nodes, n, plan) ==
    /\ Resolve(nodes[n].gp)[1] > 0
    /\ LoadBox(nodes, n, plan) # None
    /\ Beyond(Shortfall(m, nodes, n, plan), RelaxSigma, m[FirstReading(m, n)].var)

Relax(m, nodes, plan) ==
    [n \in DOMAIN nodes |->
        IF /\ nodes[n].status /\ nodes[n].existGen
           /\ \E i \in InjectionReadings(m, "Pinj") : m[i].obj = n
           /\ RuledOut(m, nodes, n, plan)
        THEN LET row == m[FirstReading(m, n)]
                 lowest == row.value + LoadBox(nodes, n, plan)[1]
                              - Sigmas(Shortfall(m, nodes, n, plan), RelaxSigma, row.var)
             IN [nodes[n] EXCEPT !.gp[1] = IF lowest < 0 THEN lowest ELSE 0]
        ELSE nodes[n]]

-----------------------------------------------------------------------------
(* widen_generation_only_injections. *)

LoadRange(n, part) == IF part = "Pinj" THEN n.lp ELSE n.lq

\* Readings of generation alone on a live node that also has load.
Partial(m, nodes, plan) ==
    UNION {{i \in InjectionReadings(m, part) :
               /\ m[i].obj \in GenerationOnly(plan, part) \cap DOMAIN nodes
               /\ nodes[m[i].obj].status /\ nodes[m[i].obj].existLoad} : part \in InjectionKinds}

\* Mutant: a final variance is widened like any other.
WidenAll(m, nodes, plan, fixed) ==
    [i \in DOMAIN m |->
        LET box == LoadRange(nodes[m[i].obj], m[i].kind)
        IN IF i \notin Partial(m, nodes, plan) \/ ~(Declared(box) \/ Unset(box)) THEN m[i]
           ELSE IF Unset(box) THEN [m[i] EXCEPT !.status = FALSE, !.flag = "gen_only"]
           ELSE [m[i] EXCEPT !.value = @ - (box[1] + box[2]) \div 2, !.var = @ + VarUniform(box)]]

Widen(m, nodes, plan, fixed) ==
    [i \in DOMAIN m |->
        LET box == LoadRange(nodes[m[i].obj], m[i].kind)
        IN IF i \notin Partial(m, nodes, plan) \/ ~(Declared(box) \/ Unset(box)) THEN m[i]
           ELSE IF Unset(box) THEN [m[i] EXCEPT !.status = FALSE, !.flag = "gen_only"]
           ELSE [m[i] EXCEPT !.value = @ - (box[1] + box[2]) \div 2,
                             !.var = IF m[i].id \in fixed THEN @ ELSE @ + VarUniform(box)]]

-----------------------------------------------------------------------------
(* deactivate_orphan_measurements *)

Live(row, nodes, branches) ==
    IF row.kind \in FlowKinds
    THEN row.obj \in DOMAIN branches /\ branches[row.obj].status
    ELSE row.obj \in DOMAIN nodes /\ nodes[row.obj].status

Orphans(m, nodes, branches) ==
    [i \in DOMAIN m |-> [m[i] EXCEPT !.status = @ /\ Live(m[i], nodes, branches)]]

(* apply_flow_sigma_floor: the floor follows the channel scale, sqrt(3) of    *)
(* the larger nominal voltage; switched off rows are raised as well.          *)
MaxVn(nodes, branch) ==
    LET vn(n) == IF n \in DOMAIN nodes THEN nodes[n].vn ELSE 0
    IN Largest(vn(branch.from), vn(branch.to))

Floor(row, nodes, branches, cfg) ==
    IF row.obj \notin DOMAIN branches THEN 0
    ELSE CeilDiv(3 * cfg.floor * cfg.floor * MaxVn(nodes, branches[row.obj]) * MaxVn(nodes, branches[row.obj]), 100)

FlowFloor(m, nodes, branches, fixed, cfg) ==
    [i \in DOMAIN m |->
        IF /\ cfg.floor > 0
           /\ m[i].kind \in {"P", "Q"} /\ ~m[i].pseudo /\ m[i].id \notin fixed
        THEN [m[i] EXCEPT !.var = Largest(@, Floor(m[i], nodes, branches, cfg))]
        ELSE m[i]]
=============================================================================
