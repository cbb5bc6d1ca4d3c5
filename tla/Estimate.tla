------------------------------ MODULE Estimate ------------------------------
(* api.py: one call of estimate, from the tables to the tables.                *)
(*                                                                             *)
(* A case is [nodes, branches, rows, cfg, points]; the solver returns one of   *)
(* its points, [flow, volt, gen, load]: the flow of every branch by axis, the  *)
(* voltage of every node and whether the generation and the load variables     *)
(* come out low, at their start or high in their boxes.                        *)
EXTENDS Supernodes, NodeBalance

CONSTANTS
    Cases,
    LowVoltage      \* implausible_v_ratio

RowFields == {"kind", "obj", "side", "pseudo", "status", "value", "var", "quality", "role", "range", "est"}
NodeFields == {"status", "slack", "priority", "vn", "gen", "load", "box", "input", "est", "calc",
               "imb", "vm", "solved", "lc"}
BranchFields == {"from", "to", "status", "z", "ratio", "flow"}

\* What a call comes with: the tables of the contract, numbers in the columns
\* that hold numbers, and one of the solvers.
IsCase(c) ==
    /\ IsFiniteSet(DOMAIN c.rows) /\ DOMAIN c.rows \subseteq Nat \ {0}
    /\ IsFiniteSet(DOMAIN c.nodes) /\ DOMAIN c.nodes \subseteq Nat
    /\ IsFiniteSet(DOMAIN c.branches) /\ DOMAIN c.branches \subseteq Nat
    /\ \A i \in DOMAIN c.rows :
          /\ DOMAIN c.rows[i] = RowFields
          /\ c.rows[i].kind \in FlowKinds \cup InjectionKinds \cup {"V"}
          /\ c.rows[i].range \in Int \X Int
    /\ \A n \in DOMAIN c.nodes :
          /\ DOMAIN c.nodes[n] = NodeFields /\ c.nodes[n].status \in BOOLEAN
          /\ c.nodes[n].input \in [Parts -> [Axes -> Int]]
          /\ c.nodes[n].box \in [Parts -> [Axes -> Int \X Int]]
    /\ \A b \in DOMAIN c.branches : DOMAIN c.branches[b] = BranchFields /\ c.branches[b].ratio \in Int
    /\ \A p \in c.points :
          /\ p.flow \in [DOMAIN c.branches -> [FlowKinds -> Int]]
          /\ p.volt \in [DOMAIN c.nodes -> Int]
    /\ c.cfg.alg \in {"wls", "ipm", "ipm_pd"}

ASSUME CasesAssumption == \A c \in Cases : IsCase(c)

\* Bounds and defaults are numbers, and an estimate that is None is none.
ASSUME NumbersAssumption == None \notin Int /\ {Sentinel, Inf, DefaultHalf} \subseteq Int

VARIABLES
    case,
    pc,
    m, nodes, branches,     \* model.measurements, nodes, branches
    prob,       \* the problem of the call: [lines, sn, used, setup, solved]
    sol,        \* None or the answer: [flow, volt, box, success, status, fallback]
    roleEst,    \* role_estimates: id -> estimate
    result      \* None or the SEResult: [success, status, fallback, used, objective, summary]

evars == <<case, pc, m, nodes, branches, prob, sol, roleEst, result>>
tables == <<case, m, nodes, branches>>

cfg == case.cfg

EstimateInit ==
    /\ case \in Cases
    /\ pc = "call"
    /\ m = case.rows /\ nodes = case.nodes /\ branches = case.branches
    /\ prob = None /\ sol = None /\ roleEst = <<>> /\ result = None

-----------------------------------------------------------------------------
(* The problem. *)

Rejected == cfg.alg = "wls" /\ cfg.merge # None

\* The rows of wls: the readings.
BaseProblem(used) ==
    [vars |-> <<>>, rows |-> {DataRow(m[i], i) : i \in used}, dropped |-> {}]

Assemble ==
    /\ pc = "call"
    /\ LET edges == MergedBranches(nodes, branches, cfg.merge)
           lines == Lines(nodes, branches, edges)
           used == UsedRows(WithoutFlows(m, edges), nodes, lines)
           setup == IF cfg.alg = "wls" THEN BaseProblem(used) ELSE BuildIpmSetup(m, nodes, used, cfg)
           sn == Supernodes(nodes, branches, edges)
       IN IF Rejected \/ NetworkFails(nodes) THEN pc' = "failed" /\ UNCHANGED prob
          ELSE /\ pc' = cfg.alg
               /\ prob' = [lines |-> lines, sn |-> sn, used |-> used, setup |-> setup,
                           solved |-> ReduceRows(setup.rows, setup.vars, sn)]
    /\ sol' = None /\ roleEst' = <<>> /\ result' = None
    /\ UNCHANGED tables

-----------------------------------------------------------------------------
(* The solver. *)

PdStatuses == {"KKT", "STALLED", "MAX_ITER", "ERROR"}
IpmAnswers == {<<TRUE, "KKT">>, <<TRUE, "MU_SCHEDULE_DONE">>, <<FALSE, "STALLED">>, <<FALSE, "ERROR">>}
WlsAnswers == {<<TRUE, "KKT">>, <<TRUE, "TR_COLLAPSED">>, <<FALSE, "MAX_ITER">>}

InBox(b, place) == CASE place = "low" -> b.lo [] place = "start" -> b.init [] OTHER -> b.hi

\* The state of the supernodes expanded to the nodes.
Answer(point, success, status, fallback) ==
    [flow |-> point.flow,
     volt |-> [n \in Buses(nodes) |-> point.volt[prob.sn.rep[n]] + prob.sn.scale[n]],
     box |-> [v \in DOMAIN prob.setup.vars |-> InBox(prob.setup.vars[v], point[v[2]])],
     success |-> success, status |-> status, fallback |-> fallback]

SolvePd ==
    /\ pc = "ipm_pd"
    /\ \E status \in PdStatuses, point \in case.points :
          IF status = "KKT"
          THEN sol' = Answer(point, TRUE, status, FALSE) /\ pc' = "boxes"
          ELSE UNCHANGED sol /\ pc' = "fallback"
    /\ UNCHANGED <<tables, prob, roleEst, result>>

\* Of its own right, or the safety net of ipm_pd.
SolveIpm ==
    /\ pc \in {"ipm", "fallback"}
    /\ \E answer \in IpmAnswers, point \in case.points :
          sol' = Answer(point, answer[1], answer[2], pc = "fallback")
    /\ pc' = "boxes"
    /\ UNCHANGED <<tables, prob, roleEst, result>>

SolveWls ==
    /\ pc = "wls"
    /\ \E answer \in WlsAnswers, point \in case.points :
          sol' = Answer(point, answer[1], answer[2], FALSE)
    /\ pc' = "results"
    /\ UNCHANGED <<tables, prob, roleEst, result>>

-----------------------------------------------------------------------------
(* The box variables. *)

BoxValue(n, part, a) == IF <<n, part, a>> \in DOMAIN sol.box THEN sol.box[<<n, part, a>>] ELSE 0

\* The injection of a node by its box variables.
Injected(n, a) ==
    FixedInjection(nodes[n], a, cfg) + BoxValue(n, "gen", a) - BoxValue(n, "load", a)

\* What a bus sends through the merged branches: the residual of its balance.
Outflow == [a \in Axes |-> [n \in Buses(nodes) |->
              Injected(n, a) - Sent(branches, prob.lines, sol.flow, a, n)]]

\* _free_injection_pairs: only the balance ties generation and load.
FreePair(n, a) ==
    /\ \A part \in Parts : <<n, part, a>> \in DOMAIN sol.box
    /\ ~\E r \in prob.setup.rows : r.block \in {"prior", "part"} /\ r.obj = n /\ r.kind = a

WrittenBox(n, part, a) ==
    IF cfg.split = "generation_first" /\ FreePair(n, a)
    THEN SplitFree(BoxValue(n, "gen", a) - BoxValue(n, "load", a),
                   nodes[n].box["gen"][a], nodes[n].box["load"][a])[part]
    ELSE BoxValue(n, part, a)

\* A part without a variable keeps what the table has.
BoxEstimates ==
    [n \in DOMAIN nodes |->
        [nodes[n] EXCEPT !.est = [part \in Parts |-> [a \in Axes |->
            IF <<n, part, a>> \in DOMAIN sol.box THEN WrittenBox(n, part, a) ELSE @[part][a]]]]]

PartEstimates ==
    LET parts == {r \in prob.setup.rows : r.block = "part"}
        of(i) == CHOOSE r \in parts : r.id = i
    IN [i \in {r.id : r \in parts} |-> BoxValue(of(i).obj, of(i).part, of(i).kind)]

\* Injections of members, measured on their boxes.
ConvertedEstimates ==
    LET rows == {r \in prob.solved : r.form = "converted"}
        of(i) == CHOOSE r \in rows : r.id = i
    IN [i \in {r.id : r \in rows} |-> Injected(of(i).obj, AxisOf(of(i).kind))]

Lost == DroppedIds(prob.setup.rows, prob.setup.vars, prob.sn)

WriteBoxes ==
    /\ pc = "boxes"
    /\ nodes' = BoxEstimates
    /\ roleEst' = [i \in Lost \cup prob.setup.dropped
                            \cup DOMAIN ConvertedEstimates \cup DOMAIN PartEstimates |->
                      IF i \in Lost THEN None
                      ELSE IF i \in DOMAIN ConvertedEstimates THEN ConvertedEstimates[i]
                      ELSE IF i \in prob.setup.dropped THEN None
                      ELSE PartEstimates[i]]
    /\ pc' = "results"
    /\ UNCHANGED <<case, m, branches, prob, sol, result>>

-----------------------------------------------------------------------------
(* The results. *)

Success ==
    /\ IF cfg.policy = "status" THEN sol.status \in {"KKT", "MU_SCHEDULE_DONE"} ELSE sol.success
    /\ \A n \in Buses(nodes) : sol.volt[n] >= LowVoltage

WriteResults ==
    /\ pc = "results"
    /\ LET flows == MergedFlows(nodes, branches, prob.sn, Outflow)
       IN /\ nodes' = MergedNodeResults(
                 NodeResults(nodes, branches, prob.lines, sol.flow, sol.volt), branches, prob.sn, flows)
          /\ branches' = MergedBranchResults(BranchResults(branches, prob.lines, sol.flow), flows)
    /\ pc' = "rows"
    /\ UNCHANGED <<case, m, prob, sol, roleEst, result>>

\* h of a row of the measurement vector at V and the angles.
Evaluated(r) ==
    CASE r.kind \in InjectionKinds -> Sent(branches, prob.lines, sol.flow, AxisOf(r.kind), r.obj)
      [] r.kind = "V" -> sol.volt[r.obj]
      [] OTHER -> IF r.side = 0 THEN sol.flow[r.obj][r.kind] ELSE -sol.flow[r.obj][r.kind]

\* The part estimates written first and overwritten by those of z.
WriteMeasurementsPartsFirst ==
    /\ pc = "rows"
    /\ m' = [i \in DOMAIN m |-> [m[i] EXCEPT !.est =
                IF i \in prob.used THEN Evaluated(m[i])
                ELSE IF i \in DOMAIN roleEst THEN roleEst[i] ELSE None]]
    /\ pc' = IF cfg.alg = "wls" THEN "split" ELSE "balance"
    /\ UNCHANGED <<case, nodes, branches, prob, sol, roleEst, result>>

\* write_measurement_estimates, then write_part_estimates over it.
WriteMeasurements ==
    /\ pc = "rows"
    /\ m' = [i \in DOMAIN m |-> [m[i] EXCEPT !.est =
                IF i \in DOMAIN roleEst THEN roleEst[i]
                ELSE IF i \in prob.used THEN Evaluated(m[i]) ELSE None]]
    /\ pc' = IF cfg.alg = "wls" THEN "split" ELSE "balance"
    /\ UNCHANGED <<case, nodes, branches, prob, sol, roleEst, result>>

SplitWls ==
    /\ pc = "split"
    /\ nodes' = ApplyLoadCharacteristic(SplitInjections(nodes))
    /\ pc' = "balance"
    /\ UNCHANGED <<case, m, branches, prob, sol, roleEst, result>>

Reconcile ==
    /\ pc = "balance"
    /\ nodes' = IF cfg.reconcile THEN ReconcileNodeBalance(nodes, cfg.respect) ELSE nodes
    /\ pc' = "return"
    /\ UNCHANGED <<case, m, branches, prob, sol, roleEst, result>>

\* The rows _wls_objective adds up.
Objective ==
    BaseIds(m, prob.used, prob.sn) \cup {r.id : r \in {q \in prob.solved : q.form = "converted"}}

\* The summary ranks the rows the solver ran on, where they differ from z.
SummaryIds ==
    {i \in IF prob.sn.edges # {} \/ prob.setup.dropped # {}
              \/ \E r \in prob.setup.rows : r.block = "part"
           THEN {r.id : r \in prob.solved} \ {0}
           ELSE prob.used : ~m[i].pseudo}

Return ==
    /\ pc = "return"
    /\ result' = [success |-> Success, status |-> sol.status, fallback |-> sol.fallback,
                  used |-> prob.used, objective |-> Objective, summary |-> SummaryIds]
    /\ pc' = "done"
    /\ UNCHANGED <<tables, prob, sol, roleEst>>

EstimateNext ==
    \/ Assemble \/ SolvePd \/ SolveIpm \/ SolveWls \/ WriteBoxes
    \/ WriteResults \/ WriteMeasurements \/ SplitWls \/ Reconcile \/ Return
-----------------------------------------------------------------------------
(* Properties. *)

\* The readings of an injection, and the rows of the solver made from them.
ReadingsOf(n, a) == {i \in prob.used : m[i].kind = InjKind[a] /\ m[i].obj = n}
CarriersOf(n, a) == {r \in prob.solved : r.id \in ReadingsOf(n, a)}

(* Every reading of an injection enters the problem once: as it stands, or as *)
(* the measured parts of the node, or, without both, as one row with the      *)
(* signed sum of the parts.  A net reading and the parts it is the sum of are *)
(* never both fitted, a part row always has its variable, and a reading is    *)
(* lost only where a supernode has nothing to measure it on.  Every bus has   *)
(* one balance per axis, alone or within its supernode (ipm_setup.py 293-400  *)
(* and supernodes.py 347-449, two passes over the rows that each drop some).  *)
ReadingsEnterOnce ==
    prob = None \/
    /\ \A n \in Buses(nodes), a \in Axes :
        LET ids == ReadingsOf(n, a)
            parts == {i \in ids : m[i].role # 0 /\ cfg.roles /\ cfg.alg # "wls"}
            rows == CarriersOf(n, a)
            own == {r \in rows : r.block = "part"}
        IN /\ \A i \in ids : Cardinality({r \in rows : r.id = i}) <= 1
           /\ own # {} => /\ own = rows /\ {r.id : r \in own} = parts
                          /\ \A r \in own : <<n, r.part, a>> \in DOMAIN prob.setup.vars
           /\ own = {} /\ rows # {} =>
                 IF parts # ids THEN {r.id : r \in rows} = ids \ parts
                 ELSE /\ Cardinality(rows) = 1
                      /\ \A r \in rows : r.value = SumFunction([i \in parts |-> m[i].role * m[i].value])
           /\ ids # {} /\ rows = {} => IsMerged(prob.sn, n) /\ ~HasBox(prob.setup.vars, n, a)
    /\ cfg.alg # "wls" =>
        \A n \in Buses(nodes), a \in Axes :
            LET carriers == {r \in prob.solved : /\ r.block = "balance" /\ r.kind = a
                                                /\ r.obj \in Members(prob.sn, n)}
                given == [k \in Members(prob.sn, n) |-> FixedInjection(nodes[k], a, cfg)]
            IN /\ Cardinality(carriers) = 1
               /\ \A r \in carriers : r.value = SumFunction(given)

\* The last number the bounds leave to the part that takes the residual up.
AtItsBound(n, a) ==
    LET taker == Taker(nodes[n])
        box == nodes[n].box[taker][a]
    IN ~nodes[n][taker] \/ (a = "P" /\ NoActivePower(nodes[n])) \/ nodes[n].est[taker][a] \in {box[1], box[2]}

(* The results that are written agree with each other: the flows written on   *)
(* the branches, merged ones included, add up to the injection of every bus,  *)
(* the written generation and load are that injection unless a bound holds    *)
(* them, and merged buses have one voltage up to the ratio between them       *)
(* (units.py 369, supernodes.py 457-551, post_processing.py 508: three writers*)
(* over the same columns).                                                    *)
BalanceCloses ==
    pc \in {"return", "done"} =>
    /\ \A n \in Buses(nodes), a \in Axes :
        LET flow == [b \in ActiveBranches(branches) |-> branches[b].flow]
        IN /\ nodes[n].calc[a] = Sent(branches, prob.lines \cup prob.sn.edges, flow, a, n)
           /\ cfg.reconcile =>
                 \/ nodes[n].est["gen"][a] - nodes[n].est["load"][a] = nodes[n].calc[a]
                 \/ cfg.respect /\ AtItsBound(n, a)
           /\ IsMerged(prob.sn, n) /\ prob.sn.rep[n] # n => nodes[n].calc[a] = Injected(n, a)
    /\ \A b \in Forest(nodes, branches, prob.sn.edges) :
        nodes[branches[b].from].vm - nodes[branches[b].to].vm = branches[b].ratio

\* What a row measures, by the tables and the variables of the answer.
Described(i) ==
    LET r == m[i]
        a == AxisOf(r.kind)
        part == \E q \in prob.solved : q.id = i /\ q.block = "part"
        fitted == \E q \in prob.solved : q.id = i
    IN /\ part => r.est = BoxValue(r.obj, RolePart(r), a)
       /\ r.kind = "V" => r.est = nodes[r.obj].vm
       /\ r.kind \in FlowKinds =>
             r.est = (IF r.side = 0 THEN 1 ELSE -1) * branches[r.obj].flow[r.kind]
       /\ r.kind \in InjectionKinds /\ ~part =>
             IF IsMerged(prob.sn, r.obj) THEN ~fitted \/ r.est = Injected(r.obj, a)
             ELSE r.est = nodes[r.obj].calc[a]

(* The estimate of a row is of the quantity the row measures, the rows that   *)
(* are not used have none, and the summary and, without injection roles, the  *)
(* objective speak of the rows that have one (api.py 311-327, 414-456 and     *)
(* 533-698: the estimates of z are overlaid by those of the parts and of the  *)
(* members).  The net row of a merged node whose parts are measured is left   *)
(* out: its estimate is that of the reduced network.                          *)
EstimatesDescribeRows ==
    pc \in {"split", "balance", "return", "done"} =>
    /\ \A i \in DOMAIN m : m[i].est # None => i \in prob.used /\ Described(i)
    /\ {r.id : r \in prob.solved} \ {0} \subseteq {i \in DOMAIN m : m[i].est # None}
    /\ result # None =>
        /\ cfg.roles \/ result.objective = {i \in DOMAIN m : m[i].est # None}
        /\ result.summary = {r.id : r \in {q \in prob.solved : q.id # 0 /\ ~m[q.id].pseudo}}
=============================================================================
