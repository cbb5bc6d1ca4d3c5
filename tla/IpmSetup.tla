------------------------------ MODULE IpmSetup ------------------------------
(* preprocessing/ipm_setup.py: the problem of the interior point solvers.      *)
(*                                                                             *)
(* Box variables are a function from <<node, part, axis>> to                   *)
(* [lo, hi, init, prior, default]; prior 0 means no prior row.  The rows are a *)
(* set of [block, kind, part, obj, side, value, var, id, eq]: block "data"     *)
(* (kind as in the table), "balance", "prior" and "part" (kind the axis); rows *)
(* that are not data of the table have id 0.                                   *)
EXTENDS SolveTables

CONSTANTS
    DefaultHalf,    \* default_box_halfwidth_pu
    BusWidth,       \* bus_equiv_width_threshold_pu
    BusVar,         \* prior_sigma2_bus_equiv_pu
    HardFactor      \* hard_balance_rho_factor

Clamp(v, lo, hi) == Smallest(Largest(v, lo), hi)

\* Into the box with a margin of 1 %, at least one unit.
StartIn(v, lo, hi) ==
    LET margin == Largest((hi - lo) \div 100, 1) IN Clamp(v, lo + margin, hi - margin)

-----------------------------------------------------------------------------
(* Box variables. *)

\* is_reactive_only_generation.
NoActivePower(node) == node.box["gen"]["P"] = <<0, 0>> /\ Declared(node.box["gen"]["Q"])

ReactiveOnly(node) == node.input["gen"]["P"] = 0 /\ NoActivePower(node)

BoundPair(box) ==
    IF Unset(box) THEN [lo |-> -DefaultHalf, hi |-> DefaultHalf, default |-> TRUE]
    ELSE IF box[1] = box[2]
         THEN [lo |-> box[1] - DefaultHalf, hi |-> box[2] + DefaultHalf, default |-> TRUE]
         ELSE [lo |-> box[1], hi |-> box[2], default |-> FALSE]

PriorVar(b, cfg) ==
    IF ~b.default /\ b.hi - b.lo > BusWidth THEN BusVar ELSE cfg.normalVar

HasVar(node, part, axis) == node[part] /\ ~(part = "gen" /\ axis = "P" /\ ReactiveOnly(node))

BoxVars(nodes, cfg) ==
    [v \in {u \in Buses(nodes) \X Parts \X Axes : HasVar(nodes[u[1]], u[2], u[3])} |->
        LET b == BoundPair(nodes[v[1]].box[v[2]][v[3]])
        IN [lo |-> b.lo, hi |-> b.hi, default |-> b.default, prior |-> PriorVar(b, cfg),
            init |-> StartIn(nodes[v[1]].input[v[2]][v[3]], b.lo, b.hi)]]

-----------------------------------------------------------------------------
(* Injection roles. *)

PartRows(m, used, n, axis) ==
    {i \in used : m[i].kind = InjKind[axis] /\ m[i].obj = n /\ m[i].role # 0}

NetRows(m, used, n, axis) ==
    {i \in used : m[i].kind = InjKind[axis] /\ m[i].obj = n /\ m[i].role = 0}

\* The parts of a node are measured and every measured one has a variable.
Splits(m, used, vars, n, axis) ==
    /\ PartRows(m, used, n, axis) # {}
    /\ \A i \in PartRows(m, used, n, axis) : <<n, RolePart(m[i]), axis>> \in DOMAIN vars

\* The row that becomes the net row of a node without one: the first.
IsFolded(m, used, vars, i, n, axis) ==
    /\ ~Splits(m, used, vars, n, axis)
    /\ NetRows(m, used, n, axis) = {}
    /\ i = Min(PartRows(m, used, n, axis))

\* A sentinel side of a sensor range leaves the side of the node.
SensorSide(range, k) ==
    IF Unset(range) \/ range[k] \in {Sentinel, -Sentinel}
    THEN (IF k = 1 THEN -Inf ELSE Inf) ELSE range[k]

\* _apply_measured_box.
MeasuredBox(b, ranges) ==
    LET lo == Max({b.lo} \cup {SensorSide(r, 1) : r \in ranges})
        hi == Min({b.hi} \cup {SensorSide(r, 2) : r \in ranges})
    IN IF hi <= lo THEN [b EXCEPT !.prior = 0]
       ELSE [b EXCEPT !.prior = 0, !.lo = lo, !.hi = hi, !.init = StartIn(b.init, lo, hi)]

\* _prior_unmeasured_part.
UnmeasuredVar(b, part, measuredVar) ==
    LET width == b.hi - b.lo
    IN Largest(b.prior, IF part = "load" THEN (width * width) \div 12
                        ELSE IF b.default THEN measuredVar ELSE (width \div 2) * (width \div 2))

PlannedVars(m, used, vars, cfg) ==
    [v \in DOMAIN vars |->
        LET rows == PartRows(m, used, v[1], v[3])
            own == {i \in rows : RolePart(m[i]) = v[2]}
        IN IF ~Splits(m, used, vars, v[1], v[3]) THEN vars[v]
           ELSE IF own # {} THEN MeasuredBox(vars[v], {m[i].range : i \in own})
           ELSE IF ~cfg.partPrior THEN vars[v]
           ELSE [vars[v] EXCEPT !.prior =
                    UnmeasuredVar(vars[v], v[2], Min({m[i].var : i \in rows}))]]

DataRow(r, i) ==
    [block |-> "data", kind |-> r.kind, part |-> "none", obj |-> r.obj, side |-> r.side,
     value |-> r.value, var |-> r.var, id |-> i, eq |-> FALSE]

\* A net row kept beside the parts it is the sum of.
InjectionRowsNetKept(m, used, vars, i, axis) ==
    IF m[i].role = 0 THEN {DataRow(m[i], i)}
    ELSE {[DataRow(m[i], i) EXCEPT !.block = "part", !.kind = axis, !.part = RolePart(m[i])]}

\* What becomes of a row of an injection: none, one or the sum of a few.
InjectionRows(m, used, vars, i, axis) ==
    LET n == m[i].obj
        parts == PartRows(m, used, n, axis)
    IN IF m[i].role = 0
       THEN IF Splits(m, used, vars, n, axis) THEN {} ELSE {DataRow(m[i], i)}
       ELSE IF Splits(m, used, vars, n, axis)
       THEN {[DataRow(m[i], i) EXCEPT !.block = "part", !.kind = axis, !.part = RolePart(m[i])]}
       ELSE IF IsFolded(m, used, vars, i, n, axis)
       THEN {[DataRow(m[i], i) EXCEPT
                 !.value = SumFunction([k \in parts |-> m[k].role * m[k].value]),
                 !.var = SumFunction([k \in parts |-> m[k].var])]}
       ELSE {}

AxisOf(kind) == IF kind = "Pinj" THEN "P" ELSE "Q"

\* The rows of the readings, with the roles planned or not.
ReadingRows(m, used, vars, cfg) ==
    UNION {IF cfg.roles /\ m[i].kind \in InjectionKinds
           THEN InjectionRows(m, used, vars, i, AxisOf(m[i].kind))
           ELSE {DataRow(m[i], i)} : i \in used}

\* Part rows the plan has left out.
FoldedIds(m, used, vars, cfg) ==
    {i \in used : /\ cfg.roles /\ m[i].kind \in InjectionKinds /\ m[i].role # 0
                  /\ InjectionRows(m, used, vars, i, AxisOf(m[i].kind)) = {}}

-----------------------------------------------------------------------------
(* Balance and prior rows. *)

\* The injection of the parts that are not estimated.
FixedInjection(node, axis, cfg) ==
    LET fixed(part) == IF node[part] THEN 0 ELSE PartSign[part] * node.input[part][axis]
    IN IF cfg.fixed THEN fixed("gen") + fixed("load") ELSE 0

Transit(node) == ~node.gen /\ ~node.load

\* The injection of the node is bounded by data on every side.
Boxed(node, axis) ==
    /\ ~Transit(node)
    /\ \A part \in Parts :
          node[part] /\ ~(part = "gen" /\ axis = "P" /\ NoActivePower(node))
              => DeclaredOrPoint(node.box[part][axis])

\* Variances of balance rows around the median of the readings.
Around(data, scaled(_)) ==
    LET vars == [r \in data |-> r.var]
    IN IF data = {} THEN 1 ELSE Largest(scaled(Median(vars)), 1)

SoftVar(data, cfg) ==
    LET loosened(v) == v * cfg.loosen
    IN IF cfg.balance # None THEN cfg.balance ELSE Around(data, loosened)

HardVar(data) == LET hardened(v) == v \div HardFactor IN Around(data, hardened)

IsHard(node, cfg) == cfg.mode = "hard" \/ (cfg.transitMode = "hard" /\ Transit(node))

BalanceVar(node, axis, data, cfg) ==
    LET soft == SoftVar(data, cfg)
        tightened(k, applies) ==
            LET by(v) == v \div k
            IN IF k > 0 /\ applies /\ data # {} THEN Smallest(Around(data, by), soft) ELSE soft
    IN IF IsHard(node, cfg) THEN HardVar(data)
       ELSE Smallest(tightened(cfg.boxed, Boxed(node, axis)),
                     tightened(cfg.transit, Transit(node)))

BalanceRows(nodes, data, cfg) ==
    {[block |-> "balance", kind |-> a, part |-> "none", obj |-> n, side |-> -1,
      value |-> FixedInjection(nodes[n], a, cfg), var |-> BalanceVar(nodes[n], a, data, cfg),
      id |-> 0, eq |-> IsHard(nodes[n], cfg)] : n \in Buses(nodes), a \in Axes}

\* At the start of the variable, not at zero.
PriorRows(vars) ==
    {[block |-> "prior", kind |-> v[3], part |-> v[2], obj |-> v[1], side |-> -1,
      value |-> vars[v].init, var |-> vars[v].prior, id |-> 0, eq |-> FALSE] :
        v \in {u \in DOMAIN vars : vars[u].prior > 0}}

BuildIpmSetup(m, nodes, used, cfg) ==
    LET vars == BoxVars(nodes, cfg)
        planned == IF cfg.roles THEN PlannedVars(m, used, vars, cfg) ELSE vars
        rows == ReadingRows(m, used, vars, cfg)
        data == {r \in rows : r.block = "data"}
    IN [vars |-> planned,
        rows |-> rows \cup BalanceRows(nodes, data, cfg) \cup PriorRows(planned),
        dropped |-> FoldedIds(m, used, vars, cfg)]
=============================================================================
