--------------------------- MODULE TelemetryApply ---------------------------
(* telemetry/apply_resolved.py: a telemetry plan laid over the rows of the     *)
(* measurement table.  Nodes and branches are functions from ids; branch b has *)
(* charging power b.charging and a series loss (P^2 + Q^2) \div b.lossDiv      *)
(* (0: no reactance).  cfg holds the options of the call.                      *)
EXTENDS MeasTable

CONSTANTS
    SignThreshold,      \* sign_inconsistency_threshold_mw
    QFloor, QRelPct,    \* q_loss_filter_floor_mvar, _rel_pct
    QLossFactor         \* q_loss_filter_downweight_factor

\* KIND_MAP: the row a voltage or flow reading goes to.
Place == [v |-> <<"V", -1>>, p_from |-> <<"P", 0>>, p_to |-> <<"P", 1>>,
          q_from |-> <<"Q", 0>>, q_to |-> <<"Q", 1>>]

\* A kind of neither table is skipped.
IsPlaced(key) == key[2] \in DOMAIN Place

IsQ(key) == key[2] \in {"q_from", "q_to"}
IsFlow(key) == IsQ(key) \/ key[2] \in {"p_from", "p_to"}

Target(m, key) == RowAt(m, Place[key[2]][1], Place[key[2]][2], key[1])

-----------------------------------------------------------------------------
(* The pre-passes look at values whatever their quality. *)

Value(plan, b, kind) ==
    IF <<b, kind, 0>> \in DOMAIN plan THEN plan[<<b, kind, 0>>].value ELSE None

BothEnds(plan, b, from, to) == Value(plan, b, from) # None /\ Value(plan, b, to) # None

SignInconsistent(plan, b, cfg) ==
    /\ cfg.signCheck
    /\ BothEnds(plan, b, "p_from", "p_to")
    /\ Abs(Value(plan, b, "p_from") + Value(plan, b, "p_to")) >= SignThreshold

TypicalP(plan, b) ==
    Max({0} \cup {Abs(Value(plan, b, k)) : k \in {e \in {"p_from", "p_to"} : Value(plan, b, e) # None}})

\* The Q that the pi model of the branch gives or takes.
ExpectedQ(branch, p, q) ==
    Abs(branch.charging
          - (IF branch.lossDiv = 0 THEN 0 ELSE (p * p + q * q) \div branch.lossDiv))

FromVn(nodes, branch) == IF branch.from \in DOMAIN nodes THEN nodes[branch.from].vn ELSE 0

QInconsistent(plan, nodes, branches, b, cfg) ==
    /\ cfg.qFilter # "off"
    /\ b \in DOMAIN branches
    /\ BothEnds(plan, b, "q_from", "q_to")
    /\ FromVn(nodes, branches[b]) > 0
    /\ LET observed == Value(plan, b, "q_from") + Value(plan, b, "q_to")
           expected == ExpectedQ(branches[b], TypicalP(plan, b), observed \div 2)
       IN 100 * Abs(Abs(observed) - expected) > Largest(100 * QFloor, QRelPct * expected)

-----------------------------------------------------------------------------
(* One voltage or flow reading. *)

NodeVn(nodes, n) == IF n \in DOMAIN nodes THEN nodes[n].vn ELSE 220

(* What becomes of the row of a reading: it is activated, left with a filter  *)
(* flag, or left alone.                                                       *)
Verdict(plan, nodes, branches, key, cfg) ==
    LET reading == plan[key]
        b == key[1]
    IN IF IsFlow(key) /\ SignInconsistent(plan, b, cfg) THEN "p_sign"
       ELSE IF /\ IsQ(key) /\ cfg.qFilter = "deactivate"
               /\ QInconsistent(plan, nodes, branches, b, cfg) THEN "q_loss"
       ELSE IF IsFlow(key) /\ (b \notin DOMAIN branches \/ ~branches[b].status) THEN "skip"
       ELSE IF reading.value = None THEN "skip"
       ELSE IF reading.quality = Bad THEN "bad_quality"
       ELSE IF /\ key[2] = "v" /\ cfg.halfCheck
               /\ 2 * Abs(reading.value) < NodeVn(nodes, b) THEN "half_nominal"
       ELSE "activate"

Builtin(nodes, branches, key, value) ==
    CASE key[2] = "v" -> VarVoltage(NodeVn(nodes, key[1]))
      [] IsQ(key) -> VarBranchQ(value, IF FromVn(nodes, branches[key[1]]) > 0
                                       THEN branches[key[1]].charging ELSE 0)
      [] OTHER -> VarPower(value, 2, 100)

(* The variance of an activated row: an external variance that is final takes *)
(* none of the adjustments.                                                   *)
Variance(plan, nodes, branches, key, cfg) ==
    LET reading == plan[key]
        base == IF reading.ext # None THEN reading.ext
                ELSE Builtin(nodes, branches, key, reading.value)
        doubt == IF reading.quality = Questionable THEN QuestionableFactor ELSE 1
        loss == IF IsQ(key) /\ QInconsistent(plan, nodes, branches, key[1], cfg)
                THEN QLossFactor ELSE 1
    IN IF reading.ext # None /\ cfg.final THEN base
       ELSE CeilDiv(base * doubt * reading.scale, 100) * loss

Activated(row, plan, nodes, branches, key, cfg) ==
    [row EXCEPT !.status = TRUE,
                !.value = plan[key].value,
                !.quality = plan[key].quality,
                !.var = Variance(plan, nodes, branches, key, cfg),
                !.flag = IF IsQ(key) /\ QInconsistent(plan, nodes, branches, key[1], cfg)
                         THEN "q_loss" ELSE @]

\* Every row is switched off first; only what the plan covers comes back.
ApplyReadings(m, plan, nodes, branches, cfg) ==
    [i \in DOMAIN m |->
        LET off == [m[i] EXCEPT !.status = FALSE]
            keys == {k \in DOMAIN plan : IsPlaced(k) /\ Target(m, k) = i}
            key == CHOOSE k \in keys : TRUE
            verdict == Verdict(plan, nodes, branches, key, cfg)
        IN IF keys = {} \/ verdict = "skip" THEN off
           ELSE IF verdict = "activate" THEN Activated(off, plan, nodes, branches, key, cfg)
           ELSE [off EXCEPT !.flag = verdict]]

-----------------------------------------------------------------------------
(* Injection rows: the components of a node and a part, summed; with roles    *)
(* one more row for the generation and for the load.                          *)

Covered(plan, keys) == \A k \in keys : plan[k].ext # None

ExternalSum(plan, keys) == SumFunction([k \in keys |-> plan[k].ext])

\* Under a final external variance every component needs one: ValueError.
PartlyCovered(plan, cfg) ==
    /\ cfg.final
    /\ \E n \in {k[1] : k \in DOMAIN plan}, part \in InjectionKinds :
          LET keys == Components(plan, n, part)
          IN ~Covered(plan, keys) /\ \E k \in keys : plan[k].ext # None

InjectionRow(plan, keys, part, role, cfg) ==
    LET signed == [k \in keys |-> IF role = 0 THEN Sign[k[2]] * plan[k].value
                                  ELSE plan[k].value]
        value == SumFunction(signed)
        quality == Max({plan[k].quality : k \in keys})
        base == IF Covered(plan, keys) THEN ExternalSum(plan, keys)
                ELSE VarInjection(value, part)
        doubt == IF quality = Questionable /\ ~(Covered(plan, keys) /\ cfg.final)
                 THEN QuestionableFactor ELSE 1
        node == CHOOSE n \in {k[1] : k \in keys} : TRUE
    IN NodeRow(part, node, value, base * doubt, quality, FALSE, role)

InjectionRows(plan, cfg) ==
    LET groups(role) ==
            {g \in {<<{k \in Components(plan, n, p) : role \in {0, Sign[k[2]]}}, p>> :
                       n \in {k[1] : k \in DOMAIN plan}, p \in InjectionKinds} :
                g[1] # {}}
        rows(role) == {InjectionRow(plan, g[1], g[2], role, cfg) : g \in groups(role)}
    IN SetToSeq(rows(0))
         \o (IF cfg.roles THEN SetToSeq(rows(1)) \o SetToSeq(rows(-1)) ELSE <<>>)

Telemetry(m, plan, nodes, branches, cfg) ==
    AddMany(ApplyReadings(m, plan, nodes, branches, cfg), InjectionRows(plan, cfg), AfterMax(m))

(* fixed_sigma2_ids: the rows whose variance is external and final.           *)
FinalIds(m, plan, nodes, branches, cfg) ==
    LET applied == Telemetry(m, plan, nodes, branches, cfg)
        keysOf(row) ==
            IF row.kind \in InjectionKinds
            THEN {k \in Components(plan, row.obj, row.kind) : row.part \in {0, Sign[k[2]]}}
            ELSE {k \in DOMAIN plan : IsPlaced(k) /\ Place[k[2]] = <<row.kind, row.side>>
                                                 /\ k[1] = row.obj}
    IN IF ~cfg.final THEN {}
       ELSE {applied[i].id : i \in {j \in DOMAIN applied :
                /\ applied[j].status
                /\ keysOf(applied[j]) # {} /\ Covered(plan, keysOf(applied[j]))}}
=============================================================================
