------------------------------- MODULE Pipeline -------------------------------
(***************************************************************************)
(* One run of the estimation pipeline: the step registry, the executor and *)
(* the post-solve passes that edit the working measurements and re-solve   *)
(* (gridstate/pipeline/{runner,steps,passes}.py, gridstate/resolve_pass.py *)
(* and refine_anti_overshoot of gridstate/post_processing.py).             *)
(*                                                                         *)
(* A solve is known by its serial number.  A working table is the serial   *)
(* of the solve whose numbers it holds (0: the input), the measurement     *)
(* table also the set of edits it carries.  What a solve ended with is     *)
(* drawn from Outcomes, so every sequence of converged, failed, out of     *)
(* range and overshooting solves is explored.                              *)
(***************************************************************************)
EXTENDS Naturals, FiniteSets, Sequences

CONSTANTS
  Nodes,        \* nodes that may overshoot the voltage ceiling
  Outcomes,     \* what a solve may end with: a set of Outcome records
  Configs,      \* the configurations explored: sets of switched-on toggles
  MaxIters      \* max_iters of refine_anti_overshoot

\* success: the solver's flag.  inRange: no state_range_violation.
\* ratio: max(V/Vnom) in steps of the 1e-4 acceptance margin.
\* high: active nodes without a real V reading above the ceiling.
Outcome == [success : BOOLEAN, inRange : BOOLEAN, ratio : Nat, high : SUBSET Nodes]

ASSUME OutcomesAssumption == Outcomes # {} /\ Outcomes \subseteq Outcome
ASSUME MaxItersAssumption == MaxIters \in Nat

-------------------------------------------------------------------------------
(* The registry *)

Step(name, toggle, derived, network) ==
  [name |-> name, toggle |-> toggle, derived |-> derived, network |-> network]

NoToggle == "always"

STEPS == <<
  Step("normalize_breakers",        "normalize_breakers",        FALSE, TRUE),
  Step("voltage_nominal",           "apply_voltage_nominal",     TRUE,  TRUE),
  Step("topology",                  "apply_topology",            TRUE,  TRUE),
  Step("rpn",                       "apply_rpn",                 TRUE,  TRUE),
  Step("reactors",                  "apply_reactors",            FALSE, TRUE),
  Step("telemetry",                 NoToggle,                    TRUE,  FALSE),
  Step("refine_slack",              "refine_slack",              FALSE, TRUE),
  Step("refine_node_types",         "refine_node_types",         FALSE, TRUE),
  Step("disable_orphan_branches",   "disable_orphan_branches",   FALSE, TRUE),
  Step("disable_disconnected",      "disable_disconnected",      FALSE, TRUE),
  Step("disable_isolated",          "disable_isolated",          FALSE, TRUE),
  Step("generator_status",          "apply_generator_status",    FALSE, TRUE),
  Step("voltage_range_filter",      "apply_voltage_range_filter", FALSE, FALSE),
  Step("refine_node_types_2",       "refine_node_types",         FALSE, FALSE),
  Step("aggregate_generators",      "aggregate_generators",      FALSE, FALSE),
  Step("release_load_only_injections", "release_load_only_injections", TRUE, FALSE),
  Step("relax_generation_min_to_injection", "relax_generation_min_to_injection", TRUE, FALSE),
  Step("widen_generation_only_injections", "widen_generation_only_injections", TRUE, FALSE),
  Step("gen_v_calibration",         "apply_gen_v_calibration",   FALSE, FALSE),
  Step("deactivate_orphan_measurements", "deactivate_orphan_measurements", FALSE, FALSE),
  Step("mirror_voltage",            "mirror_voltage_unit_tap",   FALSE, FALSE),
  Step("materialize",               "materialize",               TRUE,  FALSE),
  Step("external_pseudo",           "external_pseudo",           TRUE,  FALSE),
  Step("add_pseudo",                "add_pseudo",                FALSE, FALSE),
  Step("flow_sigma_floor",          NoToggle,                    FALSE, FALSE),
  Step("estimate",                  NoToggle,                    FALSE, FALSE),
  Step("bad_data_repass",           "bad_data",                  FALSE, FALSE),
  Step("v_refine",                  "v_refine",                  FALSE, FALSE),
  Step("v_mirror",                  "v_mirror",                  FALSE, FALSE),
  Step("v_mirror_chain",            "v_mirror_chain",            FALSE, FALSE),
  Step("refine_merged",             "refine_merge",              FALSE, FALSE),
  Step("anti_overshoot",            "anti_overshoot",            FALSE, FALSE) >>

MergedInto    == {"v_refine", "v_mirror", "v_mirror_chain"}
ResolvePasses == MergedInto \cup {"bad_data_repass", "refine_merged"}
Stages        == MergedInto \cup {"bad_data"}

\* Plans of DerivedInputs a step cannot do without.
Plans == {"voltage_nominal", "topology_resolved", "telemetry_resolved", "telemetry_arg_keys"}
TelemetryPlans == {"telemetry_resolved", "telemetry_arg_keys"}

\* Mutant: the argument keys of the telemetry plan are not required.
RequiredPlansWithoutKeys(name) ==
  CASE name = "voltage_nominal" -> {"voltage_nominal"}
    [] name = "topology"        -> {"topology_resolved"}
    [] name = "telemetry"       -> {"telemetry_resolved"}
    [] OTHER                    -> {}

\* _REQUIRED_DERIVED_PLANS of the runner.
RequiredPlans(name) ==
  CASE name = "voltage_nominal" -> {"voltage_nominal"}
    [] name = "topology"        -> {"topology_resolved"}
    [] name = "telemetry"       -> TelemetryPlans
    [] OTHER                    -> {}

\* The plans whose absence a step adapter turns into _missing_plan.
DemandedPlans(name) ==
  CASE name \in {"release_load_only_injections", "relax_generation_min_to_injection",
                 "widen_generation_only_injections"} -> TelemetryPlans
    [] name = "voltage_nominal" -> {"voltage_nominal"}
    [] name = "topology"        -> {"topology_resolved"}
    [] name = "telemetry"       -> TelemetryPlans
    [] OTHER                    -> {}

-------------------------------------------------------------------------------
VARIABLES
  entry,      \* "run" or "prepare" (prepare_network)
  cfg,        \* the switched-on toggles, plus "injection_roles"
  given,      \* derived is not None
  derived,    \* the plans it carries
  phase,      \* where the executor, or the pass it is in, stands
  pos,        \* index of the current step in STEPS
  pending,    \* stages the current pass has still to classify
  nodes,      \* node table: solve written, and what its V/delta look like
  branches,   \* branch table: serial of the solve whose flows it holds
  meas,       \* measurement table: solve of estimated_si, and the edits
  solves,     \* solves made so far
  result,     \* ctx.result; solve = 0 stands for None
  base,       \* base result of the pass
  armed,      \* the pass has taken its snapshot
  snap,       \* the snapshot
  tightened,  \* nodes anti-overshoot has given tight priors
  round,      \* anti-overshoot rounds done
  verdict,    \* what the last pass reported of itself
  summary,    \* the solve the quality summary was computed on (0: none)
  final       \* success of the "final" event ("unsent" before it)

control  == <<entry, cfg, given, derived>>
tables   == <<nodes, branches, meas>>
passVars == <<pending, base, armed, snap, tightened, round>>
outVars  == <<summary, final>>
vars == <<control, phase, pos, tables, solves, result, passVars, verdict, outVars>>

Edits   == Stages \cup Nodes
NoResult == [solve |-> 0, success |-> FALSE, edits |-> {}]
Tables  == [nodes |-> nodes, branches |-> branches, meas |-> meas]

cur == STEPS[pos]

Init ==
  /\ entry \in {"run", "prepare"}
  /\ cfg \in Configs
  /\ given \in BOOLEAN
  /\ derived \in SUBSET Plans
  /\ ~given => derived = {}
  /\ phase = "start" /\ pos = 1
  /\ nodes = [solve |-> 0, inRange |-> TRUE, ratio |-> 0, high |-> {}]
  /\ branches = 0
  /\ meas = [solve |-> 0, edits |-> {}]
  /\ solves = 0
  /\ result = NoResult
  /\ pending = <<>> /\ base = NoResult /\ armed = FALSE /\ snap = Tables
  /\ tightened = {} /\ round = 0
  /\ verdict = "none"
  /\ summary = 0 /\ final = "unsent"

-------------------------------------------------------------------------------
(* The executor *)

StepOn(s) == s.toggle = NoToggle \/ s.toggle \in cfg

\* _check_derived_consistency: the plans enabled steps would miss.
MissingPlans ==
  UNION {RequiredPlans(STEPS[i].name) \ derived : i \in
           {j \in DOMAIN STEPS : /\ StepOn(STEPS[j])
                                 /\ entry = "prepare" => STEPS[j].network}}

\* run / prepare_network before the step loop.
CheckDerived ==
  /\ phase = "start"
  /\ phase' = IF given /\ MissingPlans # {} THEN "raised" ELSE "step"
  /\ UNCHANGED <<control, pos, tables, solves, result, passVars, verdict, outVars>>

\* The executor calls step.fn for the current step.
Runs == /\ phase = "step"
        /\ pos <= Len(STEPS)
        /\ entry = "prepare" => cur.network
        /\ StepOn(cur)
        /\ cur.derived => given

Advance(v) == /\ phase' = "step"
              /\ pos' = pos + 1
              /\ verdict' = v

\* step_skipped (toggle off, or no derived inputs), and the steps that are
\* not in the network subset of prepare_network.
SkipStep ==
  /\ phase = "step"
  /\ pos <= Len(STEPS)
  /\ ~Runs
  /\ Advance("skipped")
  /\ UNCHANGED <<control, tables, solves, result, passVars, outVars>>

\* A preparation step adapter: it may skip itself, and edits tables the
\* passes never roll back.
PrepStep ==
  /\ Runs
  /\ cur.name \notin ResolvePasses \cup {"estimate", "anti_overshoot"}
  /\ \/ DemandedPlans(cur.name) \subseteq derived
     \/ /\ "injection_roles" \in cfg
        /\ cur.name \in {"release_load_only_injections", "widen_generation_only_injections"}
  /\ Advance("done")
  /\ UNCHANGED <<control, tables, solves, result, passVars, outVars>>

\* _missing_plan: a step was reached without the plan it demands.
PlanMissing ==
  /\ Runs
  /\ ~(DemandedPlans(cur.name) \subseteq derived)
  /\ cur.name \in {"release_load_only_injections", "widen_generation_only_injections"}
       => "injection_roles" \notin cfg

\* Any step, solve or summary may raise: step_error is sent and run re-raises,
\* so the caller sees neither the result nor the working copy.
StepRaises ==
  /\ \/ Runs
     \/ phase \in {"stages", "resolve", "settle", "ao_round", "ao_resolve", "ao_judge", "summary"}
  /\ phase' = "raised"
  /\ UNCHANGED <<control, pos, tables, solves, result, passVars, verdict, outVars>>

-------------------------------------------------------------------------------
(* Solves *)

\* gridstate.api.estimate on the working copy: V/delta and node estimates,
\* flows and measurement estimates are all overwritten.
WriteSolve(o) ==
  /\ solves' = solves + 1
  /\ nodes' = [solve |-> solves + 1, inRange |-> o.inRange, ratio |-> o.ratio, high |-> o.high]
  /\ branches' = solves + 1
  /\ meas' = [meas EXCEPT !.solve = solves + 1]

Solved(success) == [solve |-> solves + 1, success |-> success, edits |-> meas.edits]

\* _s_estimate: a state out of range fails the result whatever the solver says.
Estimate ==
  /\ Runs
  /\ cur.name = "estimate"
  /\ \E o \in Outcomes :
       /\ WriteSolve(o)
       /\ result' = Solved(o.success /\ o.inRange)
  /\ Advance("done")
  /\ UNCHANGED <<control, passVars, outVars>>

\* _warm_resolve: ctx.result is replaced before anything is decided.
WarmResolve(o) == WriteSolve(o) /\ result' = Solved(o.success)

\* Mutant: the measurements keep the estimates and edits of the rejected solve.
RestoreWithoutMeas ==
  /\ nodes' = snap.nodes
  /\ branches' = snap.branches
  /\ meas' = meas
  /\ result' = base

\* ResolvePass.revert: the three tables and the base result come back.
Restore ==
  /\ nodes' = snap.nodes
  /\ branches' = snap.branches
  /\ meas' = snap.meas
  /\ result' = base

-------------------------------------------------------------------------------
(* _resolve_pass *)

IfOn(stage) == IF stage \in cfg THEN <<stage>> ELSE <<>>

MERGED_STAGES == IfOn("v_refine") \o IfOn("v_mirror") \o IfOn("v_mirror_chain")

StagesOf(name) ==
  CASE name = "refine_merged"   -> MERGED_STAGES
    [] name = "bad_data_repass" -> <<"bad_data">>
    [] OTHER                    -> <<name>>

RunsPass == Runs /\ cur.name \in ResolvePasses /\ result # NoResult

\* Folded into the merged step, or the base solution is unusable.
SkipPass ==
  /\ RunsPass
  /\ \/ "refine_merge" \in cfg /\ cur.name \in MergedInto
     \/ ~result.success
  /\ Advance("skipped")
  /\ UNCHANGED <<control, tables, solves, result, passVars, outVars>>

StartPass ==
  /\ RunsPass
  /\ ~("refine_merge" \in cfg /\ cur.name \in MergedInto)
  /\ result.success
  /\ phase' = "stages"
  /\ pending' = StagesOf(cur.name)
  /\ base' = result
  /\ armed' = FALSE
  /\ UNCHANGED <<control, pos, tables, solves, result, snap, tightened, round, verdict, outVars>>

\* stage.classify gave an empty plan.
EmptyPlan ==
  /\ phase = "stages"
  /\ pending # <<>>
  /\ pending' = Tail(pending)
  /\ UNCHANGED <<control, phase, pos, tables, solves, result, base, armed, snap,
                 tightened, round, verdict, outVars>>

\* arm (idempotent) and stage.apply.
ApplyPlan ==
  /\ phase = "stages"
  /\ pending # <<>>
  /\ armed' = TRUE
  /\ snap' = IF armed THEN snap ELSE Tables
  /\ meas' = [meas EXCEPT !.edits = @ \cup {Head(pending)}]
  /\ pending' = Tail(pending)
  /\ UNCHANGED <<control, phase, pos, nodes, branches, solves, result, base,
                 tightened, round, verdict, outVars>>

\* No plan was applied: the model is untouched.
NothingApplied ==
  /\ phase = "stages" /\ pending = <<>> /\ ~armed
  /\ Advance("skipped")
  /\ UNCHANGED <<control, tables, solves, result, passVars, outVars>>

StagesDone ==
  /\ phase = "stages" /\ pending = <<>> /\ armed
  /\ phase' = "resolve"
  /\ UNCHANGED <<control, pos, tables, solves, result, passVars, verdict, outVars>>

PassResolve ==
  /\ phase = "resolve"
  /\ \E o \in Outcomes : WarmResolve(o)
  /\ phase' = "settle"
  /\ UNCHANGED <<control, pos, passVars, verdict, outVars>>

\* Mutant: the two results are swapped.
resolve_improved(before, after) == after.success /\ ~before.success

resolve_regressed(before, after) == before.success /\ ~after.success

\* Mutant: the range of the state is not looked at.
KeptOnConvergence == ~resolve_regressed(base, result)

\* What settle keeps.
Kept == nodes.inRange /\ ~resolve_regressed(base, result)

Settle ==
  /\ phase = "settle"
  /\ IF Kept
       THEN Advance("accepted") /\ UNCHANGED <<tables, result>>
       ELSE Advance("reverted") /\ Restore
  /\ UNCHANGED <<control, solves, passVars, outVars>>

-------------------------------------------------------------------------------
(* _s_anti_overshoot and refine_anti_overshoot *)

RunsAntiOvershoot == Runs /\ cur.name = "anti_overshoot" /\ result # NoResult

\* Mutant: anti-overshoot starts from any state.
StartableAlways == TRUE

\* _s_anti_overshoot checks the range of the base state.
Startable == nodes.inRange

AntiOvershootSkip ==
  /\ RunsAntiOvershoot
  /\ ~Startable
  /\ Advance("skipped")
  /\ UNCHANGED <<control, tables, solves, result, passVars, outVars>>

\* Armed eagerly; there is no guard on base.success.
AntiOvershootStart ==
  /\ RunsAntiOvershoot
  /\ Startable
  /\ phase' = "ao_round"
  /\ base' = result
  /\ armed' = TRUE
  /\ snap' = Tables
  /\ tightened' = {}
  /\ round' = 0
  /\ UNCHANGED <<control, pos, tables, solves, result, pending, verdict, outVars>>

Newly == nodes.high \ tightened

\* Mutant: one round too many.
RoundLeftAfterLast == round <= MaxIters

RoundLeft == round < MaxIters

\* One round: tight P/Q priors on the newly found nodes.
AddPriors ==
  /\ phase = "ao_round"
  /\ RoundLeft
  /\ Newly # {}
  /\ meas' = [meas EXCEPT !.edits = @ \cup Newly]
  /\ tightened' = tightened \cup Newly
  /\ round' = round + 1
  /\ phase' = "ao_resolve"
  /\ UNCHANGED <<control, pos, nodes, branches, solves, result, pending, base, armed,
                 snap, verdict, outVars>>

RoundsOver ==
  /\ phase = "ao_round"
  /\ ~RoundLeft \/ Newly = {}
  /\ phase' = "ao_judge"
  /\ UNCHANGED <<control, pos, tables, solves, result, passVars, verdict, outVars>>

\* The rounds end on a state out of range or when max V/Vnom did not drop.
AntiOvershootResolve ==
  /\ phase = "ao_resolve"
  /\ \E o \in Outcomes :
       /\ WarmResolve(o)
       /\ phase' = IF o.inRange /\ o.ratio < snap.nodes.ratio THEN "ao_round" ELSE "ao_judge"
  /\ UNCHANGED <<control, pos, passVars, verdict, outVars>>

\* Mutant: a refinement is judged by the voltages alone.
AcceptedByRatio == /\ tightened # {}
                   /\ nodes.inRange
                   /\ nodes.ratio < snap.nodes.ratio

\* Self-validation of the refinement.
Accepted == /\ tightened # {}
            /\ result.success
            /\ nodes.inRange
            /\ nodes.ratio < snap.nodes.ratio

AntiOvershootJudge ==
  /\ phase = "ao_judge"
  /\ IF Accepted
       THEN Advance("accepted") /\ UNCHANGED <<tables, result>>
       ELSE Advance("rejected") /\ Restore
  /\ UNCHANGED <<control, solves, passVars, outVars>>

-------------------------------------------------------------------------------
(* The tail of run, and of prepare_network *)

StepsOver ==
  /\ phase = "step"
  /\ pos > Len(STEPS)
  /\ phase' = IF entry = "run" THEN "summary" ELSE "returned"
  /\ UNCHANGED <<control, pos, tables, solves, result, passVars, verdict, outVars>>

\* Mutant: the summary is computed whatever the state.
SummaryAlways == meas.solve

\* The solve the quality summary is computed on.
SummarySolve == IF nodes.inRange THEN meas.solve ELSE 0

\* The quality summary is computed on the tables; out of range it is skipped
\* and the result is failed.
QualitySummary ==
  /\ phase = "summary"
  /\ result # NoResult
  /\ summary' = SummarySolve
  /\ result' = [result EXCEPT !.success = @ /\ nodes.inRange]
  /\ phase' = "final"
  /\ UNCHANGED <<control, pos, tables, solves, passVars, verdict, final>>

Final ==
  /\ phase = "final"
  /\ final' = IF result.success THEN "success" ELSE "failure"
  /\ phase' = "returned"
  /\ UNCHANGED <<control, pos, tables, solves, result, passVars, verdict, summary>>

Ended == phase \in {"returned", "raised"} /\ UNCHANGED vars

Next ==
  \/ CheckDerived \/ SkipStep \/ PrepStep \/ StepRaises
  \/ Estimate
  \/ SkipPass \/ StartPass \/ EmptyPlan \/ ApplyPlan \/ NothingApplied
  \/ StagesDone \/ PassResolve \/ Settle
  \/ AntiOvershootSkip \/ AntiOvershootStart \/ AddPriors \/ RoundsOver
  \/ AntiOvershootResolve \/ AntiOvershootJudge
  \/ StepsOver \/ QualitySummary \/ Final
  \/ Ended

Spec == Init /\ [][Next]_vars

-------------------------------------------------------------------------------
(* Properties *)

InPass  == {"stages", "resolve", "settle", "ao_round", "ao_resolve", "ao_judge"}
Settled == {"start", "step", "summary", "final", "returned"}
Verdicts == {"none", "skipped", "done", "accepted", "reverted", "rejected"}

NodeTable   == [solve : Nat, inRange : BOOLEAN, ratio : Nat, high : SUBSET Nodes]
MeasTable   == [solve : Nat, edits : SUBSET Edits]
TablesType  == [nodes : NodeTable, branches : Nat, meas : MeasTable]
ResultType  == [solve : Nat, success : BOOLEAN, edits : SUBSET Edits]

\* Type invariant of the run context, the tables and the pass in progress.
TypeOK ==
  /\ entry \in {"run", "prepare"}
  /\ given \in BOOLEAN
  /\ derived \in SUBSET Plans
  /\ phase \in InPass \cup Settled \cup {"raised"}
  /\ pos \in 1..(Len(STEPS) + 1)
  /\ phase \in InPass => pos <= Len(STEPS)
  /\ pending \in Seq(Stages)
  /\ nodes \in NodeTable
  /\ branches \in Nat
  /\ meas \in MeasTable
  /\ solves \in Nat
  /\ result \in ResultType
  /\ base \in ResultType
  /\ armed \in BOOLEAN
  /\ snap \in TablesType
  /\ tightened \in SUBSET Nodes
  /\ round \in 0..MaxIters
  /\ verdict \in Verdicts
  /\ summary \in Nat
  /\ final \in {"unsent", "success", "failure"}

\* The tables t hold exactly the solve r, on exactly the edits r was solved with.
Describes(r, t) ==
  /\ t.nodes.solve = r.solve
  /\ t.branches = r.solve
  /\ t.meas.solve = r.solve
  /\ t.meas.edits = r.edits

\* Between steps the current result describes the working tables: after a
\* rejected pass no edit, flow or estimate of the rejected solve is left behind
\* (revert of ResolvePass; "inconsistent with the base V/delta" of
\* refine_anti_overshoot), and after an accepted one none is missing.
ResultDescribesTables == phase \in Settled => Describes(result, Tables)

\* Between steps a result that reports success has a state that can be
\* converted back to per unit: no pass and no step lets an out-of-range state
\* through under a success flag (fail_out_of_range, settle, refine_anti_overshoot).
SuccessIsInRange == phase \in Settled /\ result.success => nodes.inRange

\* No warm re-solve is ever started from an out-of-range node table: the passes
\* rely on each other's guards for it, none of them checks it just before the
\* solve ("no later solve can start from it", resolve_pass.py).
ResolveStartsInRange == phase \in {"resolve", "ao_resolve"} => nodes.inRange

\* An accepted pass leaves a converged solution in range, and anti-overshoot
\* one with a lower max(V/Vnom) than it started from, however many rounds it took.
AcceptanceIsEarned ==
  phase = "step" /\ verdict = "accepted" =>
    /\ result.success
    /\ nodes.inRange
    /\ STEPS[pos - 1].name = "anti_overshoot" => nodes.ratio < snap.nodes.ratio

\* What a caller is handed: the quality summary was computed on the solve that
\* is returned, it is missing exactly when the state is out of range, and the
\* "final" event told the truth about success.
ReturnedResultIsCoherent ==
  phase = "returned" /\ entry = "run" =>
    /\ final = (IF result.success THEN "success" ELSE "failure")
    /\ summary = (IF nodes.inRange THEN result.solve ELSE 0)
    /\ result.success => summary = result.solve

\* With derived inputs that passed the consistency check, no step ever stops
\* for a missing plan: _REQUIRED_DERIVED_PLANS covers what the adapters demand,
\* in the full run and in the network subset.
NoPlanIsMissing == ~PlanMissing

AnswerOf(r) == IF r = NoResult THEN "none"
               ELSE IF r.success THEN "usable" ELSE "unusable"

answer == IF phase = "raised" THEN "raised"
          ELSE IF phase \in InPass THEN AnswerOf(base) ELSE AnswerOf(result)

Policy == INSTANCE ResolvePolicy WITH answer <- answer

\* The run implements the acceptance policy: seen from the outside, a usable
\* solution is never replaced by an unusable one, whatever the passes try.
ImplementsPolicy == Policy!Spec

===============================================================================
