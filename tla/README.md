# TLA+ models of gridstate

gridstate estimates the state of a power network: it takes a network, telemetry
and derived plans, cleans them in a fixed sequence of steps, solves a weighted
least squares problem, tries to improve the answer in several passes and reports
its quality. It is a sequential program; nothing runs concurrently and nothing is
persisted. What makes it hard is *state that is edited in place by long, mostly
optional sequences of steps*, each of which relies on what the others left:

* one call has about 30 steps, nearly all with a toggle;
* a pass edits the measurements, re-solves *in the same tables*, and must take
  everything back when the outcome is not better;
* solvers keep radius, damping, multipliers and cached factorizations across
  iterations, and end for half a dozen reasons that are told apart afterwards.

The modules here model that control. Numbers are kept only as far as a decision
depends on them.

## 1. Inventory

Sources are under `src/gridstate/`.

| Component | Sources | State | Operations | Interactions | Hard behaviour, and what makes it correct |
|---|---|---|---|---|---|
| Registry and executor | `pipeline/{runner,steps,context,preparation}.py` | the run context: working copy, derived plans, result | `run`, `prepare_network`, one step after another | calls every other component; shares the tables with all | toggles against plans; the final report describes the answer that is returned |
| Post-solve passes | `pipeline/passes.py`, `resolve_pass.py` | snapshot, base result, edits | classify, apply, warm re-solve, settle or revert | reads estimates of the last solve, writes measurements, calls the solver | partial failure: a rejected pass leaves no trace, a usable answer is never lost |
| Anti-overshoot | `post_processing.py` | tightened nodes, round | rounds of priors and re-solves | as the passes, with an own acceptance rule | many exits of the round loop; accepted only if really better |
| Network preparation | `topology.py`, `telemetry/on_line.py`, `telemetry/generators.py` | status of nodes, branches, machines; node types; generation | seven steps, two of them twice | every step reads what the others wrote | order; one round is enough; repetition changes nothing |
| Per-unit conversion | `units.py` | none | tables to per unit | has a slack rule of its own | the two slack rules agree |
| WLS solver | `algorithms/wls.py`, `status.py` | iterate, trust region, damping, counters | iterate, accept, reject, stop | KKT solver; status read by the passes | races between limits, stale flags, termination |
| IPM solver | `algorithms/ipm.py` | iterate, barrier, multipliers, flags | outer and inner loop, line search | KKT solver | early exits, flags read after the loops |
| Primal-dual IPM | `algorithms/ipm_pd.py` | iterate, slacks, duals, regularisation | predictor, corrector, merit search | KKT solver (one factor, several solves) | factor life time, regularisation up and down |
| KKT solver | `algorithms/kkt_solver.py`, `_gram_numba.py` | superset pattern, matrix, symbolic factor, mode | solve, factor, switch mode | used by all solvers | stale cache, failure cascade, two paths that must agree |
| Bad data | `validation/bad_data.py`, `bad_data_repass.py` | measurement status, value, variance | remove, flip, damp, restore | a pass stage; `remove_bad_data` calls `estimate` | a stage may blind a node; at the limit the report is of another set than the tables |
| V-refine, V-mirror | `v_refine.py`, `v_mirror.py` | variance, prior values | classify, apply | pass stages | plans that must not overlap |
| Shunt sanity | `pipeline/orchestration.py`, `shunt_sanity.py` | accepted edits, trial results | trial, joint run, gate | full pipeline runs on copies | reuse of a trial, report against answer |
| Driver | `api.py`, `state.py`, `bounds.py`, hints | tables, initial point | `estimate`, quality summary | runs the solvers, writes the tables | overwrites the tables whatever the outcome |
| Working tables, ids | `working.py`, `measurement_ids.py`, `_arrays.py` | arrays, id index | add, update, replace, hand out ids | all | id ranges that meet |
| Telemetry | `telemetry/*.py` | measurement rows | resolve values, quality, noise, sigma | steps before the solve | long per-kind rules |
| Filters and priors | `telemetry/{voltage_filter,loss_filter,load_only_injection}.py`, `preprocessing/*.py` | measurement rows | filter, release, widen, add priors | steps before the solve | order of the steps that read each other's rows |
| Shunts, supernodes | `telemetry/shunts.py`, `supernodes.py`, `losses.py` | node shunt, reduced problem | fold, merge | preparation, IPM | not idempotent by themselves |
| Algebra | `algebra/*.py`, `ybus.py`, `z_vector.py`, `preprocessing/ipm_setup.py` | caches of patterns | h, Jacobian, residuals | solvers | numerics |
| Quality, observability | `quality_summary.py`, `validation/*.py`, `result.py` | report | compute | end of the run | stale if computed on other tables |
| Contract | `contract/*.py` | none | read, validate, write | input and output | none of this kind |
| Config, facade | `pipeline/{config,manifest}.py`, `runtime.py` | toggles | — | selects the steps | — |
| Adapters | `adapters/from_pandapower.py` | none | convert | input | — |

`PROJECT.json` gives the status of each component and the list of hazards with
the line where each one bites.

## 2. Modules

| Module | What it is |
|---|---|
| `ResolvePolicy` | abstract specification: what a run promises about its answer |
| `Pipeline` | `run` and `prepare_network`: registry, executor, passes, anti-overshoot, report; implements `ResolvePolicy` |
| `NetworkPrep` | the status and type cascade, as `run`, `prepare_network`, and both again on the result |
| `WlsSolver`, `IpmSolver`, `IpmPdSolver` | the loops of the three solvers |
| `KktCache` | abstract specification: the cache of a sequence of systems |
| `KktSolver` | the two representations of that cache and the stability cascade; implements `KktCache` |
| `MeasRows`, `InjectionParts` | selections over measurement tables; what a declared range and the parts of an injection mean |
| `BadDataRepass`, `VoltageRefine` | the plans of the refine stages |
| `RefineStages` | those plans applied, with warm re-solve and revert, one by one or merged |
| `MeasTable` | the measurement table: ids, batches, noise model |
| `TelemetryApply`, `MeasFilters`, `PseudoRows` | readings laid over the rows; filters that judge them; rows that fill gaps |
| `MeasPrep` | the thirteen measurement steps of a run, in registry order; composes the four modules above |
| `SolveTables` | which rows, branches and nodes one call of `estimate` works on |
| `IpmSetup`, `Supernodes` | the interior point problem, and its reduction when breakers merge nodes |
| `NodeBalance` | an injection split into generation and load, and closed |
| `Estimate` | one call of `estimate`: assembly, solver and fallback, results written back |
| `ShuntTrials` | trial runs of edited copies of the input |
| `Reruns` | what calls the solver again: `Estimate` under `remove_bad_data`, and `ShuntTrials` |
| `PipelineProofs`, `NetworkPrepProofs`, `WlsSolverProofs`, `IpmSolverProofs`, `InteriorPointProofs` (of `IpmPdSolver` and `KktSolver`), `RefineStagesProofs`, `MeasPrepProofs`, `RerunsProofs` | proofs |
| `MC...` | constants for TLC; `MCNetworkPrepIdempotence`, `MCIpmSchedule` and `MCRefineMerged` are runs of claims that fail |

`Pipeline` is the frame. What it leaves open is closed below it: the status cascade
by `NetworkPrep`, the measurement steps by `MeasPrep`, the solve by `Estimate`, the
edits of the passes by `RefineStages`; the solver that `Estimate` leaves open by the
three solver modules, and their linear systems by `KktSolver`. The modules are
checked one level at a time, since the product of their states is out of reach; an
interface is an open choice above and a result below.

### Pipeline

*State.* `cfg`, `entry`, `given`, `derived` are the arguments. `pos` is the index
in `STEPS`, `phase` the place inside the current step. The three working tables
are known by the serial number of the solve whose numbers they hold (`nodes`,
`branches`, `meas`); the measurement table also carries the set of edits made to
it. `result` is `ctx.result`, with the edits it was solved on. `base`, `snap`,
`armed` are the fields of `ResolvePass`; `tightened` and `round` the locals of
`refine_anti_overshoot`. `verdict`, `summary` and `final` are what a step, the
quality summary and the last event report.

*Actions.* One per place where the code branches: a step is skipped, runs, or
raises; `estimate` solves; a pass is skipped or started, its stages are
classified (empty plan or edits), the warm re-solve overwrites the tables, and
`settle` keeps or reverts; the same for anti-overshoot with its rounds. A solve
ends with any element of `Outcomes`: converged or not, in range or not, with any
overshoot. `WriteSolve` always overwrites all three tables, as `estimate` does,
also when the solve fails.

### NetworkPrep

*State.* `net` is the working copy: status of nodes, branches and machines, node
types, `exist_gen` and the origin of a node's generation figures. `CALLS` is the
sequence of four library calls (`run`, `prepare_network`, `prepare_network` on
its own result, `run` on the prepared network) that the claims compare.

*Actions.* One per step of the registry that changes statuses or types; the
functions they apply are translated one by one (`OrphanBranches`,
`DisconnectedNodes`, `SlacksToDemote`, ...). Reachability is stated as the least
closed set around the slacks and not as a search.

### WlsSolver

*State.* The locals of `solve_wls` that steer it: `radius`, `lam`, `attempt`,
`cur_it`, `plain` (`last_step_plain_gn`), `small` (`current_error <= tolerance`),
`diverged`, `stop`; the objective as an ordered value; `gn`, the size of the
undamped step of the current system. A length is its number of halvings of
`max_step`, so halving, quartering, doubling and the two clamps are exact: 32
halvings lead to `tr_radius_min`. The damping is its number of decades above
1e-14, exact up to rounding; where rounding decides, at `lam_max`, both outcomes
are possible (a damping that was cooled and heated again passes 1e8 by a few
ulps, one that only grew does not).

*Actions.* One per exit of an iteration: zero diagonal, unsolvable system,
non-finite trial, vanished step, forced step, accepted step, rejected step; then
`Finish` computes the status. Which step a damped system yields, and what the
trial objective is, is free. A NaN objective at the start point is not modelled.

### IpmSolver and IpmPdSolver

*State.* A point is the number of steps that led to it, a multiplier vector the
number of updates, so that "the residual of this point" can be said. `IpmSolver`
keeps the cached residual `r_at_x` with the point and the multipliers it was
computed for, the gradient size with its point and barrier parameter, the
robust weights, and the three flags of the inner loop. `IpmPdSolver` keeps the
linearization (`lin`), the direction (`dir`) and the factor it was taken on.

*Actions.* One per exit: of an inner iteration (within tolerance, accepted,
no step, failed system, used up), of an outer round (equality rows settled,
stuck, one more round, next barrier parameter, schedule done, used up); in the
primal-dual solver the stopping test, the factorization, the choice between
corrector and centering direction, the search. Sizes of gradients, norms and
complementarity are open choices; what is exact is which point they speak of.

### KktCache and KktSolver

`KktCache` says what a caller may rely on: a system is factorized on the union of
the patterns seen since the last reset; after a breakdown once more on its own
pattern; after a second one without the cache. `KktSolver` has the real fields
(`_mode`, `_gram`, `_seen`, `_pattern`, `_A`, `_F`), with a matrix known by its
layout and by the system its values come from, and a factor by its order and
that system. Values written for one layout into a matrix of another are spoilt,
and so is a factor used on a pattern it was not ordered for. The refinement maps
the superset of `KktCache` to the lower triangle of `_pattern` or to `_seen`.

### RefineStages

*State.* The measurement table with the estimate of every row, the solved
voltages, the place in the sequence of stages, the snapshot, and for every node
the values the current pass gave its prior (`moved`). *Actions.* One per stage
and the re-solve, accepted or reverted. The plans are operators: who is
rejected, flipped, damped or restored, which V reading is trusted more, which
flat prior is lifted and to which level. An accepted re-solve gives any voltages
of the case and the rows their estimates.

### MeasPrep

*State.* The table `m` as the sequence of its rows, nodes and branches, the ids
with a final variance (`ctx.fixed_sigma2_ids`), the released injections.
*Actions.* One per step of the registry between `telemetry` and
`flow_sigma_floor`; a step whose toggle is off is skipped; a collision of ids
ends the run. The status cascade appears by its effect, some nodes and all their
branches off, since `NetworkPrep` treats it in full. Variances are hundredths of
the squared unit, rounded up. Rows are taken by first occurrence, as the index
of the code does. Of the non-physical filter only `downweight` and `deactivate`
are there.

### Estimate and Reruns

*State.* `nodes`, `branches`, `m` are the tables of a call; `prob` the problem
assembled for the solver (rows, boxes, supernodes), `sol` what the solver
returned, `roleEst` the estimates of parts and merged members that overlay those
of the net rows, `result` what is returned.

*Actions.* In the order of `api.py`: assemble, the primal-dual or the barrier
solver, the fallback to WLS, boxes written, results written, measurement
estimates written, the split after WLS, the reconciliation, the return. A solver
may end with every status at every point of the case, successful or not. Flows
are lossless and voltages logarithms, so that the balances and the ratios of
merged branches can be stated exactly in integers; twin breakers between two
nodes get even data, since their flow is halved.

`Reruns` adds the loop of `remove_bad_data` around a call (estimate, test, remove
the worst row, estimate again) and the trials of `ShuntTrials`. There a full cold run is a
function of the edited table, chosen when it is first made and remembered
(`seen`); the base run, which may have started warm, is chosen apart.

## 3. Runs

| Run | Module, cfg | Shows |
|---|---|---|
| `pipeline` | `MCPipeline` | 1.4 million states, no violation |
| `netprep` | `MCNetworkPrep` | 3.8 million states, no violation |
| `netprep_idempotence` | `MCNetworkPrepIdempotence` | violation, see section 6 |
| `wls` | `MCWlsSolver` | 0.6 million states, no violation |
| `kkt` | `MCKktSolver` | 6 thousand states, no violation |
| `ipm` | `MCIpmSolver` | 27 thousand states, no violation |
| `ipm_schedule` | `MCIpmSchedule` | violation, see section 6 |
| `ipm_pd` | `MCIpmPdSolver` | 5 thousand states, no violation |
| `repass` | `MCRefineStages` | no violation |
| `repass_merged` | `MCRefineMerged` | violation, see section 6 |
| `measprep` | `MCMeasPrep` | 0.3 million states, no violation |
| `reruns` | `MCReruns` | 27 thousand states, no violation |

**pipeline**

* `ResultDescribesTables`: between steps, the result and the three tables belong
  to the same solve on the same edits.
* `SuccessIsInRange`, `ResolveStartsInRange`: no success flag on a state out of
  range, no warm start from one.
* `AcceptanceIsEarned`: an accepted pass converged in range, and anti-overshoot
  lowered the voltage ratio.
* `ReturnedResultIsCoherent`: summary and final event belong to the answer.
* `NoPlanIsMissing`: derived inputs that pass the check are enough for every step.
* `ImplementsPolicy`: the refinement of `ResolvePolicy`.

Bounds: three nodes that may overshoot and two rounds, so that a second round
finds new nodes, none, or is the last; two voltage ratios on each side of the
acceptance margin; every choice of passes, with the preparation steps all on or
all off. A pass keeps nothing from the pass before but the tables and the result,
so more nodes or passes add no new situations.

**netprep**

* `CascadeIsComplete`: after one round nothing is left to switch off.
* `NoFloatingIsland`: no energized component without a slack.
* `SolverUsesChosenSlack`: the rule of `units.py` finds the slack that
  `refine_slack_to_one` chose, and the cascade did not switch it off.
* `GenerationFollowsMachines`: after a run, PV type, `exist_gen` and the
  generation of a node follow from running machines on an active node.
* `MaterializedRunIsIdentical`: `run` after `prepare_network` equals `run`.
* `RepeatedPrepareKeepsLiveNetwork`: what holds of a second `prepare_network`.

Bounds: all statuses and types of three nodes in a triangle with one more branch
to a node that does not exist; machines in pairs, single, and on a missing node;
all steps on, and each one off. Three nodes give chains, islands, dangling
branches and ties between slacks.

**wls**

* `StatusMeaning`: legacy success exactly for KKT and TR_COLLAPSED, and KKT
  exactly when the undamped step is within the tolerance.
* `FailureIsNoWorse`: without reweighting a failed solve does not end above the
  objective it started with, although single steps skip the ratio test.
* `StallMeansLimitReached`: the 16 attempts of an iteration never run out; the
  loop after them in the code is a safeguard that is never used.
* `NoStallAtUsableTolerance`: with `tolerance` of 1.7e-7 or more (the default is
  1e-6) STALLED is never reported. After ten rejections or so every step is
  within the tolerance and is forced, so what a user would call a stall ends as
  TR_COLLAPSED, with legacy `success`. The bound is sharp in the model: at 8e-8
  TLC finds a stall.
* `Termination`.

Bounds: three iterations, tolerances on both sides of the limit, two objective
values. One iteration may contain every number of rejections; the second and
third start from every radius and damping these leave, with reweighting.

**kkt**

* `HandleSolvesItsSystem`: the callable that was handed out solves the system it
  was asked for, whatever patterns, breakdowns and representations came before.
* `ImplementsCache`: the refinement of `KktCache`; growth and reset of the
  pattern, and every factorization, do not depend on the representation.

Bounds: two diagonal and one off-diagonal position, Jacobians with and without
it, four systems: a pattern, its growth, a breakdown, and the next system.

**ipm**

* `ResidualIsCurrent`: the residual kept for reuse is that of the point and the
  multipliers, after accepted steps, failed searches and multiplier updates.
* `StatusDescribesResult`: KKT speaks of the gradient at this point, or of the
  one before when `inner_max` ran out; MU_SCHEDULE_DONE of a last inner loop within its
  tolerance for the last problem; STALLED of a search from this point.
* `EarlyStopIsAStall`: only a search without a step, an error or the last round
  end the schedule before `mu_min`.
* `Termination`.

Bounds: four outer rounds for up to five factors of the barrier parameter, two
inner iterations, two extra rounds: each limit can be the first to be reached.

**ipm_pd**

* `DirectionIsOfThisPoint`: what a search follows was computed at this point,
  with these weights, on the factor the solver still holds.
* `ResultIsDescribed`: "kkt" was tested at the point handed back, STALLED has its
  failed searches, and the iterations reported are factorizations made.

Bounds: four iterations, searches of two trials, two failed searches allowed.

**repass**

* `BadDataKeepsCoverage`: rejections, flips and damping together leave every node
  that was observed observed, in P and in Q.
* `MirrorsOnlyLift`: the mirror stages change only flat priors, upwards, within the
  gates, and below some solved level of the voltage class.
* `MovedAgainOnlyFromNominal`: in a merged pass a prior is moved twice only after
  the first move left it at the nominal.

Bounds: a branch with both ends of P, two injections and a Q flow, each honest,
of the wrong sign or stuck at zero; a line of four nodes with a reading at one
end and a transformer at the other. That is the smallest network with a pair to
compare, a node that a rejection could blind, and a chain of two lifts.

**measprep**

* `FinalVarianceIsKept`: where all readings summed into a row came with final
  external variances, the row has their sum to the end.
* `SuspectIsNeverTightened`: no step trusts a suspect reading more.
* `EveryNodeIsAnchored`: whatever was rejected, released or switched off, a live
  node ends with a voltage and an active injection row.
* `ActiveRowsAreLive`: ids are unique, whatever ids the input used; active rows
  are on live objects and not bad.
* `MinimumAgreesWithReading`: the minimum generation handed to the solver is not
  ruled out by the reading handed to it and the most load of the node, where that is
  known, for the run with every step on.
* `MinimumDropsOnGeneration`: unless the release of load-only readings is off or injection
  roles are on, the minimum of a declared range is dropped only where a usable reading of
  generation feeds the injection of the node. A reading of load alone can rule out any minimum,
  so it has to be set aside before the comparison; the mutant swaps the two steps.

With injection roles the second property fails, and so does what the code says of that
case (section 6).

Bounds: five nodes with the roles the steps tell apart (slack with generator,
plant with auxiliary load, two bare busbars behind unit transformers, a load),
readings in and out of every range that is tested, with each quality, with and
without external variances, all the options that change a rule, outages of two
nodes, and input ids that reach into each reserved range.

**reruns**

* `ReadingsEnterOnce`: a reading of an injection is fitted once: as it stands, as
  a part with its variable, or summed with the other parts; every bus has one
  balance per axis, alone or in its supernode.
* `BalanceCloses`: the flows written on all branches, merged ones included, add up to
  the written injections, generation less load is that injection unless a bound
  holds it, and merged nodes differ by the ratio between them.
* `EstimatesDescribeRows`: the estimate of a row is of what the row measures, and
  the summary and, without injection roles, the objective speak of the rows the
  solver had.
* `ReportMatchesResult`: a clean-up that converged returns an estimate of exactly
  the rows left; the reported shunt edits are those of the run that is returned,
  and that run is better than the base run by the gate.

Bounds: five buses in a row, of which breakers (one pair of them parallel) merge
three, with every role a bus can have; all solvers with fallback, all options that
drop, fold or rewrite rows; one rejection before the limit; two shunt
candidates with both variants.

*Fairness.* `Termination` (of `wls` and of `ipm`) assumes weak fairness of the
next-state relation: the loop is sequential code, and a started statement is
executed. Nothing else assumes fairness.

`CHECK_DEADLOCK FALSE` stands in the runs of programs that return.

## 4. Proofs

All theorems hold for every value of the constants, under the assumptions named
in the modules (`OutcomesAssumption`, `MaxItersAssumption`, `ParametersAssumption`,
`LimitsAssumption`, `PositionsAssumption`; of `NetworkPrep` `NodesAssumption`,
`EndsAssumption`, `PriorityAssumption` and `InputsAssumption`; of `RefineStages`
`VoltageAssumption`, `DampingAssumption` and `CasesAssumption`; of `MeasPrep`
`FactorsAssumption` and `CasesAssumption`; of `Reruns` `CasesAssumption`,
`RunsAssumption` and `CleaningAssumption`): the types of the parameters, limits of
at least one round, a tolerance of at least 1e-15, `None` (in `KktSolver` `Unset`)
different from every value, that `remove_bad_data` estimates by least squares without
merging, as it does, and for the matrix positions that the upper triangle mirrors the
lower one and is disjoint from it.

`CasesAssumption` says what a call comes with and no more than the contract does:
tables whose columns have their types, rows of distinct ids, branches between nodes
of the case, finitely many readings. `IsCall` of `MeasPrep` also says that the
telemetry step has no toggle and that an external pseudo-measurement is of a
voltage or an injection, since the code raises on any other kind. What the values
are, which readings there are and which steps are on is arbitrary.

**PipelineProofs.** All safety properties of the run `pipeline`, and the
refinement. The properties speak of the states between steps; they are not
inductive, since inside a pass the tables may differ from the result. `IInv` adds
what holds there: the snapshot describes the base result and is in range when
that result is usable (`Backed`); before the first plan is applied nothing has
changed (`Classifying`); the tables after a solve describe it (`JustSolved`); a
re-solve is reached only from a state in range (`InRangeNow`). The refinement
maps the answer to that of the base result while a pass is open; every step then
is a step of the policy or leaves the answer alone.

**NetworkPrepProofs.** Type correctness, the four properties of the run `netprep`
that speak of one call, and the two that compare calls. What a search visits is the intersection of the closed sets
around its seeds, so nothing recursive is needed. `DisconnectedStep`: a set closed in the
network that is left when the unvisited nodes are off was closed before, hence the
search visits all that is left. `IsolatedStep`: a node without a branch takes no
branch, no slack and no path with it. `Progress` says from which place of the
registry on each fact holds, `Same` that the later steps touch nothing the cascade looks
at. The networks, plans and configurations are arbitrary.

For the properties that compare calls the steps of a call are put together to a
function (`Prepared`, `Ran`), and `HInv` says that the trace of the machine is that
function of what the call was given. Then the question is what the function makes
of its own result. The searches are monotone (`ReachedMonotone`, `CutMonotone`): a
smaller network is searched no farther. A second cascade starts between the result
of the first one and its input (`SeenBetween`: laying the plan over the result again can
only bring back what the first cascade cut), so it ends where the first one ended
(`CutTwice`). The slack pass finds one slack and keeps it (`SlackOnce`). The types are not
idempotent, which is the disagreement of section 6; they are for nodes that are on.

**WlsSolverProofs.** All safety properties of the run `wls`, and
type correctness (only proved, not part of the run). A rejection adds
one decade of damping and two halvings of the radius, any other step takes back
at most one of each. Hence `SmallWhenDamped`: a damping of 10^k over its
start value comes with a radius of at most 2^-(2k+1), in *every* iteration,
however they went; and `AttemptsHeat`: within an iteration the damping counts the
rejections. When the damping limit is hit, a rejected step (larger than the
tolerance, no larger than the radius) shows that the tolerance was below
0.35 / 2^21; and the limit is hit at the thirteenth rejection at the latest.

**IpmSolverProofs.** All safety properties of the run `ipm`, and type correctness.
The statuses are read from flags and a gradient that may be one step old.
`GradientAge` says when: only behind an inner loop whose last iteration was
accepted, and that is the one that used up `inner_max`. `ExitRecorded` ties the
two flags to the way that loop ended. Between rounds the barrier parameter and the
multipliers move on, so both hold only at the places where a status is computed.

**InteriorPointProofs**, the loop. Both properties of the run `ipm_pd`, and type correctness.
`AtTest`: at the head of the loop steps, iterations and factorizations are equally
many, and no direction is left over. `Linearized`: behind the factorization there is
one more of these, taken at this point. `ResidualMoves`: a search that finds a step,
one that exhausts its halvings and one that has nothing to search all leave the residual
of the point they moved to; the invariant breaks if one of them does not.

**InteriorPointProofs**, the linear solver. Both properties of the run `kkt`, and type correctness. `Consistent`: in
either representation the matrix has the layout of the known pattern and the
factor the order of its lower triangle. A breakdown spoils values and never a
layout, so a pattern found unchanged is the layout, and no value is lost by
writing it there. The same invariant identifies the known pattern with the
superset of `KktCache`; each action then is one step of the cache.

**RefineStagesProofs.** The three properties of the run `repass`, and type correctness. They
are properties of plans, and a plan is a recursion: over the ranks of the worst
residuals, the halvings of a damped level, the fronts of a chain of nodes without
readings. The prover has no induction over an operator, but the library states
that the naturals are well founded, which yields least numbers (`LeastNumber`), sets
closed under successor (`InductiveSet`) and the existence of a function given by
recursion over a bounded range (`BoundedRecursion`); a recursive function of the model is
shown to exist first and unfolded afterwards. On this rest: the rows that cover a node
are never all rejected, so what is observed before bad data is observed after it
(`RejectsAreFew`, `BadDataCovers`); a median is no higher than some value it is taken over
(`MedianBound`), so by induction over the fronts a level handed along a chain is no
higher than one at its boundary (`ChainLevels`), and a damped level stays between the
nominal and the level (`DecayedBetween`). `MovedInv` carries `MovedAgainOnlyFromNominal`
over the stages: what the first mirror stage moved holds one new value until the chain
stage, which only takes priors at their nominal.

**MeasPrepProofs.** The properties of the run `measprep`. Apart from telemetry, a
step that changes rows is one of two things. It judges the rows there are (`Filtered`: same rows, objects and ids; a
status only taken away, a questionable mark never removed and its variance never
lowered, no variance touched whose id is in `fixed`), or it appends a batch with free
ids (`Extends`). Each step is shown once to be of its kind (`RangeFilterFilters`,
`WidenFilters`, ...), and the invariants follow from the kind. Telemetry is different:
`TelemetryLeaves` and `FinalIdsComplete` follow a reading to its row and its id to
`fixed`, and the sums over the readings of a row, folds over a finite set, are unfolded
by `SumsExist`, an induction over cardinality.

`MInv` is the inductive invariant. The properties need of it: that a row with a final
variance is known to be final (`Protected`; the next filter would scale it); that a
variance is a number for every row that carries a reading and only added rows may
lack one (`VariancesCount`; "never lowered" would say nothing); that no bad reading is
left after telemetry (`NoBadReading`); that what `orphans` leaves active is at live
nodes, to which the later batches add rows at live nodes only (`LiveRows`). With
`NodesAnchored`, a node without an active row has one of its own in the batch of priors
(`PriorsRows`).

`MinimumAgreesWithReading` compares a declared bound with a value and a variance, and
three steps move the two sides apart or together, so it has an invariant of its own,
`GInv`. A minimum is zero, as declared, or the relaxed one (`MinimumsAsGiven`), and the
relaxation keeps only what the first reading of a node and its load box allow
(`RelaxAgrees`). Widening a reading of generation alone shifts it by half the load box and
adds the box to its variance; that the minimum is not beyond the shifted reading follows
because the limit grows by at least what the most load loses (`BeyondIsMonotone`,
`WidenAgrees`, and `AgreementCarries` for the steps that leave the row alone). Rows added
later are no readings of injections, and `orphans` touches dead nodes only. Of the
constants this takes that the relaxation factor is a natural number and that
an absent value is no range.

`MinimumDropsOnGeneration` rests on what an active injection row is made of. After telemetry
each is fed by components of the plan (`OfComponents`, `InjectionIsOfComponents`;
`InjectionsAreNotApplied`: no other part of the plan writes such a row), and so are fewer
and fewer until `relax`. `release` leaves none at a generating node that components of load
alone feed (`ReleaseLeavesNonePartial`), so at the relaxation, which is the next step, a
reading that drops a minimum has a component of generation (`SomeGeneration`). What was
dropped no later step touches (`DropsStay`).

**RerunsProofs.** `ReportMatchesResult`, for any tables, shunts, limits and outcomes of
the runs; the two callers have an invariant each. And `ReadingsEnterOnce` and
`EstimatesDescribeRows`, for any tables and options.

`SInv` is about the trials. A run is a function of the edited table, so what the table of
a set of edits came out as is remembered under that table (`WasRun`). The queue of
trials holds the variants of a candidate side by side, the one that switches off first
(`InPairs`); without that the better variant so far could be one of another
candidate (`BestIsRun`). Every accepted edit was run alone and earned the gate, and
the last run kept is that of a single accepted edit (`AcceptedWereRun`), which is
what allows the code to return it in place of a joint run. A batch that was concluded is
the base run or a run of all accepted edits below the gate (`Concluded`).

`BInv` is about `remove_bad_data`. Seven steps of a call write to the tables, and each is
shown to write columns of results only (`NodeResultsLike`, `SplitLike`, `ReconcileLike`, ...;
`Writes`). So the rows the diagnostics take from the tables after a call are those the
call assembled before it (`CheckedRows`, and `NothingMerged`: without a merge limit no flow
is withdrawn). A removal takes exactly one of them (`DropOne`), and one that
was removed is off and cannot be removed again, so the list counts it once (`Removals`).
After the last removal there is no further call: that is the one place where the
result still uses a row that is gone (`GaveUp`).

`EInv` is about what `Assemble` built. The property reads the tables in every later state,
and the writing steps change them, so `EInv` states it of the tables of the call
(`EnterOnce`) and keeps the tables alike to those (`TablesAlike`, the same lemmas as for
`BInv`). That it holds when the problem is assembled is the long part, two passes over the
rows:

* The setup makes rows of one reading (`RowsOf`) and the reduction maps each to at most
  one (`OutOf`), so a reading is followed through both by its id. Which row is left is a
  case distinction over "the bus is split", "the reading stands or is the one the others
  are folded into", "the supernode has no variable for it" (`PlannedOut`, and `PlainOut`
  for the options without roles). `AssembledOnce` puts the readings of a bus back
  together; the reading the others are folded into exists because a set of numbers has a
  least one.
* That each supernode has one balance needs that a representative represents itself. To
  be joined by merged branches is the least set no branch leads out of, and what such a
  set leaves is one too (`ClosedComplement`), so to be joined is an equivalence
  (`JoinedAlike`) and members of one supernode have one representative (`Represented`).
  Its balance takes the place of those of the members (`AssembledBalance`), and its value
  is the sum over them (`SuperValue`).

`DInv` is about what a call writes. Three writers touch the estimates of the rows, the
role estimates, the evaluated rows of z and the overlay of one by the other, and later
ones touch the nodes they are compared with. So the invariant says after each writer what
the tables hold, in terms of the tables of the case and of the answer alone (`Posed`,
`Answers`, `Overlays`, `Placed`, `Measures`, `Summed`). Two facts carry it:

* The fates of a reading exclude each other (`RowsByReading`, proved of the assembled
  problem in `AssembledRows`). A measured part is a solved row and never a converted one;
  a converted row is of a member of a supernode; what the reduction lost or the setup
  dropped is in no solved row; and a reading of a member that is solved is one of the
  first two. Hence the order of the overlay decides nothing wrongly, a row has an
  estimate exactly if it was neither lost nor dropped (`RowEstimated`), and the summary
  and, without roles, the objective are over those.
* The answer has a number for every bus, every branch and every box variable. For the buses
  of a supernode this is the walk over the forest of merged branches: a step of the walk
  either stands still or takes a further branch within what was reached (`OpenGrows`), so
  after as many steps as there are branches nothing leads out of it (`WalkCloses`), and
  what the forest does not lead out of no merged branch leads out of (`ForestSpans`):
  `ScalesAll`. The boxes stay boxes of numbers when measured ranges narrow them
  (`SetupBoxes`), and a sum of finitely many flows is a number (`SumFunctionType`).

Of the inputs this takes that the columns of the tables that hold numbers hold integers,
that a row is of one of the kinds of the contract, and that the absent value is no
number (`IsCase`, `NumbersAssumption`).

Only model-checked: `BalanceCloses`, and `Termination` (liveness is outside what the prover
does, as is ENABLED). `BalanceCloses` is a property of the instance as it stands: breakers
form no loop longer than a parallel pair and an even flow crosses the pair, which the model
shares in whole units. For any tables it would have to be stated of exact shares and proved
by adding flows up over the cuts of a tree, an induction over trees.

## 5. Plan

Done, in this order: the frame (`Pipeline`, `ResolvePolicy`), what every answer
passes through (`NetworkPrep`), the solvers and the cache below them, the edits
between solves, the measurement chain, the driver with its callers.

Left, by value:

1. The initial states of `estimate` (`api.py:781-870`) and the voltage guard
   (`api.py:873-1010`): which of the warm, flat and hinted starts is taken, and
   what a rejected start leaves behind.
2. The registry order as a variable: every permutation `steps.py` would admit by its
   `after` declarations, against the properties of `NetworkPrep` and `MeasPrep`.
3. `BalanceCloses` for any tables, with exact shares of parallel breakers.
4. Loops of breakers longer than a parallel pair, where the flows of the merged
   branches are not determined by the balances alone.

## 6. Where code and documentation differ

Shown by a run:

* `netprep_idempotence`. `runner.py:408-410` says that a repeated `prepare_network`
  is a no-op. The type pass runs before the cascade and looks at machines but not
  at the status of their node; a node promoted to PV and then switched off keeps
  PV in the first result and is demoted in the second. Only types of switched-off
  nodes differ, and the part of the claim a caller relies on, that a following
  `run` is identical, holds.
* `ipm_schedule`. `ipm.py:71` says "completed" means that the schedule was run
  through to `mu_min`. When `outer_max` is used up, the parameter has already
  been lowered once more than it was solved for.
* `repass_merged`. `passes.py:276` says that the plans of the two mirror stages do
  not overlap. They do when a boundary was solved exactly at its nominal.

Met while modelling, described by the models as the code does it:

* `ipm.py`, in the search: the comment that the outer loop raises the parameter and tries
  again describes no branch of the loop; it is only ever lowered.
* `ipm.py`: a run without boxes that does not reach the KKT threshold is legacy
  "stalled" while its detailed status may be MU_SCHEDULE_DONE.
* `ipm_pd.py`: without inequalities the complementarity counts as 0 from the first
  test on, so with any warm-up the robust weights are never applied, whatever
  `huber_freeze_mu` is; the point reached by the last iteration is never tested.
* `bad_data.py:299` calls `max_iterations` the maximum number of rejections; the
  loop removes one more, and `se_result` is then of the set before that last
  removal (`ReportMatchesResult` states what holds).
* `load_only_injection.py:21-24` announces a widened Q row; a node whose P is
  measured and whose Q is released gets neither a Q row nor a Q prior.
* `preparation.py`. With injection roles line 169 skips the release of
  load-only readings: "The parts are measured separately: a partial net injection does
  not arise." The table keeps the net row all the same, and the relaxation of minimums
  (line 187) reads the table and is not skipped. A plant that reports only
  its load has the minimum of its generation dropped on that row, of which
  `load_only_injection.py:12` says that it "is partial, not a net injection". This is
  why `MinimumDropsOnGeneration` excepts roles; without `~case.cfg.roles` in it, the run
  `measprep` ends with this case.
* `load_only_injection.py`: the release asks for a declared range that is more than a
  point (lines 145-153), the relaxation only for a positive minimum (lines 214-215). At a node
  whose generation is declared as one point a reading of load alone therefore stays, and
  may drop the minimum. `MinimumDropsOnGeneration` speaks of the ranges the release
  covers (`Declared`).
* `generators.py:227-228` says that a node keeps its previous values; the code
  above closes them.
* `api.py:424` says that an injection row of a member measures the box variables
  of its node. The net row of a merged node whose parts are measured keeps the
  flow estimate of the reduced network (`EstimatesDescribeRows` leaves it out), and
  the objective with roles need not be over the rows that have an estimate (that clause
  of the property is for calls without roles).
* `ipm_setup.py`: a box with one unknown side does not count as default, and one wider
  than 100 p.u. gets the tight prior of a bus equivalent.
* `shunt_sanity.py` speaks of warm re-solves; trials are full cold runs, while
  the base run may have been warm, so the gate compares the two.
* `units.py` has a slack rule that differs from that of `topology.py` (its own
  comment says so); `SolverUsesChosenSlack` shows that they agree after the cascade.

## 7. Not modelled

* Measurement functions, Jacobians, admittances, selected inversion and residual
  statistics (`algebra`, `ybus.py`, most of `quality_summary.py`,
  `validation/observability.py`, `chi2_test.py`): real-valued algebra.
* `shunts.py`, `losses.py`, `load_characteristics.py`: admittance arithmetic;
  `NodeBalance` takes a load characteristic as a constant.
* Of `estimate`: initial states, voltage guard, `measurement_bounds`, hints, generator objects, shunts
  of merged branches (they decide where a solve starts, and its outcome is open
  in the models, or they only add to sums).
* Rows without a finite estimate: `bad_data_repass.py` and `v_refine.py` skip them
  (`finite_estimate`), and the models of the two give every active row an estimate. Two
  kinds of active rows have none and would be left alone there: a reading that the
  reduction to supernodes loses (`EstimatesDescribeRows`), and one at a dead object when
  the orphan removal is switched off. Neither is in the networks of `repass`.
* The contract tables, serialization and adapters: data conversion without state.
* The remaining fields of `config.py`: numbers with documentation.

## 8. Running

`tlc -config MCPipeline.cfg MCPipeline.tla` (and the other MC modules in the same
way, each with the cfg of its name); `tlapm PipelineProofs.tla` (and the other
`...Proofs` modules).
