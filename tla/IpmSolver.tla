----------------------------- MODULE IpmSolver -----------------------------
(* algorithms/ipm.py, solve_ipm: the log-barrier solver.  The outer loop walks *)
(* the schedule of mu and, with equality rows, the multipliers; the inner loop *)
(* is Newton with an Armijo search.                                            *)
(*                                                                             *)
(* Numbers are known by where they come from: x counts the accepted steps,     *)
(* shift the multiplier updates, mu the factors left until mu <= mu_min (0).   *)
(* What a norm compares to, and what a trial gives, is open.                   *)
EXTENDS Integers

CONSTANTS
    OuterMax,       \* outer_max
    InnerMax,       \* inner_max
    MuSteps,        \* bound of the factors from mu_init to mu_min
    ExtraMax,       \* eq_extra_outer
    Warmup,         \* huber_warmup_iters
    None

ASSUME LimitsAssumption ==
    /\ OuterMax \in Nat \ {0}
    /\ InnerMax \in Nat \ {0}
    /\ MuSteps \in Nat
    /\ ExtraMax \in Nat
    /\ Warmup \in Nat
    /\ None \notin [x : Nat, shift : Nat]

VARIABLES
    pc,             \* "outer", "inner", "after", "done"
    hasBox, hasEq, useHuber,
    mu, outer, inner, total, extra,
    x, shift,
    r,              \* r_at_x: None or [x, shift] it was evaluated at
    weights,        \* None (the base weights) or the residual they come from
    grad,           \* [x, shift, mu, size]: what grad_inf was measured at
    stepped,        \* any_inner_step
    converged,      \* inner_converged
    stalled,        \* inner_stalled
    last,           \* history: how the last inner loop ended, and for which problem
    result          \* None or [status, solve_status]

problem == <<hasBox, hasEq, useHuber>>
flags == <<stepped, converged, stalled>>
vars == <<pc, problem, mu, outer, inner, total, extra, x, shift, r, weights,
          grad, flags, last, result>>

\* "tol": below inner_tol; "loose": below the KKT threshold; "large": above it.
Sizes == {"tol", "loose", "large"}

AtMuMin == mu = 0
NoProgress == ~stepped /\ ~converged
Here == [x |-> x, shift |-> shift]

(* Arguments; a start without a box has mu = 0 and one outer round.  Rows of   *)
(* equality without a box are legal.                                           *)
Init ==
    /\ hasBox \in BOOLEAN /\ hasEq \in BOOLEAN /\ useHuber \in BOOLEAN
    /\ mu \in IF hasBox THEN 0..MuSteps ELSE {0}
    /\ pc = "outer"
    /\ outer = 0 /\ inner = 0 /\ total = 0 /\ extra = 0
    /\ x = 0 /\ shift = 0
    /\ r = None /\ weights = None
    /\ grad = [x |-> 0, shift |-> 0, mu |-> mu, size |-> "large"]
    /\ stepped = FALSE /\ converged = FALSE /\ stalled = FALSE
    /\ last = [x |-> 0, shift |-> 0, mu |-> mu, exit |-> "none"]
    /\ result = None

-----------------------------------------------------------------------------
(* The result.                                                                *)

\* Mutant: the exit of the inner loop is looked at before outer_max.
SolveStatusExitFirst(kkt, exhausted) ==
    IF kkt THEN "KKT"
    ELSE IF converged THEN "MU_SCHEDULE_DONE"
    ELSE IF exhausted THEN "MAX_ITER"
    ELSE IF stalled THEN "STALLED" ELSE "MAX_ITER"

\* _solve_status
SolveStatus(kkt, exhausted) ==
    IF kkt THEN "KKT"
    ELSE IF exhausted THEN "MAX_ITER"
    ELSE IF converged THEN "MU_SCHEDULE_DONE"
    ELSE IF stalled THEN "STALLED" ELSE "MAX_ITER"

Finish(schedule_done, exhausted) ==
    LET kkt == grad.size \in {"tol", "loose"}
    IN /\ pc' = "done"
       /\ result' = [status |-> IF kkt THEN "kkt"
                                ELSE IF schedule_done THEN "completed"
                                ELSE "stalled",
                     solve_status |-> SolveStatus(kkt, exhausted)]

\* _error_result: both failures of the Newton system leave at once.
Fail ==
    /\ pc' = "done"
    /\ result' = [status |-> "error", solve_status |-> "ERROR"]
    /\ UNCHANGED <<inner, total, x, flags, last>>

\* status in ("kkt", "completed")
success == result # None /\ result.status \in {"kkt", "completed"}

-----------------------------------------------------------------------------
(* The outer loop opens a round: the flags of the last inner loop and the      *)
(* adaptive threshold of the weights are reset.                                *)

StartRound ==
    /\ pc = "outer"
    /\ outer < OuterMax
    /\ outer' = outer + 1
    /\ inner' = 0
    /\ stepped' = FALSE /\ converged' = FALSE /\ stalled' = FALSE
    /\ pc' = "inner"
    /\ UNCHANGED <<problem, mu, total, extra, x, shift, r, weights, grad, last, result>>

\* Mutant: the loop ends only once mu is at mu_min.
OuterExhaustedAtMuMin ==
    /\ pc = "outer"
    /\ outer = OuterMax /\ AtMuMin
    /\ Finish(TRUE, TRUE)
    /\ UNCHANGED <<problem, mu, outer, inner, total, extra, x, shift, r, weights,
                   grad, flags, last>>

OuterExhausted ==
    /\ pc = "outer"
    /\ outer = OuterMax
    /\ Finish(AtMuMin, TRUE)
    /\ UNCHANGED <<problem, mu, outer, inner, total, extra, x, shift, r, weights,
                   grad, flags, last>>

-----------------------------------------------------------------------------
(* One inner iteration: residual, weights, gradient, Newton step, search.     *)

\* The residual is evaluated only when no accepted trial left one.
Residual == IF r = None THEN Here ELSE r

\* Mutant: the residual at the start of the search is kept.
KeepResidual == Residual

AcceptedResidual == [x |-> x + 1, shift |-> shift]

Reweighted == IF useHuber /\ total > Warmup THEN Residual ELSE weights

InnerExit(exit) ==
    /\ pc' = "after"
    /\ last' = [x |-> x', shift |-> shift, mu |-> mu, exit |-> exit]

Measure ==
    /\ weights' = Reweighted
    /\ grad' \in [x : {Residual.x}, shift : {Residual.shift}, mu : {mu}, size : Sizes]

\* grad_inf < inner_tol, or the clipped step is below it.
Converge ==
    /\ converged' = TRUE
    /\ r' = Residual
    /\ UNCHANGED <<inner, total, x, stepped, stalled, result>>
    /\ InnerExit("tolerance")

\* The interior and the Armijo condition admit a trial of the search.
Accept ==
    /\ total' = total + 1
    /\ x' = x + 1
    /\ r' = AcceptedResidual
    /\ stepped' = TRUE
    /\ inner' = inner + 1
    /\ UNCHANGED <<pc, converged, stalled, last, result>>

\* No trial within armijo_max passed.
NoStep ==
    /\ total' = total + 1
    /\ stalled' = TRUE
    /\ r' = Residual
    /\ UNCHANGED <<inner, x, stepped, converged, result>>
    /\ InnerExit("stalled")

Newton ==
    /\ pc = "inner"
    /\ inner < InnerMax
    /\ Measure
    /\ \/ grad'.size = "tol" /\ Converge
       \/ grad'.size # "tol" /\ (Converge \/ Accept \/ NoStep)
       \/ grad'.size # "tol" /\ r' = Residual /\ Fail
    /\ UNCHANGED <<problem, mu, outer, extra, shift>>

InnerExhausted ==
    /\ pc = "inner"
    /\ inner = InnerMax
    /\ pc' = "after"
    /\ last' = [x |-> x, shift |-> shift, mu |-> mu, exit |-> "spent"]
    /\ UNCHANGED <<problem, mu, outer, inner, total, extra, x, shift, r, weights,
                   grad, flags, result>>

-----------------------------------------------------------------------------
(* After an inner loop.                                                       *)

\* Mutant: the cached residual keeps the old shift.
UpdateShiftOnly == shift' = shift + 1 /\ UNCHANGED r

\* The residual of the equality rows is corrected for the new shift in place.
UpdateMultipliers ==
    /\ shift' = shift + 1
    /\ r' = [r EXCEPT !.shift = shift + 1]

\* max(mu * mu_factor, mu_min / 2)
NextMu == mu' = IF mu = 0 THEN 0 ELSE mu - 1

LastProblem == AtMuMin \/ ~hasBox

Leave(schedule_done) ==
    /\ Finish(schedule_done, FALSE)
    /\ UNCHANGED <<problem, mu, outer, inner, total, extra, x, shift, r, weights,
                   grad, flags, last>>

NextRound ==
    /\ pc' = "outer"
    /\ UNCHANGED <<problem, outer, inner, total, x, weights, grad, flags, last, result>>

\* Equality rows settle at the last mu: within eq_tol, or no extra round is left.
EqSettled(eq_ok) ==
    /\ pc = "after" /\ hasEq
    /\ LastProblem /\ (eq_ok \/ extra >= ExtraMax)
    /\ Leave(TRUE)

EqStuck(eq_ok) ==
    /\ pc = "after" /\ hasEq
    /\ ~(LastProblem /\ (eq_ok \/ extra >= ExtraMax))
    /\ NoProgress
    /\ Leave(FALSE)

EqExtraRound ==
    /\ pc = "after" /\ hasEq
    /\ LastProblem /\ extra < ExtraMax
    /\ ~NoProgress
    /\ UpdateMultipliers
    /\ extra' = extra + 1
    /\ NextRound
    /\ UNCHANGED mu

EqNextMu ==
    /\ pc = "after" /\ hasEq
    /\ ~LastProblem /\ ~NoProgress
    /\ UpdateMultipliers
    /\ NextMu
    /\ NextRound
    /\ UNCHANGED extra

\* Without a box there is a single outer round.
PlainDone ==
    /\ pc = "after" /\ ~hasEq /\ ~hasBox
    /\ Leave(FALSE)

ScheduleDone ==
    /\ pc = "after" /\ ~hasEq /\ hasBox
    /\ AtMuMin
    /\ Leave(TRUE)

\* Mutant: only an accepted step lets the schedule go on.
StuckWithoutStep ==
    /\ pc = "after" /\ ~hasEq /\ hasBox
    /\ ~AtMuMin /\ ~stepped
    /\ Leave(FALSE)

Stuck ==
    /\ pc = "after" /\ ~hasEq /\ hasBox
    /\ ~AtMuMin /\ NoProgress
    /\ Leave(FALSE)

LowerMu ==
    /\ pc = "after" /\ ~hasEq /\ hasBox
    /\ ~AtMuMin /\ ~NoProgress
    /\ NextMu
    /\ NextRound
    /\ UNCHANGED <<extra, shift, r>>

Next ==
    \/ StartRound \/ OuterExhausted
    \/ Newton \/ InnerExhausted
    \/ \E eq_ok \in BOOLEAN : EqSettled(eq_ok) \/ EqStuck(eq_ok)
    \/ EqExtraRound \/ EqNextMu
    \/ PlainDone \/ ScheduleDone \/ Stuck \/ LowerMu

\* One thread runs the loops; every step of them returns.
Spec == Init /\ [][Next]_vars /\ WF_vars(Next)

-----------------------------------------------------------------------------
Points == [x : Nat, shift : Nat]

(* The variables have the values solve_ipm gives them; the counters stay       *)
(* within the limits of the call and a result is there exactly at the end.     *)
TypeOK ==
    /\ pc \in {"outer", "inner", "after", "done"}
    /\ hasBox \in BOOLEAN /\ hasEq \in BOOLEAN /\ useHuber \in BOOLEAN
    /\ mu \in 0..MuSteps
    /\ outer \in 0..OuterMax /\ inner \in 0..InnerMax
    /\ total \in Nat /\ extra \in 0..ExtraMax
    /\ x \in Nat /\ shift \in Nat
    /\ r \in {None} \cup Points
    /\ weights \in {None} \cup Points
    /\ grad \in [x : Nat, shift : Nat, mu : 0..MuSteps, size : Sizes]
    /\ stepped \in BOOLEAN /\ converged \in BOOLEAN /\ stalled \in BOOLEAN
    /\ last \in [x : Nat, shift : Nat, mu : 0..MuSteps,
                 exit : {"none", "tolerance", "stalled", "spent"}]
    /\ pc \in {"inner", "after"} => outer > 0
    /\ pc = "after" => r # None

(* The residual kept for reuse is that of the current state and the current    *)
(* multipliers, through accepted trials, failed searches and shifts: the       *)
(* gradient, the equality test and the reported objective all read it without  *)
(* evaluating it again.                                                        *)
ResidualIsCurrent == r # None => r = Here

(* What each termination status says about the state handed back.  KKT: the    *)
(* gradient is that of the last problem solved, at this state or one accepted  *)
(* step before it, and the latter only when inner_max ran out.  MU_SCHEDULE_DONE: the last inner    *)
(* loop met its tolerance at this state, for these multipliers and for a mu    *)
(* within mu_min.  STALLED: its last search found no step from this state.     *)
StatusDescribesResult ==
    pc = "done" =>
        /\ result.solve_status = "KKT" =>
              /\ grad.shift = last.shift /\ grad.mu = last.mu
              /\ \/ grad.x = x
                 \/ grad.x = x - 1 /\ last.exit = "spent"
        /\ result.solve_status = "MU_SCHEDULE_DONE" =>
              last = [x |-> x, shift |-> shift, mu |-> 0, exit |-> "tolerance"]
        /\ result.solve_status = "STALLED" =>
              last.x = x /\ last.exit = "stalled"
        /\ success => result.solve_status # "STALLED" \/ mu = 0

(* A stop before the schedule is through comes from a search that found        *)
(* nothing, or from outer_max: a start that already is stationary, which takes *)
(* no step at all, never ends the schedule early.                              *)
EarlyStopIsAStall ==
    pc = "done" /\ hasBox /\ mu > 0 =>
        \/ outer = OuterMax
        \/ result.status = "error"
        \/ last.exit = "stalled"

(* The doc of IPMResult: "completed" means that the schedule has been run      *)
(* through to mu_min.  It does not hold: when outer_max is used up by the      *)
(* round before, mu has been lowered to mu_min and never solved for.           *)
CompletedScheduleWasSolved ==
    pc = "done" /\ result.status = "completed" => last.mu = 0

(* Every call returns.                                                         *)
Termination == <>(pc = "done")
=============================================================================
