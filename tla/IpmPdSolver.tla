---------------------------- MODULE IpmPdSolver ----------------------------
(* algorithms/ipm_pd.py, solve_ipm_pd: the primal-dual predictor-corrector.    *)
(* One pass of the loop tests the current point, factorizes one matrix, takes  *)
(* two or three directions from it and searches along the last one.            *)
(*                                                                             *)
(* Numbers are known by where they come from: x counts the steps taken, and    *)
(* slacks, duals and multipliers move with it; a residual is the step it was   *)
(* evaluated after; a step length is the number of times it was halved.        *)
EXTENDS Integers

CONSTANTS
    MaxIter,            \* max_iter
    ArmijoMax,          \* armijo_max
    MaxSearchFailures,  \* max_search_failures
    Warmup,             \* huber_warmup_iters
    ProxSteps,          \* tenfold raises from box_prox to box_prox_max
    None

ASSUME LimitsAssumption ==
    /\ MaxIter \in Nat \ {0}
    /\ ArmijoMax \in Nat
    /\ MaxSearchFailures \in Nat \ {0}
    /\ Warmup \in Nat
    /\ ProxSteps \in Nat
    /\ None \notin [kind : {"predictor", "corrector", "centering"}, x : Nat,
                     factor : Nat, descends : BOOLEAN]

VARIABLES
    pc,             \* "test", "factor", "direction", "search", "done"
    pairs,          \* there are inequalities: n_pairs > 0
    huber,          \* use_huber
    it,
    x, r,           \* r: step after which the residual at hand was evaluated
    w,              \* 0 (the base weights) or 1 + the residual they come from
    mu,             \* "high", "frozen" (<= huber_freeze_mu), "low" (<= mu_min)
    mu_last,        \* mu of the iteration before, "high" at the start
    small,          \* the last Newton step passed step_tol or fit_tol
    lin,            \* None or [x, r, w, factor]: the linearization
    factor,         \* factorizations asked of the KKT solver
    dir,            \* None or [kind, x, factor, descends]
    fails,          \* n_ls_fail
    box_scale,      \* 0..ProxSteps
    tested,         \* history: step whose point passed the stopping test
    result          \* None or [status, solve_status, iterations]

vars == <<pc, pairs, huber, it, x, r, w, mu, mu_last, small, lin, factor, dir,
          fails, box_scale, tested, result>>

\* Complementarity does not exist without inequalities.
Levels == IF pairs THEN {"high", "frozen", "low"} ELSE {"low"}

Init ==
    /\ pc = "test"
    /\ pairs \in BOOLEAN /\ huber \in BOOLEAN
    /\ it = 0 /\ x = 0 /\ r = 0 /\ w = 0
    /\ mu = IF pairs THEN "high" ELSE "low"
    /\ mu_last = "high"
    /\ small = FALSE
    /\ lin = None /\ dir = None /\ result = None
    /\ factor = 0 /\ fails = 0 /\ box_scale = 0
    /\ tested = -1

-----------------------------------------------------------------------------
(* The result.                                                                *)

\* it if status == "kkt" else min(it + 1, max_iter)
Iterations(status) ==
    IF status = "kkt" \/ it + 1 > MaxIter THEN it ELSE it + 1

Finish(status, solve_status) ==
    /\ pc' = "done"
    /\ result' = [status |-> status, solve_status |-> solve_status,
                  iterations |-> Iterations(status)]

-----------------------------------------------------------------------------
(* Weights, complementarity and the stopping test.                            *)

Reweighted ==
    IF huber /\ it >= Warmup /\ mu_last = "high" THEN r + 1 ELSE w

\* Mutant: the first point may pass on the test of no step.
SettledAtOnce(feasible) == mu = "low" /\ feasible /\ (it = 0 \/ small)

(* All five tests at this point: a step was taken, mu, the feasibility of both *)
(* kinds of constraint (open), and the size of the step that led here.        *)
Settled(feasible) ==
    it > 0 /\ mu = "low" /\ feasible /\ small

Converged ==
    /\ pc = "test" /\ it < MaxIter
    /\ Settled(TRUE)
    /\ w' = Reweighted /\ mu_last' = mu
    /\ tested' = x
    /\ Finish("kkt", "KKT")
    /\ UNCHANGED <<pairs, huber, it, x, r, mu, small, lin, factor, dir, fails, box_scale>>

\* One factorization of the normal matrix; it may fail.
Factorize ==
    /\ pc = "test" /\ it < MaxIter
    /\ \E feasible \in BOOLEAN : ~Settled(feasible)
    /\ w' = Reweighted /\ mu_last' = mu
    /\ factor' = factor + 1
    /\ \/ /\ lin' = [x |-> x, r |-> r, w |-> w', factor |-> factor']
          /\ pc' = "direction"
          /\ UNCHANGED result
       \/ /\ Finish("error", "ERROR")
          /\ UNCHANGED lin
    /\ UNCHANGED <<pairs, huber, it, x, r, mu, small, dir, fails, box_scale, tested>>

IterationLimit ==
    /\ pc = "test" /\ it = MaxIter
    /\ Finish("stalled", "MAX_ITER")
    /\ UNCHANGED <<pairs, huber, it, x, r, w, mu, mu_last, small, lin, factor, dir,
                   fails, box_scale, tested>>

-----------------------------------------------------------------------------
(* Directions, all from the same factor.                                      *)

\* _Linearization.direction
Direction(kind, descends) ==
    [kind |-> kind, x |-> lin.x, factor |-> factor, descends |-> descends]

\* The predictor alone without inequalities, otherwise the corrector after it.
Newton ==
    /\ pc = "direction" /\ dir = None
    /\ \E descends \in BOOLEAN :
          dir' = Direction(IF pairs THEN "corrector" ELSE "predictor", descends)
    /\ UNCHANGED <<pc, result>>

NonFinite ==
    /\ pc = "direction" /\ dir = None
    /\ Finish("error", "ERROR")
    /\ UNCHANGED dir

\* The second-order term spoilt the descent of the merit: the centering
\* direction, when it descends.
Centering ==
    /\ pc = "direction" /\ dir # None
    /\ ~dir.descends /\ pairs
    /\ dir' \in {dir, Direction("centering", TRUE)}
    /\ pc' = "search"
    /\ UNCHANGED result

KeepDirection ==
    /\ pc = "direction" /\ dir # None
    /\ dir.descends \/ ~pairs
    /\ pc' = "search"
    /\ UNCHANGED <<dir, result>>

ChooseDirection ==
    /\ Newton \/ NonFinite \/ Centering \/ KeepDirection
    /\ UNCHANGED <<pairs, huber, it, x, r, w, mu, mu_last, small, lin, factor,
                   fails, box_scale, tested>>

-----------------------------------------------------------------------------
(* The search along the primal direction.  An outcome is the halvings of the  *)
(* step taken, the halvings at which r_new was evaluated (None: it is not     *)
(* kept) and whether the search was exhausted.                                *)

Found(k) == [halved |-> k, r_new |-> k, exhausted |-> FALSE]

\* Mutant: the residual of the last trial is not cleared, and the length stays
\* halved after it.
ExhaustedKeepsResidual ==
    [halved |-> ArmijoMax, r_new |-> ArmijoMax - 1, exhausted |-> TRUE]

\* Every trial was worse: the last, shortest one is taken all the same, and
\* its residual, cleared for the next trial, is evaluated again.
Exhausted == [halved |-> ArmijoMax - 1, r_new |-> None, exhausted |-> TRUE]

Unsearched == [halved |-> 0, r_new |-> None, exhausted |-> FALSE]

Outcomes ==
    IF dir.descends /\ ArmijoMax > 0
    THEN {Found(k) : k \in 0..(ArmijoMax - 1)} \cup {Exhausted}
    ELSE {Unsearched}

\* The residual belongs to the new point only when both have the same length.
ResidualAfter(o) == IF o.r_new = None \/ o.r_new = o.halved THEN x + 1 ELSE x

\* a_p < 0.1 raises the damping of the boxes, a_p >= 0.5 lowers it; a_p is open.
Damped == {box_scale,
           IF box_scale < ProxSteps THEN box_scale + 1 ELSE box_scale,
           IF box_scale > 0 THEN box_scale - 1 ELSE box_scale}

Step(o) ==
    /\ x' = x + 1
    /\ r' = ResidualAfter(o)
    /\ mu' \in Levels
    /\ small' \in BOOLEAN
    /\ box_scale' \in Damped
    /\ dir' = None

\* The limit of failed searches stops the loop after the step.
StopSearch(o) == o.exhausted /\ fails + 1 >= MaxSearchFailures

Search ==
    /\ pc = "search"
    /\ \E o \in Outcomes :
          /\ Step(o)
          /\ fails' = fails + IF o.exhausted THEN 1 ELSE 0
          /\ IF StopSearch(o)
             THEN Finish("stalled", "STALLED") /\ UNCHANGED it
             ELSE it' = it + 1 /\ pc' = "test" /\ UNCHANGED result
    /\ UNCHANGED <<pairs, huber, w, mu_last, lin, factor, tested>>

Next ==
    \/ Converged \/ Factorize \/ IterationLimit
    \/ ChooseDirection
    \/ Search

Spec == Init /\ [][Next]_vars

-----------------------------------------------------------------------------
(* The variables have the values solve_ipm_pd gives them; the damping of the   *)
(* boxes stays between box_prox and box_prox_max, and the failed searches of a *)
(* running solve stay below max_search_failures.                               *)
TypeOK ==
    /\ pc \in {"test", "direction", "search", "done"}
    /\ pairs \in BOOLEAN /\ huber \in BOOLEAN /\ small \in BOOLEAN
    /\ it \in 0..MaxIter
    /\ x \in 0..MaxIter /\ r \in 0..MaxIter /\ w \in 0..MaxIter + 1
    /\ mu \in Levels /\ mu_last \in {"high", "frozen", "low"}
    /\ lin \in {None} \cup [x : Nat, r : Nat, w : Nat, factor : Nat]
    /\ dir \in {None} \cup [kind : {"predictor", "corrector", "centering"},
                            x : Nat, factor : Nat, descends : BOOLEAN]
    /\ factor \in 0..MaxIter
    /\ fails \in 0..MaxSearchFailures
    /\ pc # "done" => fails < MaxSearchFailures
    /\ box_scale \in 0..ProxSteps
    /\ tested \in -1..MaxIter

(* The direction a search follows, corrector or centering, is taken at the     *)
(* current point, with its residual and the weights of this iteration, and on  *)
(* the factor asked for last, the only one the solver still holds; and the     *)
(* residual at the loop head is that of the point, however the search ended.   *)
DirectionIsOfThisPoint ==
    /\ pc \in {"test", "direction", "search"} => r = x
    /\ pc \in {"direction", "search"} =>
          lin = [x |-> x, r |-> x, w |-> w, factor |-> factor]
    /\ pc = "search" => dir.x = x /\ dir.factor = factor

(* What a result says: "kkt" that every stopping test was made, after at least *)
(* one step, at the point handed back; STALLED that the searches, counted over *)
(* the whole call, used up their allowance, with the last point one step after *)
(* the last factorization; and in every case the iterations reported are the   *)
(* factorizations made.                                                        *)
ResultIsDescribed ==
    pc = "done" =>
        /\ result.status = "kkt" =>
              tested = x /\ x > 0 /\ mu = "low" /\ small
        /\ result.solve_status = "STALLED" =>
              fails = MaxSearchFailures /\ lin.x = x - 1
        /\ result.solve_status = "MAX_ITER" => x = MaxIter
        /\ result.iterations = factor
=============================================================================
