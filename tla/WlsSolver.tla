----------------------------- MODULE WlsSolver -----------------------------
(* algorithms/wls.py, solve_wls: the trust-region Gauss-Newton loop with its   *)
(* Levenberg-Marquardt fallback, and the status it reports.                   *)
(*                                                                            *)
(* Lengths (trust-region radius, steps, tolerance) are numbers of halvings of *)
(* max_step = 0.35: n stands for (0.35 / 2^(n+1), 0.35 / 2^n], so a LARGER    *)
(* number is a SMALLER length.  The damping lam is its number of decades above *)
(* 1e-14; 0 is the undamped lam = 0.0.  An objective is an ordered value; its  *)
(* floating-point noise is equality.                                          *)
EXTENDS Integers

CONSTANTS
    Tolerances,     \* values the caller may give for tolerance
    StepSizes,      \* sizes a Gauss-Newton or damped step may have
    Objectives,     \* values of r' R^-1 r
    MaxIterations,  \* max_iterations
    Warmup          \* huber_warmup_iters

VanishedStep == 49     \* below 1e-15

(* A tolerance below the step that counts as vanished would be met by none    *)
(* but vanished steps.                                                        *)
ASSUME ParametersAssumption ==
    /\ Tolerances \subseteq 0..VanishedStep
    /\ StepSizes \subseteq Nat
    /\ Objectives \subseteq Nat
    /\ MaxIterations \in Nat
    /\ Warmup \in Nat

SmallestRadius == 32   \* tr_radius_min = 1e-10
\* Mutant: too few attempts.
FewAttempts == 10
InnerMax == 16         \* inner_max
LamInit == 11          \* lam_init = 1e-3
LamMax == 22           \* lam_max = 1e8
Unbounded == -1        \* the step of a system that cannot be solved: inf

Statuses == {"kkt", "tr_collapsed", "max_iter", "stalled", "diverged", "error"}
NoStatus == "none"

VARIABLES
    pc,         \* "loop", "inner", "finish" or "done"
    tolerance,  \* argument
    huber,      \* argument: huber_c > 0
    start,      \* objective at e_init (kept for the properties)
    objective,  \* J at the current iterate
    gn,         \* size of the undamped step of the current G and rhs
    radius,     \* tr_radius
    lam,        \* Levenberg-Marquardt damping
    attempt,    \* inner
    cur_it,     \* accepted iterations
    plain,      \* last_step_plain_gn
    small,      \* current_error <= tolerance
    diverged,
    stop,       \* stop_status, or NoStatus
    result      \* the status returned, or NoStatus

args == <<tolerance, huber, start>>
region == <<radius, lam>>
vars == <<pc, args, objective, gn, region, attempt, cur_it, plain, small, diverged, stop, result>>

Smaller(a, b) == IF a >= b THEN a ELSE b        \* min() of two lengths
Larger(a, b) == IF a <= b THEN a ELSE b         \* max() of two lengths
MaxLam(a, b) == IF a >= b THEN a ELSE b

(* lam > 1e-12: the products of 10.0 and 0.1 that give 1e-12 (l = 2) all      *)
(* round to a little more than the literal, so 1e-13 is the last damping.     *)
Cooled(l) == IF l >= 2 THEN l - 1 ELSE 0

Halved(r) == Larger(SmallestRadius, r + 1)
\* Mutant: a rejection only halves the radius.
HalvedInstead(r) == Halved(r)
Quartered(r) == Larger(SmallestRadius, r + 2)
Recovered(r) == Smaller(0, r - 1)
Heated(l) == MaxLam(LamInit, l + 1)

-----------------------------------------------------------------------------
Init ==
    /\ pc = "loop"
    /\ tolerance \in Tolerances
    /\ huber \in BOOLEAN
    /\ objective \in Objectives
    /\ start = objective
    /\ gn = Unbounded
    /\ radius = 0
    /\ lam = 0
    /\ attempt = 0
    /\ cur_it = 0
    /\ plain = FALSE
    /\ small = FALSE
    /\ diverged = FALSE
    /\ stop = NoStatus
    /\ result = NoStatus

(* An empty measurement vector returns before the first iteration.            *)
NoMeasurements ==
    /\ pc = "loop" /\ cur_it = 0
    /\ pc' = "done"
    /\ result' = "error"
    /\ UNCHANGED <<args, objective, gn, region, attempt, cur_it, plain, small, diverged, stop>>

LoopAgain == ~small /\ cur_it < MaxIterations

(* Weights start to move after the warm-up; the objective is recomputed under *)
(* the new ones.                                                              *)
Reweighted == IF huber /\ cur_it > Warmup THEN Objectives ELSE {objective}

StartIteration ==
    /\ pc = "loop" /\ LoopAgain
    /\ objective' \in Reweighted
    /\ gn' \in StepSizes \cup {Unbounded}
    /\ attempt' = 0
    /\ pc' = "inner"
    /\ UNCHANGED <<args, region, cur_it, plain, small, diverged, stop, result>>

ZeroDiagonal ==
    /\ pc = "loop" /\ LoopAgain
    /\ objective' \in Reweighted
    /\ gn' = Unbounded
    /\ stop' = "error"
    /\ pc' = "finish"
    /\ UNCHANGED <<args, region, attempt, cur_it, plain, small, diverged, result>>

LoopEnds ==
    /\ pc = "loop" /\ ~LoopAgain
    /\ pc' = "finish"
    /\ UNCHANGED <<args, objective, gn, region, attempt, cur_it, plain, small, diverged, stop, result>>

-----------------------------------------------------------------------------
(* _solve_in_trust_region: without damping the Gauss-Newton step, clipped to  *)
(* the radius; with damping some step within the radius.                      *)
StepsWithin ==
    IF lam > 0 THEN {s \in StepSizes \cup {radius} : s >= radius}
    ELSE IF gn = Unbounded THEN {}
    ELSE {Smaller(gn, radius)}

TrialSteps == {s \in StepsWithin : s < VanishedStep}

(* lam = 0 and the step shorter than the radius: open when both have the      *)
(* same number of halvings.                                                   *)
\* Mutant: a damped step may count as plain.
NoteUnclipped == plain' = (gn > radius)
NotePlain ==
    /\ plain' \in BOOLEAN
    /\ plain' => lam = 0 /\ gn >= radius
    /\ lam = 0 /\ gn > radius => plain'

(* at_boundary, 0.9 of the radius: the clipped step reaches it, another step  *)
(* as many halvings long as the radius may.                                   *)
AtBoundary(s) == s = radius
Clipped == lam = 0 /\ gn < radius

Break(status) ==
    /\ diverged' = TRUE
    /\ stop' = status
    /\ pc' = "finish"
    /\ UNCHANGED <<args, objective, gn, attempt, cur_it, small, result>>

Unsolvable ==
    /\ pc = "inner"
    /\ gn = Unbounded \/ lam > 0
    /\ plain' = (lam = 0)
    /\ Break("error")
    /\ UNCHANGED region

NonFinite ==
    /\ pc = "inner"
    /\ TrialSteps /= {}
    /\ NotePlain
    /\ Break("diverged")
    /\ UNCHANGED region

\* Mutant: a step that is taken is not counted.
AcceptUncounted(s, J) ==
    /\ NotePlain
    /\ objective' = J
    /\ small' = (s >= tolerance)
    /\ pc' = "loop"
    /\ UNCHANGED <<args, gn, attempt, cur_it, diverged, stop, result>>

(* Everything an accepted step does after the inner loop.                     *)
Accept(s, J) ==
    /\ NotePlain
    /\ objective' = J
    /\ small' = (s >= tolerance)
    /\ cur_it' = cur_it + 1
    /\ pc' = "loop"
    /\ UNCHANGED <<args, gn, attempt, diverged, stop, result>>

VanishedStepAccepted ==
    /\ pc = "inner"
    /\ \E s \in StepsWithin : s >= VanishedStep
    /\ NotePlain
    /\ small' = TRUE
    /\ cur_it' = cur_it + 1
    /\ pc' = "loop"
    /\ UNCHANGED <<args, objective, gn, region, attempt, diverged, stop, result>>

(* A step within the tolerance is taken without the ratio test.               *)
ForcedStep ==
    /\ pc = "inner"
    /\ \E s \in TrialSteps, J \in Objectives :
          /\ s >= tolerance
          /\ Accept(s, J)
    /\ lam' = Cooled(lam)
    /\ UNCHANGED radius

\* Mutant: the actual reduction is not tested.
AnyReduction(J) == TRUE
(* ared >= -obj_noise                                                         *)
NotWorse(J) == J <= objective

(* rho < 1/4, 1/4 <= rho <= 1/2 and rho > 1/2.                                *)
Ratios == {"poor", "fair", "good"}

StepAccepted ==
    /\ pc = "inner"
    /\ \E s \in TrialSteps, J \in Objectives, rho \in Ratios :
          /\ s < tolerance
          /\ NotWorse(J)
          /\ Accept(s, J)
          /\ \/ /\ rho = "poor" /\ AtBoundary(s)
                /\ lam' = MaxLam(lam, LamInit)
                /\ radius' = Halved(radius)
             \/ /\ ~(rho = "poor" /\ Clipped)
                /\ lam' = Cooled(lam)
                /\ radius' = IF rho = "good" THEN Recovered(radius) ELSE radius

NextAttempt ==
    /\ attempt' = attempt + 1
    /\ UNCHANGED <<args, objective, gn, cur_it, small, diverged, result>>
    /\ IF attempt + 1 < InnerMax
       THEN UNCHANGED <<pc, stop>>
       ELSE pc' = "finish" /\ stop' = "stalled"

(* lam > lam_max is open at LamMax: a damping that only grew reaches exactly   *)
(* 1e8, one that was cooled in between a value just above it.                 *)
StepRejected ==
    /\ pc = "inner"
    /\ \E s \in TrialSteps : s < tolerance
    /\ \E J \in Objectives : ~NotWorse(J)
    /\ NotePlain
    /\ radius' = Quartered(radius)
    /\ lam' = Heated(lam)
    /\ \/ /\ lam' >= LamMax \/ radius' = SmallestRadius
          /\ Break("stalled")
       \/ /\ lam' <= LamMax /\ radius' /= SmallestRadius
          /\ NextAttempt

-----------------------------------------------------------------------------
success == small /\ ~diverged

Finish ==
    /\ pc = "finish"
    /\ pc' = "done"
    /\ result' = IF stop /= NoStatus THEN stop
                 ELSE IF ~success THEN "max_iter"
                 ELSE IF plain \/ gn >= tolerance THEN "kkt"
                 ELSE "tr_collapsed"
    /\ UNCHANGED <<args, objective, gn, region, attempt, cur_it, plain, small, diverged, stop>>

Returned == pc = "done" /\ UNCHANGED vars

Next ==
    \/ NoMeasurements \/ StartIteration \/ ZeroDiagonal \/ LoopEnds
    \/ Unsolvable \/ NonFinite \/ VanishedStepAccepted \/ ForcedStep
    \/ StepAccepted \/ StepRejected
    \/ Finish \/ Returned

Spec == Init /\ [][Next]_vars /\ WF_vars(Next)

-----------------------------------------------------------------------------
(* Every variable has its type, and the attempts of an iteration are counted  *)
(* within inner_max.                                                          *)
TypeOK ==
    /\ pc \in {"loop", "inner", "finish", "done"}
    /\ tolerance \in Tolerances
    /\ huber \in BOOLEAN
    /\ start \in Objectives /\ objective \in Objectives
    /\ gn \in StepSizes \cup {Unbounded}
    /\ radius \in 0..SmallestRadius
    /\ lam \in 0..(LamMax + 1)
    /\ attempt \in 0..InnerMax
    /\ cur_it \in 0..MaxIterations
    /\ plain \in BOOLEAN /\ small \in BOOLEAN /\ diverged \in BOOLEAN
    /\ stop \in Statuses \cup {NoStatus}
    /\ result \in Statuses \cup {NoStatus}

(* The status tells how the solve ended (status.py 19-59): a run is a success *)
(* under the legacy rule exactly when its status is KKT or TR_COLLAPSED, and  *)
(* of these KKT is the one whose undamped Gauss-Newton step, in the system of *)
(* the last iteration, is within the tolerance.                               *)
StatusMeaning ==
    pc = "done" =>
        /\ result \in {"kkt", "tr_collapsed"} <=> success
        /\ success => (result = "kkt" <=> gn >= tolerance)

(* A solve that fails returns a state no worse than the one it was given: a   *)
(* step that raises the objective is taken only when it ends the solve with   *)
(* success.  (Reweighting changes what the objective measures, so the robust  *)
(* variant promises nothing of the kind.)                                     *)
FailureIsNoWorse ==
    pc = "done" /\ ~success /\ ~huber => objective <= start

(* STALLED always means that the damping or the trust region reached its      *)
(* limit: the limit is met before the inner_max attempts of an iteration run  *)
(* out, whatever the iterations before left in tr_radius and lam.             *)
StallMeansLimitReached ==
    stop = "stalled" => lam >= LamMax \/ radius = SmallestRadius

(* Down to a tolerance of 1.7e-7 (0.35 / 2^21; the default is 1e-6) WLS never *)
(* stalls: repeated rejections shrink the trust region below the tolerance    *)
(* first, and the step is then forced.  A solve that finds no acceptable step *)
(* therefore ends as TR_COLLAPSED, with legacy success.                       *)
SmallestUsable == 21
NoStallAtUsableTolerance ==
    tolerance <= SmallestUsable => result /= "stalled"

(* The solve returns: no sequence of accepted and rejected steps keeps it in  *)
(* its loops.                                                                 *)
Termination == <>(pc = "done")
=============================================================================
