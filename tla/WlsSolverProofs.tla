-------------------------- MODULE WlsSolverProofs --------------------------
(* Proofs about WlsSolver for every set of tolerances, step sizes and         *)
(* objectives, and for every iteration budget.                                *)
(*                                                                            *)
(* The argument: every rejection adds one decade to the damping and two       *)
(* halvings to the radius, every other step takes back at most one of each.   *)
(* So a large damping always comes with a small radius (SmallWhenDamped), and *)
(* the damping counts the rejections of the iteration (AttemptsHeat).  The    *)
(* first makes a usable tolerance force a step before the damping limit, the  *)
(* second makes the damping limit come before inner_max attempts.             *)
EXTENDS WlsSolver, TLAPS

Iterating == pc \in {"loop", "inner"}

(* While the solve iterates nothing is decided yet.                           *)
Undecided ==
    /\ Iterating => ~diverged /\ stop = NoStatus /\ lam <= LamMax
    /\ pc = "inner" => ~small /\ cur_it < MaxIterations
    /\ cur_it = 0 => ~small

SmallWhenDamped == lam >= LamInit => radius >= 2 * lam - 21

AttemptsHeat == pc = "inner" /\ attempt >= 1 => lam >= LamInit - 1 + attempt

StopExplained ==
    /\ stop \in {NoStatus, "error", "diverged", "stalled"}
    /\ stop /= NoStatus \/ diverged => ~small
    /\ StallMeansLimitReached
    /\ stop = "stalled" => tolerance > SmallestUsable

(* A step both plain and small is the undamped Gauss-Newton step itself.      *)
PlainIsUndamped == small /\ plain => gn >= tolerance

NoWorse == ~huber => small \/ objective <= start

ResultExplained ==
    /\ StatusMeaning
    /\ pc = "done" => (result = "stalled" => stop = "stalled")
    /\ pc /= "done" => result = NoStatus

IInv ==
    /\ TypeOK
    /\ Undecided
    /\ SmallWhenDamped
    /\ AttemptsHeat
    /\ StopExplained
    /\ PlainIsUndamped
    /\ NoWorse
    /\ ResultExplained

-----------------------------------------------------------------------------
(* Facts about the helpers.                                                   *)

(* A trial step is within the trust region.                                   *)
LEMMA StepsAreWithin ==
    ASSUME TypeOK, NEW s \in StepsWithin
    PROVE  s \in Nat /\ s >= radius
BY ParametersAssumption
   DEF TypeOK, StepsWithin, Smaller, Unbounded, SmallestRadius

(* A plain step is the undamped Gauss-Newton step, not clipped.               *)
LEMMA PlainStepIsUndamped ==
    ASSUME TypeOK, NEW s \in StepsWithin, lam = 0, gn >= radius
    PROVE  s = gn
BY ParametersAssumption
   DEF TypeOK, StepsWithin, Smaller, Unbounded, SmallestRadius

(* Cooling gives back at most one decade, and none below zero.                *)
LEMMA CooledIsBelow ==
    ASSUME NEW l \in 0..LamMax
    PROVE  Cooled(l) \in 0..LamMax /\ (Cooled(l) >= LamInit => Cooled(l) = l - 1)
BY DEF Cooled, LamMax, LamInit

LEMMA InitIInv == Init => IInv
<1> SUFFICES ASSUME Init PROVE IInv
  OBVIOUS
<1>1. TypeOK
  <2>1. 0 \in 0..SmallestRadius /\ 0 \in 0..(LamMax + 1) /\ 0 \in 0..InnerMax
    BY DEF SmallestRadius, LamMax, InnerMax
  <2>2. 0 \in 0..MaxIterations
    BY ParametersAssumption
  <2>3. QED
    BY <2>1, <2>2 DEF Init, TypeOK
<1>2. Undecided /\ SmallWhenDamped /\ AttemptsHeat /\ PlainIsUndamped
  BY DEF Init, Undecided, Iterating, SmallWhenDamped, AttemptsHeat, PlainIsUndamped, LamInit, LamMax
<1>3. StopExplained /\ ResultExplained
  BY DEF Init, StopExplained, ResultExplained, StatusMeaning, StallMeansLimitReached, NoStatus
<1>4. NoWorse
  BY <1>1, ParametersAssumption DEF Init, NoWorse, TypeOK
<1>5. QED
  BY <1>1, <1>2, <1>3, <1>4 DEF IInv

-----------------------------------------------------------------------------
(* The steps, one action at a time.                                           *)

USE DEF IInv, TypeOK, Undecided, Iterating, SmallWhenDamped, AttemptsHeat, StopExplained,
        PlainIsUndamped, NoWorse, ResultExplained, StatusMeaning, StallMeansLimitReached,
        success, NoStatus, Statuses, LamInit, LamMax, SmallestRadius, InnerMax, SmallestUsable,
        args, region

LEMMA NoMeasurementsStep == IInv /\ NoMeasurements => IInv'
BY DEF NoMeasurements

LEMMA StartIterationStep == IInv /\ StartIteration => IInv'
BY DEF StartIteration, LoopAgain, Reweighted

LEMMA ZeroDiagonalStep == IInv /\ ZeroDiagonal => IInv'
BY DEF ZeroDiagonal, LoopAgain, Reweighted

LEMMA LoopEndsStep == IInv /\ LoopEnds => IInv'
BY DEF LoopEnds, LoopAgain

LEMMA UnsolvableStep == IInv /\ Unsolvable => IInv'
BY DEF Unsolvable, Break

LEMMA NonFiniteStep == IInv /\ NonFinite => IInv'
BY DEF NonFinite, Break, NotePlain

LEMMA FinishStep == IInv /\ Finish => IInv'
BY ParametersAssumption DEF Finish

LEMMA StutterStep == IInv /\ UNCHANGED vars => IInv'
BY DEF vars

-----------------------------------------------------------------------------
(* A vanished step is within every tolerance.                                 *)
LEMMA VanishedStep_Step == IInv /\ VanishedStepAccepted => IInv'
<1> SUFFICES ASSUME IInv, VanishedStepAccepted PROVE IInv'
  OBVIOUS
<1>1. PICK s \in StepsWithin : s >= VanishedStep
  BY DEF VanishedStepAccepted
<1>2. VanishedStep \in Nat /\ tolerance \in Nat /\ tolerance <= VanishedStep
  BY ParametersAssumption DEF VanishedStep
<1>3. plain' => gn' >= tolerance'
  BY <1>1, <1>2, StepsAreWithin, PlainStepIsUndamped DEF VanishedStepAccepted, NotePlain
<1>4. QED
  BY <1>2, <1>3, ParametersAssumption DEF VanishedStepAccepted, NotePlain

(* What every accepted step keeps; its radius and damping come separately.    *)
LEMMA AcceptKeeps ==
    ASSUME IInv, pc = "inner",
           NEW s \in StepsWithin, NEW J \in Objectives, Accept(s, J),
           s >= tolerance \/ J <= objective,
           radius' \in 0..SmallestRadius, lam' \in 0..LamMax, SmallWhenDamped'
    PROVE  IInv'
<1>1. s \in Nat /\ s >= radius /\ tolerance \in Nat
  BY StepsAreWithin, ParametersAssumption
<1>2. PlainIsUndamped'
  BY <1>1, PlainStepIsUndamped DEF Accept, NotePlain
<1>3. NoWorse'
  <2>1. CASE s >= tolerance
    BY <2>1 DEF Accept
  <2>2. CASE J <= objective
    <3>1. {J, objective, start} \subseteq Nat
      BY ParametersAssumption
    <3>2. ~huber => objective <= start
      OBVIOUS
    <3>3. QED
      BY <2>2, <3>1, <3>2 DEF Accept
  <2>3. QED
    BY <2>1, <2>2
<1>4. TypeOK'
  BY ParametersAssumption DEF Accept, NotePlain
<1>5. Undecided' /\ AttemptsHeat' /\ StopExplained' /\ ResultExplained'
  BY ParametersAssumption, <1>4 DEF Accept
<1>6. QED
  BY <1>2, <1>3, <1>4, <1>5

LEMMA ForcedStepStep == IInv /\ ForcedStep => IInv'
<1> SUFFICES ASSUME IInv, ForcedStep PROVE IInv'
  OBVIOUS
<1>1. PICK s \in TrialSteps, J \in Objectives : s >= tolerance /\ Accept(s, J)
  BY DEF ForcedStep
<1>2. s \in StepsWithin
  BY DEF TrialSteps
<1>3. radius' = radius /\ lam' = Cooled(lam) /\ pc = "inner"
  BY DEF ForcedStep
<1>4. lam' \in 0..LamMax /\ SmallWhenDamped'
  BY <1>3, CooledIsBelow
<1>5. QED
  BY <1>1, <1>2, <1>3, <1>4, AcceptKeeps

LEMMA StepAcceptedStep == IInv /\ StepAccepted => IInv'
<1> SUFFICES ASSUME IInv, StepAccepted PROVE IInv'
  OBVIOUS
<1>1. pc = "inner"
  BY DEF StepAccepted
<1>2. PICK s \in TrialSteps, J \in Objectives, rho \in Ratios :
         /\ J <= objective
         /\ Accept(s, J)
         /\ \/ lam' = MaxLam(lam, LamInit) /\ radius' = Halved(radius)
            \/ lam' = Cooled(lam) /\ radius' \in {radius, Recovered(radius)}
  BY DEF StepAccepted, NotWorse
<1>3. s \in StepsWithin
  BY DEF TrialSteps
<1>4. radius' \in 0..SmallestRadius /\ lam' \in 0..LamMax /\ SmallWhenDamped'
  <2>1. CASE lam' = MaxLam(lam, LamInit) /\ radius' = Halved(radius)
    BY <1>1, <2>1 DEF MaxLam, Halved, Larger
  <2>2. CASE lam' = Cooled(lam) /\ radius' \in {radius, Recovered(radius)}
    <3>1. radius' \in 0..SmallestRadius /\ radius' >= radius - 1
      BY <2>2 DEF Recovered, Smaller
    <3>2. QED
      BY <1>1, <2>2, <3>1, CooledIsBelow
  <2>3. QED
    BY <1>2, <2>1, <2>2
<1>5. QED
  BY <1>1, <1>2, <1>3, <1>4, AcceptKeeps

-----------------------------------------------------------------------------
(* A rejected step is longer than the tolerance, so the tolerance is smaller  *)
(* than the radius; if the damping limit is reached the radius was already    *)
(* small.                                                                     *)
LEMMA StepRejectedStep == IInv /\ StepRejected => IInv'
<1> SUFFICES ASSUME IInv, StepRejected PROVE IInv'
  OBVIOUS
<1>1. PICK s \in StepsWithin : s < tolerance
  BY DEF StepRejected, TrialSteps
<1>2. /\ pc = "inner" /\ NotePlain
      /\ radius' = Quartered(radius) /\ lam' = Heated(lam)
  BY DEF StepRejected
<1>3. tolerance \in Nat /\ tolerance > radius
  BY <1>1, StepsAreWithin, ParametersAssumption
<1>4. /\ radius' \in 0..SmallestRadius /\ radius' <= radius + 2
      /\ radius' = SmallestRadius \/ radius' = radius + 2
  BY <1>2 DEF Quartered, Larger
<1>5. /\ lam' \in LamInit..(LamMax + 1) /\ lam' >= lam + 1
      /\ lam' = LamInit \/ lam' = lam + 1
  BY <1>2 DEF Heated, MaxLam
<1>6. SmallWhenDamped' /\ plain' \in BOOLEAN
  BY <1>2, <1>4, <1>5 DEF NotePlain
<1>7. CASE (lam' >= LamMax \/ radius' = SmallestRadius) /\ Break("stalled")
  <2>1. tolerance > SmallestUsable
    BY <1>2, <1>3, <1>4, <1>5, <1>7
  <2>2. QED
    BY <1>2, <1>4, <1>5, <1>6, <1>7, <2>1 DEF Break
<1>8. CASE lam' <= LamMax /\ NextAttempt
  <2>1. lam' >= LamInit - 1 + (attempt + 1)
    BY <1>2, <1>5
  <2>2. attempt' = attempt + 1 /\ attempt' < InnerMax
    BY <1>5, <1>8, <2>1 DEF NextAttempt
  <2>3. UNCHANGED <<pc, stop, args, objective, gn, cur_it, small, diverged, result>>
    BY <1>8, <2>2 DEF NextAttempt
  <2>4. QED
    BY <1>2, <1>4, <1>5, <1>6, <1>8, <2>1, <2>2, <2>3
<1>9. QED
  BY <1>7, <1>8 DEF StepRejected

LEMMA NextIInv == IInv /\ [Next]_vars => IInv'
BY NoMeasurementsStep, StartIterationStep, ZeroDiagonalStep, LoopEndsStep, UnsolvableStep,
   NonFiniteStep, VanishedStep_Step, ForcedStepStep, StepAcceptedStep, StepRejectedStep,
   FinishStep, StutterStep
   DEF Next, Returned

-----------------------------------------------------------------------------
HIDE DEF IInv, TypeOK, Undecided, Iterating, SmallWhenDamped, AttemptsHeat, StopExplained,
         PlainIsUndamped, NoWorse, ResultExplained, StatusMeaning, StallMeansLimitReached,
         success, NoStatus, Statuses, LamInit, LamMax, SmallestRadius, InnerMax, SmallestUsable,
         args, region

(* The inductive invariant of solve_wls.                                      *)
THEOREM Invariance == Spec => []IInv
BY InitIInv, NextIInv, PTL DEF Spec

(* Every variable of solve_wls keeps its type: the radius its bounds, the     *)
(* damping at most one decade over its limit, the counters their budgets.     *)
THEOREM TypeCorrect == Spec => []TypeOK
<1>1. IInv => TypeOK
  BY DEF IInv
<1>2. QED
  BY <1>1, Invariance, PTL

(* The status of the result says how the solve ended.                         *)
THEOREM StatusMeaningAlways == Spec => []StatusMeaning
<1>1. IInv => StatusMeaning
  BY DEF IInv, ResultExplained
<1>2. QED
  BY <1>1, Invariance, PTL

(* A failed solve without reweighting returns a state no worse than e_init.   *)
THEOREM FailureIsNoWorseAlways == Spec => []FailureIsNoWorse
<1>1. IInv => FailureIsNoWorse
  BY DEF FailureIsNoWorse, IInv, NoWorse, StopExplained, success
<1>2. QED
  BY <1>1, Invariance, PTL

(* The inner loop always ends by a limit, never by running out of attempts.   *)
THEOREM StallMeansLimitReachedAlways == Spec => []StallMeansLimitReached
<1>1. IInv => StallMeansLimitReached
  BY DEF IInv, StopExplained
<1>2. QED
  BY <1>1, Invariance, PTL

(* At a usable tolerance solve_wls never reports STALLED.                     *)
THEOREM NoStallAtUsableToleranceAlways == Spec => []NoStallAtUsableTolerance
<1>1. IInv => NoStallAtUsableTolerance
  BY ParametersAssumption
     DEF NoStallAtUsableTolerance, IInv, TypeOK, StopExplained, ResultExplained, SmallestUsable,
         NoStatus
<1>2. QED
  BY <1>1, Invariance, PTL
=============================================================================
