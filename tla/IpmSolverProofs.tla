-------------------------- MODULE IpmSolverProofs --------------------------
(* Proofs about IpmSolver for every limit of the call and every length of the *)
(* schedule.                                                                  *)
(*                                                                            *)
(* The argument: an accepted step leaves a gradient that is one step old, and *)
(* the next iteration measures it afresh; so only an inner loop whose last    *)
(* iteration was an accepted one, and that can be no other than the one that  *)
(* used up inner_max, hands an old gradient on (GradientAge).  The flags and  *)
(* the recorded exit of that loop agree (ExitRecorded), and what is lowered   *)
(* or shifted between two rounds no longer decides a status once the rounds   *)
(* are used up.                                                               *)
EXTENDS IpmSolver, TLAPS

(* Without a box there is nothing to lower.                                   *)
NoBoxNoMu == ~hasBox => mu = 0

(* Inside an inner loop every iteration so far was an accepted step.          *)
Stepping ==
    pc = "inner" =>
        /\ ~converged /\ ~stalled
        /\ inner > 0 =>
              /\ stepped /\ r /= None
              /\ grad.x = x - 1 /\ grad.shift = shift /\ grad.mu = mu

GradientAge ==
    pc \in {"outer", "after"} /\ outer > 0 =>
        /\ last.x = x
        /\ grad.shift = last.shift /\ grad.mu = last.mu
        /\ grad.x = x \/ (grad.x = x - 1 /\ last.exit = "spent")

ExitRecorded ==
    pc = "after" =>
        /\ last.shift = shift /\ last.mu = mu
        /\ converged <=> last.exit = "tolerance"
        /\ stalled <=> last.exit = "stalled"
        /\ last.exit = "spent" => stepped
        /\ last.exit /= "none"

ResultExplained ==
    /\ pc = "done" =>
          result \in [status : {"kkt", "completed", "stalled", "error"},
                      solve_status : {"KKT", "MAX_ITER", "MU_SCHEDULE_DONE", "STALLED", "ERROR"}]
    /\ StatusDescribesResult
    /\ EarlyStopIsAStall

IInv ==
    /\ TypeOK
    /\ ResidualIsCurrent
    /\ NoBoxNoMu
    /\ Stepping
    /\ GradientAge
    /\ ExitRecorded
    /\ ResultExplained

-----------------------------------------------------------------------------
(* The residual that is read is of the current point, evaluated or reused.    *)
LEMMA ResidualIsHere ==
    ASSUME TypeOK, ResidualIsCurrent
    PROVE  Residual = Here /\ Here \in Points /\ Here.x = x /\ Here.shift = shift
BY DEF TypeOK, ResidualIsCurrent, Residual, Here, Points

LEMMA InitIInv == Init => IInv
<1> SUFFICES ASSUME Init PROVE IInv
  OBVIOUS
<1>1. mu \in 0..MuSteps
  BY LimitsAssumption DEF Init
<1>2. grad.x = 0 /\ grad \in [x : Nat, shift : Nat, mu : 0..MuSteps, size : Sizes]
  BY <1>1 DEF Init, Sizes
<1>3. last \in [x : Nat, shift : Nat, mu : 0..MuSteps,
                exit : {"none", "tolerance", "stalled", "spent"}]
  BY <1>1 DEF Init
<1>4. /\ 0 \in 0..OuterMax /\ 0 \in 0..InnerMax /\ 0 \in 0..ExtraMax
      /\ pc = "outer" /\ r \in {None} \cup Points /\ weights \in {None} \cup Points
  BY LimitsAssumption DEF Init
<1>5. TypeOK
  BY <1>1, <1>2, <1>3, <1>4 DEF Init, TypeOK
<1>6. QED
  BY <1>5 DEF Init, IInv, ResidualIsCurrent, NoBoxNoMu, Stepping, GradientAge,
              ExitRecorded, ResultExplained, StatusDescribesResult, EarlyStopIsAStall

-----------------------------------------------------------------------------
(* The steps, one action at a time.                                           *)

USE DEF IInv, TypeOK, Sizes, Points, NoBoxNoMu, Stepping, GradientAge, ExitRecorded,
        ResultExplained, EarlyStopIsAStall, StatusDescribesResult, ResidualIsCurrent,
        Here, success, problem, flags

LEMMA StartRoundStep == IInv /\ StartRound => IInv'
<1> SUFFICES ASSUME IInv, StartRound PROVE IInv'
  OBVIOUS
<1>1. outer' \in 0..OuterMax /\ inner' \in 0..InnerMax /\ outer' > 0 /\ inner' = 0
  BY LimitsAssumption DEF StartRound
<1>2. TypeOK'
  BY <1>1 DEF StartRound
<1>3. QED
  BY <1>1, <1>2 DEF StartRound

LEMMA OuterExhaustedStep == IInv /\ OuterExhausted => IInv'
BY LimitsAssumption DEF OuterExhausted, Finish, SolveStatus, AtMuMin

LEMMA InnerExhaustedStep == IInv /\ InnerExhausted => IInv'
BY LimitsAssumption DEF InnerExhausted

LEMMA NewtonStep == IInv /\ Newton => IInv'
<1> SUFFICES ASSUME IInv, Newton PROVE IInv'
  OBVIOUS
<1>1. Residual = Here /\ Here \in Points
  BY ResidualIsHere
<1>2. /\ grad' \in [x : Nat, shift : Nat, mu : 0..MuSteps, size : Sizes]
      /\ grad'.x = x /\ grad'.shift = shift /\ grad'.mu = mu
      /\ weights' \in {None} \cup Points
  BY <1>1 DEF Newton, Measure, Reweighted
<1>3. CASE Converge
  BY <1>1, <1>2, <1>3, LimitsAssumption DEF Newton, Converge, InnerExit
<1>4. CASE Accept
  BY <1>1, <1>2, <1>4, LimitsAssumption DEF Newton, Accept, AcceptedResidual
<1>5. CASE NoStep
  BY <1>1, <1>2, <1>5, LimitsAssumption DEF Newton, NoStep, InnerExit
<1>6. CASE r' = Residual /\ Fail
  BY <1>1, <1>2, <1>6, LimitsAssumption DEF Newton, Fail
<1>7. QED
  BY <1>3, <1>4, <1>5, <1>6 DEF Newton

(* The result of a round that ends the schedule.                              *)
LEMMA LeaveStep ==
    ASSUME IInv, pc = "after", NEW done \in BOOLEAN, Leave(done),
           done => mu = 0,
           converged => mu = 0,
           hasBox /\ mu > 0 => NoProgress
    PROVE  IInv'
<1>1. TypeOK'
  BY DEF Leave, Finish
<1>2. result' \in [status : {"kkt", "completed", "stalled", "error"},
                   solve_status : {"KKT", "MAX_ITER", "MU_SCHEDULE_DONE", "STALLED", "ERROR"}]
  BY DEF Leave, Finish, SolveStatus
<1>3. StatusDescribesResult'
  BY <1>2 DEF Leave, Finish, SolveStatus
<1>4. EarlyStopIsAStall'
  BY <1>2 DEF Leave, Finish, NoProgress
<1>5. QED
  BY <1>1, <1>2, <1>3, <1>4 DEF Leave, Finish

LEMMA EqSettledStep ==
    ASSUME IInv, NEW eq_ok \in BOOLEAN, EqSettled(eq_ok)
    PROVE  IInv'
<1>1. pc = "after" /\ mu = 0 /\ Leave(TRUE)
  BY DEF EqSettled, LastProblem, AtMuMin
<1>2. ~(hasBox /\ mu > 0)
  BY <1>1
<1>3. QED
  BY <1>1, <1>2, LeaveStep, Zenon

LEMMA EqStuckStep ==
    ASSUME IInv, NEW eq_ok \in BOOLEAN, EqStuck(eq_ok)
    PROVE  IInv'
BY LeaveStep DEF EqStuck, NoProgress

LEMMA PlainDoneStep == IInv /\ PlainDone => IInv'
BY LeaveStep DEF PlainDone

LEMMA ScheduleDoneStep == IInv /\ ScheduleDone => IInv'
<1> SUFFICES ASSUME IInv, ScheduleDone PROVE IInv'
  OBVIOUS
<1>1. pc = "after" /\ mu = 0 /\ Leave(TRUE)
  BY DEF ScheduleDone, AtMuMin
<1>2. ~(hasBox /\ mu > 0)
  BY <1>1
<1>3. QED
  BY <1>1, <1>2, LeaveStep, Zenon

LEMMA StuckStep == IInv /\ Stuck => IInv'
BY LeaveStep DEF Stuck, NoProgress

LEMMA EqExtraRoundStep == IInv /\ EqExtraRound => IInv'
BY LimitsAssumption DEF EqExtraRound, UpdateMultipliers, NextRound

LEMMA EqNextMuStep == IInv /\ EqNextMu => IInv'
BY LimitsAssumption DEF EqNextMu, UpdateMultipliers, NextMu, NextRound

LEMMA LowerMuStep == IInv /\ LowerMu => IInv'
BY LimitsAssumption DEF LowerMu, NextMu, NextRound

LEMMA StutterStep == IInv /\ UNCHANGED vars => IInv'
BY DEF vars

LEMMA IInvInductive == IInv /\ [Next]_vars => IInv'
BY StartRoundStep, OuterExhaustedStep, NewtonStep, InnerExhaustedStep, EqSettledStep,
   EqStuckStep, EqExtraRoundStep, EqNextMuStep, PlainDoneStep, ScheduleDoneStep,
   StuckStep, LowerMuStep, StutterStep
   DEF Next

-----------------------------------------------------------------------------
HIDE DEF IInv, TypeOK, Sizes, Points, NoBoxNoMu, Stepping, GradientAge, ExitRecorded,
         ResultExplained, EarlyStopIsAStall, StatusDescribesResult, ResidualIsCurrent,
         Here, success, problem, flags

LEMMA IInvAlways == Spec => []IInv
BY InitIInv, IInvInductive, PTL DEF Spec

-----------------------------------------------------------------------------
(* Type correctness: the counters never pass the limits of the call, whatever *)
(* the sizes and the searches answer.                                         *)
THEOREM TypeCorrect == Spec => []TypeOK
<1>1. IInv => TypeOK
  BY DEF IInv
<1>2. QED
  BY <1>1, IInvAlways, PTL

(* The residual solve_ipm keeps for reuse is that of the current state and    *)
(* multipliers.                                                               *)
THEOREM ResidualNeverStale == Spec => []ResidualIsCurrent
<1>1. IInv => ResidualIsCurrent
  BY DEF IInv
<1>2. QED
  BY <1>1, IInvAlways, PTL

(* Each termination status describes the state that is returned.              *)
THEOREM StatusIsTrue == Spec => []StatusDescribesResult
<1>1. IInv => StatusDescribesResult
  BY DEF IInv, ResultExplained
<1>2. QED
  BY <1>1, IInvAlways, PTL

(* The schedule ends early only after a search that found no step, an error   *)
(* or the last round.                                                         *)
THEOREM OnlyAStallStopsEarly == Spec => []EarlyStopIsAStall
<1>1. IInv => EarlyStopIsAStall
  BY DEF IInv, ResultExplained
<1>2. QED
  BY <1>1, IInvAlways, PTL
=============================================================================
