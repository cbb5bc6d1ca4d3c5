---------------------------- MODULE PipelineProofs ----------------------------
(***************************************************************************)
(* Proofs about Pipeline, for every value of its constants: any nodes, any *)
(* set of solve outcomes, any configurations, any number of rounds.        *)
(*                                                                         *)
(* The safety properties speak of the states between steps.  What makes    *)
(* them inductive is what holds inside a pass: the snapshot describes the  *)
(* base result and is in range when that result is usable (Backed), the    *)
(* live tables drift away from the result only as far as the phase allows, *)
(* and a warm re-solve only starts in range.                               *)
(***************************************************************************)
EXTENDS Pipeline, TLAPS

-------------------------------------------------------------------------------
(* The inductive invariant, part by part *)

RefinePhases == {"stages", "resolve", "settle"}
AOPhases     == {"ao_round", "ao_resolve", "ao_judge"}

\* The tables and the result agree, and a success flag stands for a state in range.
Consistent == Describes(result, Tables) /\ (result.success => nodes.inRange)

\* What a revert brings back.
Backed == /\ armed
          /\ Describes(base, snap)
          /\ base.success => snap.nodes.inRange

\* Between steps.
BetweenSteps == phase \in Settled => Consistent

\* None (NoResult) is the only result of no solve.
HasResult == result # NoResult => result.solve # 0

\* Inside any pass there is a base result.
HasBase == phase \in InPass => base.solve # 0

\* _resolve_pass: until the first plan is applied nothing has changed; then the
\* snapshot backs the base result and only the edits differ.
Classifying ==
  phase = "stages" =>
    /\ result = base /\ base.success /\ nodes.inRange
    /\ nodes.solve = base.solve /\ branches = base.solve /\ meas.solve = base.solve
    /\ IF armed THEN Backed ELSE meas.edits = base.edits

Resolving == phase \in {"resolve", "settle"} => Backed /\ base.success

\* anti-overshoot started in range, and each round starts in range.
Overshoot ==
  phase \in AOPhases => Backed /\ snap.nodes.inRange

InRangeNow == phase \in {"resolve", "ao_round", "ao_resolve"} => nodes.inRange

\* After a solve the tables describe it.
JustSolved == phase \in {"settle", "ao_round", "ao_judge"} => Describes(result, Tables)

Answered == TypeOK /\ HasResult /\ HasBase

IInv == /\ Answered
        /\ BetweenSteps
        /\ Classifying
        /\ Resolving
        /\ Overshoot
        /\ InRangeNow
        /\ JustSolved

\* Where the executor stands, what it has answered and what it has reported.
RefineAt == phase \in RefinePhases => cur.name \in ResolvePasses

\* Before the estimate step there is no result, after it there always is one.
FirstResult == pos <= 26 /\ phase # "raised" => phase \in {"start", "step"} /\ result = NoResult

VerdictInv == /\ phase = "start" => verdict = "none"
              /\ AcceptanceIsEarned

SummaryInv ==
  /\ phase = "final" => summary = (IF nodes.inRange THEN result.solve ELSE 0)
  /\ ReturnedResultIsCoherent

\* Past the consistency check no enabled step misses a plan.
PlansChecked == given /\ phase \notin {"start", "raised"} => MissingPlans = {}

-------------------------------------------------------------------------------
(* The registry *)

\* The registry has 32 steps.
LEMMA StepsLen == Len(STEPS) = 32 /\ DOMAIN STEPS = 1..32
  BY DEF STEPS

\* The main solve is the 26th of them.
LEMMA EstimateAt == \A i \in 1..32 : STEPS[i].name = "estimate" => i = 26
  BY DEF STEPS, Step

\* The stages of a refine step are stages.
LEMMA StagesOfType == \A name \in ResolvePasses : StagesOf(name) \in Seq(Stages)
<1>1. \A s \in Stages : <<s>> \in Seq(Stages) /\ IfOn(s) \in Seq(Stages)
  BY DEF IfOn
<1>2. MERGED_STAGES \in Seq(Stages)
  <2>1. \A s, t \in Seq(Stages) : s \o t \in Seq(Stages)
    OBVIOUS
  <2> QED
    BY <1>1, <2>1 DEF MERGED_STAGES, Stages, MergedInto
<1> QED
  BY <1>1, <1>2 DEF StagesOf, ResolvePasses, Stages, MergedInto

-------------------------------------------------------------------------------
(* Types *)

LEMMA WriteSolveType ==
  ASSUME TypeOK, NEW o \in Outcomes, WriteSolve(o)
  PROVE  /\ nodes' \in NodeTable /\ branches' \in Nat /\ meas' \in MeasTable /\ solves' \in Nat
         /\ \A b \in BOOLEAN : Solved(b) \in ResultType
<1> o \in Outcome
  BY OutcomesAssumption
<1> QED
  BY DEF TypeOK, WriteSolve, Solved, Outcome, NodeTable, MeasTable, ResultType

LEMMA WarmResolveType ==
  ASSUME TypeOK, NEW o \in Outcomes, WarmResolve(o)
  PROVE  /\ nodes' \in NodeTable /\ branches' \in Nat /\ meas' \in MeasTable
         /\ solves' \in Nat /\ result' \in ResultType
<1>1. o.success \in BOOLEAN
  BY OutcomesAssumption DEF Outcome
<1> QED
  BY <1>1, WriteSolveType DEF WarmResolve

LEMMA TablesTypeOK == TypeOK => Tables \in TablesType
  BY DEF TypeOK, Tables, TablesType

LEMMA RestoreType ==
  ASSUME TypeOK, Restore
  PROVE  nodes' \in NodeTable /\ branches' \in Nat /\ meas' \in MeasTable /\ result' \in ResultType
  BY DEF TypeOK, Restore, TablesType

\* The initial states are well typed.
LEMMA InitType == Init => TypeOK
<1> SUFFICES ASSUME Init PROVE TypeOK
  OBVIOUS
<1>1. /\ nodes \in NodeTable /\ branches \in Nat /\ meas \in MeasTable
      /\ result \in ResultType /\ base \in ResultType
  BY DEF Init, NoResult, NodeTable, MeasTable, ResultType
<1>2. snap \in TablesType
  BY <1>1 DEF Init, Tables, TablesType
<1>3. pending \in Seq(Stages)
  BY DEF Init
<1>4. /\ pos \in 1..(Len(STEPS) + 1) /\ phase \notin InPass
      /\ round \in 0..MaxIters
  BY StepsLen, MaxItersAssumption DEF Init, InPass
<1>5. solves \in Nat /\ summary \in Nat /\ tightened \in SUBSET Nodes
  BY DEF Init
<1> QED
  BY <1>1, <1>2, <1>3, <1>4, <1>5, Zenon DEF Init, TypeOK, Settled, Verdicts

\* Every step keeps the types.
LEMMA NextType == TypeOK /\ [Next]_vars => TypeOK'
<1> SUFFICES ASSUME TypeOK, [Next]_vars PROVE TypeOK'
  OBVIOUS
<1> USE StepsLen, MaxItersAssumption
<1>1. CASE CheckDerived
  BY <1>1 DEF CheckDerived, TypeOK, control, tables, passVars, outVars, Settled, InPass
<1>2. CASE SkipStep
  BY <1>2 DEF SkipStep, Advance, TypeOK, control, tables, passVars, outVars, Settled, Verdicts, InPass
<1>3. CASE PrepStep
  BY <1>3 DEF PrepStep, Runs, Advance, TypeOK, control, tables, passVars, outVars, Settled, Verdicts, InPass
<1>4. CASE StepRaises
  BY <1>4 DEF StepRaises, TypeOK, control, tables, passVars, outVars, InPass
<1>5. CASE Estimate
  <2>1. PICK o \in Outcomes : WriteSolve(o) /\ result' = Solved(o.success /\ o.inRange)
    BY <1>5 DEF Estimate
  <2>2. (o.success /\ o.inRange) \in BOOLEAN
    OBVIOUS
  <2>3. /\ nodes' \in NodeTable /\ branches' \in Nat /\ meas' \in MeasTable
        /\ solves' \in Nat /\ result' \in ResultType
    BY <2>1, <2>2, WriteSolveType
  <2> QED
    BY <1>5, <2>3 DEF Estimate, Runs, Advance, TypeOK, control, passVars, outVars, InPass, Settled, Verdicts
<1>6. CASE SkipPass
  BY <1>6 DEF SkipPass, RunsPass, Runs, Advance, TypeOK, control, tables, passVars, outVars, Settled, Verdicts, InPass
<1>7. CASE StartPass
  BY <1>7, StagesOfType DEF StartPass, RunsPass, Runs, TypeOK, control, tables, outVars, InPass
<1>8. CASE EmptyPlan
  BY <1>8 DEF EmptyPlan, TypeOK, control, tables, outVars, InPass
<1>9. CASE ApplyPlan
  <2>1. Head(pending) \in Edits /\ Tail(pending) \in Seq(Stages)
    BY <1>9 DEF ApplyPlan, TypeOK, Edits
  <2>2. meas' \in MeasTable
    BY <1>9, <2>1 DEF ApplyPlan, TypeOK, MeasTable
  <2>3. snap' \in TablesType
    BY <1>9, TablesTypeOK DEF ApplyPlan, TypeOK
  <2> QED
    BY <1>9, <2>1, <2>2, <2>3 DEF ApplyPlan, TypeOK, control, outVars
<1>10. CASE NothingApplied
  BY <1>10 DEF NothingApplied, Advance, TypeOK, control, tables, passVars, outVars, Settled, Verdicts, InPass
<1>11. CASE StagesDone
  BY <1>11 DEF StagesDone, TypeOK, control, tables, passVars, outVars, InPass
<1>12. CASE PassResolve
  <2>1. PICK o \in Outcomes : WarmResolve(o)
    BY <1>12 DEF PassResolve
  <2>2. /\ nodes' \in NodeTable /\ branches' \in Nat /\ meas' \in MeasTable
        /\ solves' \in Nat /\ result' \in ResultType
    BY <2>1, WarmResolveType
  <2> QED
    BY <1>12, <2>2 DEF PassResolve, TypeOK, control, passVars, outVars, InPass
<1>13. CASE Settle
  <2>1. /\ nodes' \in NodeTable /\ branches' \in Nat /\ meas' \in MeasTable
        /\ result' \in ResultType
    BY <1>13, RestoreType DEF Settle, TypeOK, tables
  <2>2. /\ phase' = "step" /\ pos' = pos + 1 /\ pos <= Len(STEPS)
        /\ verdict' \in {"accepted", "reverted"}
    BY <1>13 DEF Settle, Advance, TypeOK, InPass
  <2>3. UNCHANGED <<control, solves, passVars, outVars>>
    BY <1>13 DEF Settle
  <2> QED
    BY <2>1, <2>2, <2>3 DEF TypeOK, control, passVars, outVars, InPass, Settled, Verdicts
<1>14. CASE AntiOvershootSkip
  BY <1>14 DEF AntiOvershootSkip, RunsAntiOvershoot, Runs, Advance, TypeOK, control, tables, passVars, outVars, InPass, Settled, Verdicts
<1>15. CASE AntiOvershootStart
  BY <1>15, TablesTypeOK DEF AntiOvershootStart, RunsAntiOvershoot, Runs, TypeOK, control, tables, outVars, InPass
<1>16. CASE AddPriors
  <2>1. Newly \in SUBSET Nodes /\ Newly \in SUBSET Edits
    BY DEF TypeOK, Newly, NodeTable, Edits
  <2>2. meas' \in MeasTable
    BY <1>16, <2>1 DEF AddPriors, TypeOK, MeasTable
  <2>3. round' \in 0..MaxIters /\ tightened' \in SUBSET Nodes
    BY <1>16, <2>1 DEF AddPriors, RoundLeft, TypeOK
  <2> QED
    BY <1>16, <2>2, <2>3 DEF AddPriors, TypeOK, control, outVars, InPass
<1>17. CASE RoundsOver
  BY <1>17 DEF RoundsOver, TypeOK, control, tables, passVars, outVars, InPass
<1>18. CASE AntiOvershootResolve
  <2>1. PICK o \in Outcomes : WarmResolve(o) /\ phase' \in {"ao_round", "ao_judge"}
    BY <1>18 DEF AntiOvershootResolve
  <2>2. /\ nodes' \in NodeTable /\ branches' \in Nat /\ meas' \in MeasTable
        /\ solves' \in Nat /\ result' \in ResultType
    BY <2>1, WarmResolveType
  <2> QED
    BY <1>18, <2>1, <2>2 DEF AntiOvershootResolve, TypeOK, control, passVars, outVars, InPass
<1>19. CASE AntiOvershootJudge
  <2>1. /\ nodes' \in NodeTable /\ branches' \in Nat /\ meas' \in MeasTable
        /\ result' \in ResultType
    BY <1>19, RestoreType DEF AntiOvershootJudge, TypeOK, tables
  <2>2. /\ phase' = "step" /\ pos' = pos + 1 /\ pos <= Len(STEPS)
        /\ verdict' \in {"accepted", "rejected"}
    BY <1>19 DEF AntiOvershootJudge, Advance, TypeOK, InPass
  <2>3. UNCHANGED <<control, solves, passVars, outVars>>
    BY <1>19 DEF AntiOvershootJudge
  <2> QED
    BY <2>1, <2>2, <2>3 DEF TypeOK, control, passVars, outVars, InPass, Settled, Verdicts
<1>20. CASE StepsOver
  BY <1>20 DEF StepsOver, TypeOK, control, tables, passVars, outVars, InPass, Settled
<1>21. CASE QualitySummary
  <2>1. result' \in ResultType /\ summary' \in Nat
    BY <1>21 DEF QualitySummary, SummarySolve, TypeOK, ResultType, MeasTable
  <2> QED
    BY <1>21, <2>1 DEF QualitySummary, TypeOK, control, tables, passVars, InPass, Settled
<1>22. CASE Final
  BY <1>22 DEF Final, TypeOK, control, tables, passVars, InPass, Settled
<1>23. CASE UNCHANGED vars
  BY <1>23 DEF vars, TypeOK, control, tables, passVars, outVars
<1> QED
  BY <1>1, <1>2, <1>3, <1>4, <1>5, <1>6, <1>7, <1>8, <1>9, <1>10, <1>11, <1>12, <1>13, <1>14,
     <1>15, <1>16, <1>17, <1>18, <1>19, <1>20, <1>21, <1>22, <1>23 DEF Next, Ended

\* TypeOK holds in every reachable state.
THEOREM TypeCorrect == Spec => []TypeOK
<1>1. TypeOK /\ [Next]_vars => TypeOK'
  BY NextType
<1> QED
  BY InitType, <1>1, PTL DEF Spec

-------------------------------------------------------------------------------
(* Safety *)

\* A solve leaves tables that describe it.
LEMMA SolveDescribes ==
  ASSUME TypeOK, NEW o \in Outcomes, WriteSolve(o), NEW b \in BOOLEAN, result' = Solved(b)
  PROVE  /\ Describes(result, Tables)'
         /\ nodes'.inRange = o.inRange /\ result'.success = b /\ result'.solve # 0
  BY DEF TypeOK, WriteSolve, Solved, Describes, Tables, MeasTable

\* A revert brings back the base result and tables that describe it.
LEMMA RestoreConsistent ==
  ASSUME TypeOK, Backed, Restore
  PROVE  Consistent' /\ result' = base
  BY DEF Backed, Restore, Consistent, Describes, Tables, TypeOK

\* Steps that keep the tables and the result keep Consistent.
LEMMA ConsistentStable == Consistent /\ UNCHANGED <<tables, result>> => Consistent'
  BY DEF Consistent, Describes, Tables, tables

\* A result that is there has a solve, and a pass has a base result.
LEMMA NextAnswered == Answered /\ [Next]_vars => Answered'
<1> SUFFICES ASSUME Answered, [Next]_vars PROVE Answered'
  OBVIOUS
<1>1. TypeOK /\ TypeOK'
  BY NextType DEF Answered
<1>2. CASE Estimate
  <2>1. PICK o \in Outcomes : WriteSolve(o) /\ result' = Solved(o.success /\ o.inRange)
    BY <1>2 DEF Estimate
  <2> QED
    BY <1>1, <1>2, <2>1, SolveDescribes DEF Estimate, Advance, Answered, HasResult, HasBase, InPass
<1>3. CASE PassResolve
  <2>1. PICK o \in Outcomes : WarmResolve(o)
    BY <1>3 DEF PassResolve
  <2> QED
    BY <1>1, <1>3, <2>1, OutcomesAssumption, SolveDescribes
       DEF PassResolve, WarmResolve, Outcome, Answered, HasResult, HasBase, InPass, passVars
<1>4. CASE AntiOvershootResolve
  <2>1. PICK o \in Outcomes : WarmResolve(o)
    BY <1>4 DEF AntiOvershootResolve
  <2> QED
    BY <1>1, <1>4, <2>1, OutcomesAssumption, SolveDescribes
       DEF AntiOvershootResolve, WarmResolve, Outcome, Answered, HasResult, HasBase, InPass, passVars
<1>5. CASE Settle \/ AntiOvershootJudge
  BY <1>1, <1>5 DEF Settle, AntiOvershootJudge, Restore, Advance, Answered, HasResult, HasBase, InPass, tables
<1>6. CASE StartPass \/ AntiOvershootStart
  BY <1>1, <1>6 DEF StartPass, AntiOvershootStart, RunsPass, RunsAntiOvershoot, Answered, HasResult, HasBase, InPass
<1>7. CASE EmptyPlan \/ ApplyPlan \/ StagesDone \/ AddPriors \/ RoundsOver
  BY <1>1, <1>7 DEF EmptyPlan, ApplyPlan, StagesDone, AddPriors, RoundsOver, Answered, HasResult, HasBase,
     InPass, passVars
<1>8. CASE QualitySummary
  BY <1>1, <1>8 DEF QualitySummary, Answered, HasResult, HasBase, InPass, TypeOK, ResultType
<1>9. CASE \/ CheckDerived \/ SkipStep \/ PrepStep \/ StepRaises \/ SkipPass \/ NothingApplied
           \/ AntiOvershootSkip \/ StepsOver \/ Final \/ UNCHANGED vars
  BY <1>1, <1>9 DEF CheckDerived, SkipStep, PrepStep, StepRaises, SkipPass, NothingApplied, AntiOvershootSkip,
     StepsOver, Final, Advance, Answered, HasResult, HasBase, InPass, passVars, vars
<1> QED
  BY <1>2, <1>3, <1>4, <1>5, <1>6, <1>7, <1>8, <1>9 DEF Next, Ended

LEMMA InitInv == Init => IInv
<1> SUFFICES ASSUME Init PROVE IInv
  OBVIOUS
<1>1. Answered
  BY InitType DEF Init, Answered, HasResult, HasBase, InPass
<1>2. phase = "start" /\ Consistent
  BY DEF Init, Consistent, Describes, Tables, NoResult
<1> QED
  BY <1>1, <1>2 DEF IInv, BetweenSteps, InPass, Classifying, Resolving, Overshoot, AOPhases,
     InRangeNow, JustSolved

\* A step between two settled phases that changes neither tables nor result.
LEMMA QuietStep ==
  ASSUME IInv, Answered', phase \in Settled, phase' \in Settled \cup {"raised"},
         UNCHANGED <<tables, result>>
  PROVE  IInv'
<1>1. Consistent'
  BY ConsistentStable DEF IInv, BetweenSteps
<1> QED
  BY <1>1 DEF IInv, BetweenSteps, InPass, Classifying, Resolving, Overshoot, AOPhases,
     InRangeNow, JustSolved, Settled

\* A step that ends in a settled phase with consistent tables.
LEMMA SettlingStep ==
  ASSUME Answered', phase' \in Settled, Consistent'
  PROVE  IInv'
  BY DEF IInv, BetweenSteps, InPass, Classifying, Resolving, Overshoot, AOPhases,
     InRangeNow, JustSolved, Settled

\* The start of a pass, its edits and its re-solve.
LEMMA StartPassInv == IInv /\ Answered' /\ StartPass => IInv'
<1> SUFFICES ASSUME IInv, Answered', StartPass PROVE IInv'
  OBVIOUS
<1>1. Consistent /\ result.success /\ result.solve # 0
  <2>1. phase = "step" /\ result # NoResult /\ result.success /\ Consistent
    BY DEF StartPass, RunsPass, Runs, IInv, BetweenSteps, Settled
  <2>2. result.solve # 0
    BY <2>1 DEF IInv, Answered, HasResult
  <2> QED
    BY <2>1, <2>2
<1> QED
  BY <1>1 DEF StartPass, IInv, BetweenSteps, Settled, InPass, Classifying, Resolving,
     Overshoot, AOPhases, InRangeNow, JustSolved, Consistent, Describes, Tables, tables

LEMMA ApplyPlanInv == IInv /\ Answered' /\ ApplyPlan => IInv'
<1> SUFFICES ASSUME IInv, Answered', ApplyPlan PROVE IInv'
  OBVIOUS
<1>1. /\ phase = "stages" /\ phase' = "stages" /\ armed'
      /\ result' = result /\ base' = base /\ nodes' = nodes /\ branches' = branches
      /\ meas'.solve = meas.solve
  BY DEF ApplyPlan, IInv, Answered, TypeOK, MeasTable
<1>2. Backed'
  <2>1. CASE armed
    BY <1>1, <2>1 DEF ApplyPlan, IInv, Classifying, Backed, Describes
  <2>2. CASE ~armed
    BY <1>1, <2>2 DEF ApplyPlan, IInv, Classifying, Backed, Describes, Tables
  <2> QED
    BY <2>1, <2>2
<1> QED
  BY <1>1, <1>2 DEF IInv, BetweenSteps, Settled, InPass, Classifying, Resolving,
     Overshoot, AOPhases, InRangeNow, JustSolved

LEMMA PassResolveInv == IInv /\ Answered' /\ PassResolve => IInv'
<1> SUFFICES ASSUME IInv, Answered', PassResolve PROVE IInv'
  OBVIOUS
<1>1. PICK o \in Outcomes : WarmResolve(o)
  BY DEF PassResolve
<1>2. o.success \in BOOLEAN
  BY OutcomesAssumption DEF Outcome
<1>3. Describes(result, Tables)'
  BY <1>1, <1>2, SolveDescribes DEF WarmResolve, IInv, Answered
<1>4. Backed' /\ base'.success /\ base'.solve # 0
  BY DEF PassResolve, IInv, Resolving, Answered, HasBase, InPass, Backed, Describes, passVars
<1> QED
  BY <1>3, <1>4 DEF PassResolve, IInv, BetweenSteps, Settled, InPass, Classifying,
     Resolving, Overshoot, AOPhases, InRangeNow, JustSolved

LEMMA AntiOvershootStartInv == IInv /\ Answered' /\ AntiOvershootStart => IInv'
<1> SUFFICES ASSUME IInv, Answered', AntiOvershootStart PROVE IInv'
  OBVIOUS
<1>1. Consistent /\ nodes.inRange /\ result.solve # 0
  BY DEF AntiOvershootStart, RunsAntiOvershoot, Startable, Runs, IInv, BetweenSteps, Settled, Answered, HasResult
<1> QED
  BY <1>1 DEF AntiOvershootStart, IInv, BetweenSteps, Settled, InPass, Classifying, Resolving,
     Overshoot, AOPhases, InRangeNow, JustSolved, Consistent, Backed, Describes, Tables, tables

LEMMA AddPriorsInv == IInv /\ Answered' /\ AddPriors => IInv'
<1> SUFFICES ASSUME IInv, Answered', AddPriors PROVE IInv'
  OBVIOUS
<1>1. Backed' /\ snap'.nodes.inRange /\ nodes'.inRange /\ base'.solve # 0
  BY DEF AddPriors, IInv, Overshoot, AOPhases, InRangeNow, Answered, HasBase, InPass, Backed, Describes
<1> QED
  BY <1>1 DEF AddPriors, IInv, BetweenSteps, Settled, InPass, Classifying, Resolving,
     Overshoot, AOPhases, InRangeNow, JustSolved

LEMMA AntiOvershootResolveInv == IInv /\ Answered' /\ AntiOvershootResolve => IInv'
<1> SUFFICES ASSUME IInv, Answered', AntiOvershootResolve PROVE IInv'
  OBVIOUS
<1>1. PICK o \in Outcomes :
        /\ WarmResolve(o)
        /\ phase' = IF o.inRange /\ o.ratio < snap.nodes.ratio THEN "ao_round" ELSE "ao_judge"
  BY DEF AntiOvershootResolve
<1>2. o.success \in BOOLEAN
  BY OutcomesAssumption DEF Outcome
<1>3. Describes(result, Tables)' /\ nodes'.inRange = o.inRange
  BY <1>1, <1>2, SolveDescribes DEF WarmResolve, IInv, Answered
<1>4. Backed' /\ snap'.nodes.inRange /\ base'.solve # 0
  BY DEF AntiOvershootResolve, IInv, Overshoot, AOPhases, Answered, HasBase, InPass, Backed, Describes, passVars
<1> QED
  BY <1>1, <1>3, <1>4 DEF IInv, BetweenSteps, Settled, InPass, Classifying,
     Resolving, Overshoot, AOPhases, InRangeNow, JustSolved

\* Every step keeps the inductive invariant.
LEMMA NextInv == IInv /\ [Next]_vars => IInv'
<1> SUFFICES ASSUME IInv, [Next]_vars PROVE IInv'
  OBVIOUS
<1>1. Answered'
  BY NextAnswered DEF IInv
<1>2. TypeOK /\ TypeOK'
  BY <1>1 DEF IInv, Answered
<1>3. CASE \/ CheckDerived \/ SkipStep \/ PrepStep \/ SkipPass \/ AntiOvershootSkip \/ StepsOver \/ Final
  BY <1>1, <1>3, QuietStep DEF CheckDerived, SkipStep, PrepStep, SkipPass, AntiOvershootSkip, StepsOver,
     Final, RunsPass, RunsAntiOvershoot, Runs, Advance, Settled
<1>4. CASE StepRaises
  BY <1>1, <1>4 DEF StepRaises, IInv, BetweenSteps, Settled, InPass, Classifying, Resolving,
     Overshoot, AOPhases, InRangeNow, JustSolved
<1>5. CASE Estimate
  <2>1. PICK o \in Outcomes : WriteSolve(o) /\ result' = Solved(o.success /\ o.inRange)
    BY <1>5 DEF Estimate
  <2>2. (o.success /\ o.inRange) \in BOOLEAN
    OBVIOUS
  <2>3. Consistent'
    BY <1>2, <2>1, <2>2, SolveDescribes DEF Consistent
  <2> QED
    BY <1>1, <1>5, <2>3, SettlingStep DEF Estimate, Advance, Settled
<1>6. CASE StartPass
  BY <1>1, <1>6, StartPassInv
<1>7. CASE EmptyPlan
  BY <1>1, <1>7 DEF EmptyPlan, IInv, BetweenSteps, Settled, InPass, Classifying, Resolving,
     Overshoot, AOPhases, InRangeNow, JustSolved, Backed, Describes, tables
<1>8. CASE ApplyPlan
  BY <1>1, <1>8, ApplyPlanInv
<1>9. CASE NothingApplied
  <2>1. Consistent'
    BY <1>9 DEF NothingApplied, IInv, Classifying, Consistent, Describes, Tables, tables
  <2> QED
    BY <1>1, <1>9, <2>1, SettlingStep DEF NothingApplied, Advance, Settled
<1>10. CASE StagesDone
  BY <1>1, <1>10 DEF StagesDone, IInv, BetweenSteps, Settled, InPass, Classifying, Resolving,
     Overshoot, AOPhases, InRangeNow, JustSolved, Backed, Describes, tables, passVars
<1>11. CASE PassResolve
  BY <1>1, <1>11, PassResolveInv
<1>12. CASE Settle
  <2>1. CASE Kept
    <3>1. UNCHANGED <<tables, result>> /\ nodes.inRange /\ Describes(result, Tables)
      BY <1>12, <2>1 DEF Settle, Kept, IInv, JustSolved
    <3> QED
      BY <1>1, <1>12, <3>1, ConsistentStable, SettlingStep DEF Settle, Advance, Settled, Consistent
  <2>2. CASE ~Kept
    <3>1. Restore /\ Backed
      BY <1>12, <2>2 DEF Settle, IInv, Resolving
    <3> QED
      BY <1>1, <1>2, <1>12, <3>1, RestoreConsistent, SettlingStep DEF Settle, Advance, Settled
  <2> QED
    BY <2>1, <2>2
<1>13. CASE AntiOvershootStart
  BY <1>1, <1>13, AntiOvershootStartInv
<1>14. CASE AddPriors
  BY <1>1, <1>14, AddPriorsInv
<1>15. CASE RoundsOver
  BY <1>1, <1>15 DEF RoundsOver, IInv, BetweenSteps, Settled, InPass, Classifying, Resolving,
     Overshoot, AOPhases, InRangeNow, JustSolved, Backed, Describes, Tables, tables, passVars
<1>16. CASE AntiOvershootResolve
  BY <1>1, <1>16, AntiOvershootResolveInv
<1>17. CASE AntiOvershootJudge
  <2>1. CASE Accepted
    <3>1. UNCHANGED <<tables, result>> /\ nodes.inRange /\ Describes(result, Tables)
      BY <1>17, <2>1 DEF AntiOvershootJudge, Accepted, IInv, JustSolved
    <3> QED
      BY <1>1, <1>17, <3>1, ConsistentStable, SettlingStep DEF AntiOvershootJudge, Advance, Settled, Consistent
  <2>2. CASE ~Accepted
    <3>1. Restore /\ Backed
      BY <1>17, <2>2 DEF AntiOvershootJudge, IInv, Overshoot, AOPhases
    <3> QED
      BY <1>1, <1>2, <1>17, <3>1, RestoreConsistent, SettlingStep DEF AntiOvershootJudge, Advance, Settled
  <2> QED
    BY <2>1, <2>2
<1>18. CASE QualitySummary
  <2>1. result' = result
    BY <1>2, <1>18 DEF QualitySummary, IInv, BetweenSteps, Settled, Consistent, TypeOK, ResultType
  <2> QED
    BY <1>1, <1>18, <2>1, QuietStep DEF QualitySummary, Settled
<1>19. CASE UNCHANGED vars
  BY <1>1, <1>19 DEF vars, IInv, BetweenSteps, Settled, InPass, Classifying, Resolving, Overshoot,
     AOPhases, InRangeNow, JustSolved, Consistent, Backed, Describes, Tables, tables, passVars
<1> QED
  BY <1>3, <1>4, <1>5, <1>6, <1>7, <1>8, <1>9, <1>10, <1>11, <1>12, <1>13, <1>14, <1>15, <1>16,
     <1>17, <1>18, <1>19 DEF Next, Ended

\* IInv holds in every reachable state.
THEOREM Invariance == Spec => []IInv
<1>1. IInv /\ [Next]_vars => IInv'
  BY NextInv
<1> QED
  BY InitInv, <1>1, PTL DEF Spec

\* Between steps the result describes the tables: a revert leaves nothing of the
\* rejected solve behind, an acceptance misses nothing of the accepted one.
THEOREM ResultDescribesTablesAlways == Spec => []ResultDescribesTables
<1>1. IInv => ResultDescribesTables
  BY DEF IInv, BetweenSteps, Consistent, ResultDescribesTables
<1> QED
  BY Invariance, <1>1, PTL

\* Between steps a success flag stands for a state in range.
THEOREM SuccessIsInRangeAlways == Spec => []SuccessIsInRange
<1>1. IInv => SuccessIsInRange
  BY DEF IInv, BetweenSteps, Consistent, SuccessIsInRange
<1> QED
  BY Invariance, <1>1, PTL

\* No warm re-solve starts from a state out of range.
THEOREM ResolveStartsInRangeAlways == Spec => []ResolveStartsInRange
<1>1. IInv => ResolveStartsInRange
  BY DEF IInv, InRangeNow, ResolveStartsInRange
<1> QED
  BY Invariance, <1>1, PTL

-------------------------------------------------------------------------------
(* The acceptance policy *)

LEMMA RunsEstimate == TypeOK /\ Runs /\ cur.name = "estimate" => pos = 26
<1> SUFFICES ASSUME TypeOK, Runs, cur.name = "estimate" PROVE pos = 26
  OBVIOUS
<1>1. pos \in 1..32
  BY StepsLen DEF TypeOK, Runs
<1> QED
  BY <1>1, EstimateAt DEF cur

\* There is no result before the main solve, and passes only follow it.
LEMMA NextFirstResult == TypeOK /\ FirstResult /\ [Next]_vars => FirstResult'
<1> SUFFICES ASSUME TypeOK, FirstResult, [Next]_vars, pos' <= 26, phase' # "raised"
             PROVE  phase' \in {"start", "step"} /\ result' = NoResult
  BY DEF FirstResult
<1> USE DEF TypeOK
<1>1. CASE StepRaises \/ Estimate
  BY <1>1, RunsEstimate DEF StepRaises, Estimate, Advance
<1>2. CASE CheckDerived \/ SkipStep \/ PrepStep \/ StepsOver
  BY <1>2, StepsLen DEF FirstResult, CheckDerived, SkipStep, PrepStep, Runs, StepsOver, Advance
<1>8. CASE SkipPass \/ AntiOvershootSkip
  BY <1>8 DEF FirstResult, SkipPass, AntiOvershootSkip, RunsPass, RunsAntiOvershoot, Runs, Advance
<1>3. CASE StartPass \/ AntiOvershootStart
  BY <1>3 DEF FirstResult, StartPass, AntiOvershootStart, RunsPass, RunsAntiOvershoot, Runs
<1>4. CASE EmptyPlan \/ ApplyPlan \/ StagesDone \/ PassResolve \/ AddPriors \/ RoundsOver \/ AntiOvershootResolve
  BY <1>4 DEF FirstResult, EmptyPlan, ApplyPlan, StagesDone, PassResolve, AddPriors, RoundsOver, AntiOvershootResolve
<1>5. CASE NothingApplied \/ Settle \/ AntiOvershootJudge
  BY <1>5 DEF FirstResult, NothingApplied, Settle, AntiOvershootJudge, Advance
<1>6. CASE QualitySummary \/ Final
  BY <1>6 DEF FirstResult, QualitySummary, Final
<1>7. CASE UNCHANGED vars
  BY <1>7 DEF FirstResult, vars
<1> QED
  BY <1>1, <1>2, <1>3, <1>4, <1>5, <1>6, <1>7, <1>8 DEF Next, Ended

\* Steps that raise, and steps that leave phase class and result alone.
LEMMA RaiseStep ==
  ASSUME phase # "raised", phase' = "raised"
  PROVE  Policy!Next
  BY DEF Policy!Next, Policy!Raise, answer, AnswerOf

LEMMA StutterStep ==
  ASSUME answer' = answer
  PROVE  [Policy!Next]_answer
  OBVIOUS

\* Every step of the run is a step of the policy, or leaves the answer alone.
LEMMA PolicyStep == IInv /\ FirstResult /\ [Next]_vars => [Policy!Next]_answer
<1> SUFFICES ASSUME IInv, FirstResult, [Next]_vars PROVE [Policy!Next]_answer
  OBVIOUS
<1>1. TypeOK /\ TypeOK' /\ HasResult /\ HasBase
  BY NextType DEF IInv, Answered
<1>2. CASE CheckDerived
  BY <1>2 DEF CheckDerived, Policy!Next, Policy!Raise, answer, AnswerOf, InPass
<1>3. CASE StepRaises
  BY <1>3, RaiseStep DEF StepRaises, Runs
<1>4. CASE Estimate
  <2>1. result = NoResult /\ phase = "step" /\ phase' = "step"
    BY <1>1, <1>4, RunsEstimate DEF Estimate, Advance, Runs, FirstResult
  <2>2. result' # NoResult
    <3>1. PICK o \in Outcomes : WriteSolve(o) /\ result' = Solved(o.success /\ o.inRange)
      BY <1>4 DEF Estimate
    <3>2. (o.success /\ o.inRange) \in BOOLEAN
      OBVIOUS
    <3>3. result'.solve # 0
      BY <1>1, <3>1, <3>2, SolveDescribes
    <3> QED
      BY <3>3 DEF NoResult
  <2>3. answer = "none" /\ answer' \in {"usable", "unusable"}
    BY <2>1, <2>2 DEF answer, AnswerOf, InPass
  <2> QED
    BY <2>3 DEF Policy!Next, Policy!FirstSolve
<1>5. CASE \/ SkipStep \/ PrepStep \/ SkipPass \/ AntiOvershootSkip \/ StepsOver \/ Final
  BY <1>5 DEF SkipStep, PrepStep, SkipPass, AntiOvershootSkip, StepsOver, Final, RunsPass, RunsAntiOvershoot,
     Runs, Advance, answer, AnswerOf, InPass
<1>6. CASE StartPass \/ AntiOvershootStart
  BY <1>6 DEF StartPass, AntiOvershootStart, RunsPass, RunsAntiOvershoot, Runs, answer, AnswerOf, InPass
<1>7. CASE EmptyPlan \/ ApplyPlan \/ StagesDone \/ PassResolve \/ AddPriors \/ RoundsOver \/ AntiOvershootResolve
  <2>1. phase \in InPass /\ phase' \in InPass /\ base' = base
    BY <1>7 DEF EmptyPlan, ApplyPlan, StagesDone, PassResolve, AddPriors, RoundsOver, AntiOvershootResolve,
       InPass, passVars
  <2> QED
    BY <2>1 DEF answer, AnswerOf, InPass
<1>8. CASE NothingApplied
  <2>1. result = base /\ result' = result /\ phase = "stages" /\ phase' = "step"
    BY <1>8 DEF NothingApplied, IInv, Classifying, Advance
  <2> QED
    BY <2>1 DEF answer, AnswerOf, InPass
<1>9. CASE Settle
  <2>1. /\ phase = "settle" /\ phase' = "step" /\ base.success /\ base.solve # 0
        /\ result'.success
        /\ result' # NoResult
    BY <1>1, <1>9 DEF Settle, Kept, resolve_regressed, Restore, Advance, IInv, Resolving, HasBase, InPass, NoResult
  <2> QED
    BY <2>1 DEF answer, AnswerOf, InPass, NoResult
<1>10. CASE AntiOvershootJudge
  <2>1. /\ phase = "ao_judge" /\ phase' = "step" /\ base # NoResult
        /\ result' = base \/ result'.success
    BY <1>1, <1>10 DEF AntiOvershootJudge, Accepted, Restore, Advance, HasBase, InPass, NoResult
  <2> QED
    BY <2>1 DEF answer, AnswerOf, InPass, NoResult, Policy!Next, Policy!Improve
<1>11. CASE QualitySummary
  <2>1. result' = result
    BY <1>1, <1>11 DEF QualitySummary, IInv, BetweenSteps, Settled, Consistent, TypeOK, ResultType
  <2> QED
    BY <1>11, <2>1 DEF QualitySummary, answer, AnswerOf, InPass
<1>12. CASE UNCHANGED vars
  BY <1>12 DEF vars, passVars, answer, AnswerOf
<1> QED
  BY <1>2, <1>3, <1>4, <1>5, <1>6, <1>7, <1>8, <1>9, <1>10, <1>11, <1>12 DEF Next, Ended

\* The run implements the acceptance policy: a usable answer is never replaced by
\* an unusable one, whatever the passes try and however the solves end.
THEOREM PolicyImplemented == Spec => ImplementsPolicy
<1>1. Init => FirstResult /\ Policy!Init
  BY DEF Init, FirstResult, Policy!Init, answer, AnswerOf, NoResult, InPass
<1>2. TypeOK /\ FirstResult /\ [Next]_vars => FirstResult'
  BY NextFirstResult
<1>3. Spec => []FirstResult
  BY <1>1, <1>2, TypeCorrect, PTL DEF Spec
<1>4. IInv /\ FirstResult /\ [Next]_vars => [Policy!Next]_answer
  BY PolicyStep
<1> QED
  BY <1>1, <1>3, <1>4, Invariance, PTL DEF Spec, ImplementsPolicy, Policy!Spec

-------------------------------------------------------------------------------
(* What the passes and the caller are told *)

\* An accepted pass has earned it.
LEMMA NextVerdict == IInv /\ RefineAt /\ VerdictInv /\ [Next]_vars => RefineAt' /\ VerdictInv'
<1> SUFFICES ASSUME IInv, RefineAt, VerdictInv, [Next]_vars PROVE RefineAt' /\ VerdictInv'
  OBVIOUS
<1>1. TypeOK /\ TypeOK'
  BY NextType DEF IInv, Answered
<1>2. CASE CheckDerived
  BY <1>2 DEF CheckDerived, RefineAt, RefinePhases, VerdictInv, AcceptanceIsEarned
<1>3. CASE \/ SkipStep \/ PrepStep \/ StepRaises \/ Estimate \/ SkipPass \/ NothingApplied
           \/ AntiOvershootSkip \/ StepsOver \/ QualitySummary \/ Final
  BY <1>3 DEF SkipStep, PrepStep, StepRaises, Estimate, SkipPass, NothingApplied, AntiOvershootSkip,
     StepsOver, QualitySummary, Final, Advance, RefineAt, RefinePhases, VerdictInv, AcceptanceIsEarned
<1>4. CASE StartPass
  BY <1>4 DEF StartPass, RunsPass, RefineAt, RefinePhases, VerdictInv, AcceptanceIsEarned, cur
<1>5. CASE EmptyPlan \/ ApplyPlan \/ StagesDone \/ PassResolve
  BY <1>5 DEF EmptyPlan, ApplyPlan, StagesDone, PassResolve, RefineAt, RefinePhases, VerdictInv,
     AcceptanceIsEarned, cur
<1>6. CASE AntiOvershootStart \/ AddPriors \/ RoundsOver \/ AntiOvershootResolve
  BY <1>6 DEF AntiOvershootStart, AddPriors, RoundsOver, AntiOvershootResolve, RefineAt, RefinePhases,
     VerdictInv, AcceptanceIsEarned
<1>7. CASE Settle
  <2>1. pos' - 1 = pos /\ STEPS[pos].name # "anti_overshoot" /\ phase' = "step"
    <3>1. phase = "settle" /\ phase' = "step" /\ pos' = pos + 1
      BY <1>7 DEF Settle, Advance
    <3>2. cur.name \in ResolvePasses
      BY <3>1 DEF RefineAt, RefinePhases
    <3>3. "anti_overshoot" \notin ResolvePasses
      BY DEF ResolvePasses, MergedInto
    <3>4. pos' - 1 = pos
      BY <1>1, <3>1 DEF TypeOK
    <3> QED
      BY <3>1, <3>2, <3>3, <3>4 DEF cur
  <2>2. verdict' = "accepted" => result'.success /\ nodes'.inRange
    BY <1>7 DEF Settle, Kept, resolve_regressed, Advance, IInv, Resolving, tables
  <2> QED
    BY <2>1, <2>2 DEF RefineAt, RefinePhases, VerdictInv, AcceptanceIsEarned
<1>8. CASE AntiOvershootJudge
  <2>1. phase' = "step" /\ (verdict' = "accepted" => Accepted /\ UNCHANGED <<tables, result, snap>>)
    BY <1>8 DEF AntiOvershootJudge, Advance, passVars
  <2> QED
    BY <2>1 DEF RefineAt, RefinePhases, VerdictInv, AcceptanceIsEarned, Accepted, tables
<1>9. CASE UNCHANGED vars
  BY <1>9 DEF vars, tables, passVars, RefineAt, RefinePhases, VerdictInv, AcceptanceIsEarned, cur
<1> QED
  BY <1>2, <1>3, <1>4, <1>5, <1>6, <1>7, <1>8, <1>9 DEF Next, Ended

\* An accepted pass left a converged solution in range, and anti-overshoot a lower
\* voltage ratio than it started from.
THEOREM AcceptanceIsEarnedAlways == Spec => []AcceptanceIsEarned
<1>1. Init => RefineAt /\ VerdictInv
  BY DEF Init, RefineAt, RefinePhases, VerdictInv, AcceptanceIsEarned
<1>2. IInv /\ RefineAt /\ VerdictInv /\ [Next]_vars => RefineAt' /\ VerdictInv'
  BY NextVerdict
<1>3. VerdictInv => AcceptanceIsEarned
  BY DEF VerdictInv
<1> QED
  BY <1>1, <1>2, <1>3, Invariance, PTL DEF Spec

\* The summary and the final event tell the truth.
LEMMA NextSummary == IInv /\ SummaryInv /\ [Next]_vars => SummaryInv'
<1> SUFFICES ASSUME IInv, SummaryInv, [Next]_vars PROVE SummaryInv'
  OBVIOUS
<1>1. CASE QualitySummary
  <2>1. result' = result /\ nodes' = nodes /\ meas.solve = result.solve /\ phase' = "final"
    BY <1>1 DEF QualitySummary, IInv, Answered, BetweenSteps, Settled, Consistent, Describes, Tables,
       TypeOK, ResultType, tables
  <2> QED
    BY <1>1, <2>1 DEF QualitySummary, SummarySolve, SummaryInv, ReturnedResultIsCoherent
<1>2. CASE Final
  <2>1. result.success => nodes.inRange
    BY <1>2 DEF Final, IInv, BetweenSteps, Settled, Consistent
  <2> QED
    BY <1>2, <2>1 DEF Final, SummaryInv, ReturnedResultIsCoherent, tables
<1>3. CASE \/ CheckDerived \/ SkipStep \/ PrepStep \/ StepRaises \/ Estimate \/ SkipPass \/ StartPass
           \/ EmptyPlan \/ ApplyPlan \/ NothingApplied \/ StagesDone \/ PassResolve \/ Settle
  BY <1>3 DEF CheckDerived, SkipStep, PrepStep, StepRaises, Estimate, SkipPass, StartPass, EmptyPlan,
     ApplyPlan, NothingApplied, StagesDone, PassResolve, Settle, Advance, SummaryInv, ReturnedResultIsCoherent
<1>4. CASE \/ AntiOvershootSkip \/ AntiOvershootStart \/ AddPriors \/ RoundsOver
           \/ AntiOvershootResolve \/ AntiOvershootJudge
  BY <1>4 DEF AntiOvershootSkip, AntiOvershootStart, AddPriors, RoundsOver, AntiOvershootResolve,
     AntiOvershootJudge, Advance, SummaryInv, ReturnedResultIsCoherent
<1>5. CASE StepsOver
  BY <1>5 DEF StepsOver, control, SummaryInv, ReturnedResultIsCoherent
<1>6. CASE UNCHANGED vars
  BY <1>6 DEF vars, control, tables, outVars, SummaryInv, ReturnedResultIsCoherent
<1> QED
  BY <1>1, <1>2, <1>3, <1>4, <1>5, <1>6 DEF Next, Ended

\* What the caller is handed is coherent.
THEOREM ReturnedResultIsCoherentAlways == Spec => []ReturnedResultIsCoherent
<1>1. Init => SummaryInv
  BY DEF Init, SummaryInv, ReturnedResultIsCoherent
<1>2. IInv /\ SummaryInv /\ [Next]_vars => SummaryInv'
  BY NextSummary
<1>3. SummaryInv => ReturnedResultIsCoherent
  BY DEF SummaryInv
<1> QED
  BY <1>1, <1>2, <1>3, Invariance, PTL DEF Spec

-------------------------------------------------------------------------------
(* The plans *)

Demanding == {"voltage_nominal", "topology", "telemetry", "release_load_only_injections",
              "relax_generation_min_to_injection", "widen_generation_only_injections"}

LEMMA DemandingAt == \A i \in 1..32 : STEPS[i].name \in Demanding => i \in {2, 3, 6, 16, 17, 18}
  BY DEF STEPS, Step, Demanding

LEMMA DemandingSteps ==
  /\ STEPS[2]  = Step("voltage_nominal", "apply_voltage_nominal", TRUE, TRUE)
  /\ STEPS[3]  = Step("topology", "apply_topology", TRUE, TRUE)
  /\ STEPS[6]  = Step("telemetry", NoToggle, TRUE, FALSE)
  /\ STEPS[16] = Step("release_load_only_injections", "release_load_only_injections", TRUE, FALSE)
  /\ STEPS[17] = Step("relax_generation_min_to_injection", "relax_generation_min_to_injection", TRUE, FALSE)
  /\ STEPS[18] = Step("widen_generation_only_injections", "widen_generation_only_injections", TRUE, FALSE)
  BY DEF STEPS

\* A step that demands a plan needs derived inputs, and the plan is required: by
\* the step itself, or by the telemetry step, which no toggle switches off.
LEMMA DemandIsRequired ==
  ASSUME NEW i \in 1..32, DemandedPlans(STEPS[i].name) # {}
  PROVE  /\ STEPS[i].derived
         /\ \/ DemandedPlans(STEPS[i].name) = RequiredPlans(STEPS[i].name)
            \/ DemandedPlans(STEPS[i].name) = RequiredPlans(STEPS[6].name) /\ ~STEPS[i].network
<1>1. STEPS[i].name \in Demanding
  BY DEF DemandedPlans, Demanding
<1>2. i \in {2, 3, 6, 16, 17, 18}
  BY <1>1, DemandingAt
<1> QED
  BY <1>2, DemandingSteps DEF Step, DemandedPlans, RequiredPlans

\* An enabled step misses none of the plans it requires.
LEMMA RequiredAreThere ==
  ASSUME MissingPlans = {}, NEW i \in 1..32, StepOn(STEPS[i]), entry = "prepare" => STEPS[i].network
  PROVE  RequiredPlans(STEPS[i].name) \subseteq derived
  BY StepsLen DEF MissingPlans

\* With consistent derived inputs no step stops for a missing plan.
LEMMA PlansSuffice == TypeOK /\ PlansChecked => NoPlanIsMissing
<1> SUFFICES ASSUME TypeOK, PlansChecked, Runs, DemandedPlans(cur.name) # {}
             PROVE  DemandedPlans(cur.name) \subseteq derived
  BY DEF NoPlanIsMissing, PlanMissing
<1>1. /\ pos \in 1..32 /\ phase = "step" /\ StepOn(cur)
      /\ entry = "prepare" => cur.network
      /\ cur.derived => given
  BY StepsLen DEF TypeOK, Runs
<1>2. MissingPlans = {}
  BY <1>1, DemandIsRequired DEF PlansChecked, cur
<1>3. CASE DemandedPlans(cur.name) = RequiredPlans(cur.name)
  BY <1>1, <1>2, <1>3, RequiredAreThere DEF cur
<1>4. CASE DemandedPlans(cur.name) = RequiredPlans(STEPS[6].name) /\ ~cur.network
  <2>1. StepOn(STEPS[6]) /\ entry # "prepare"
    BY <1>1, <1>4, DemandingSteps DEF StepOn, Step
  <2> QED
    BY <1>2, <1>4, <2>1, RequiredAreThere
<1> QED
  BY <1>1, <1>3, <1>4, DemandIsRequired DEF cur

LEMMA NextPlansChecked == PlansChecked /\ [Next]_vars => PlansChecked'
<1> SUFFICES ASSUME PlansChecked, [Next]_vars PROVE PlansChecked'
  OBVIOUS
<1>1. given' = given /\ MissingPlans' = MissingPlans
  BY DEF Next, vars, control, CheckDerived, SkipStep, PrepStep, StepRaises, Estimate, SkipPass, StartPass,
     EmptyPlan, ApplyPlan, NothingApplied, StagesDone, PassResolve, Settle, AntiOvershootSkip,
     AntiOvershootStart, AddPriors, RoundsOver, AntiOvershootResolve, AntiOvershootJudge, StepsOver,
     QualitySummary, Final, Ended, MissingPlans, StepOn
<1>2. phase' \notin {"start", "raised"} => phase \notin {"start", "raised"} \/ CheckDerived
  BY DEF Next, vars, SkipStep, PrepStep, StepRaises, Estimate, SkipPass, StartPass, Runs, RunsPass,
     RunsAntiOvershoot, EmptyPlan, ApplyPlan, NothingApplied, StagesDone, PassResolve, Settle,
     AntiOvershootSkip, AntiOvershootStart, AddPriors, RoundsOver, AntiOvershootResolve,
     AntiOvershootJudge, StepsOver, QualitySummary, Final, Ended
<1> QED
  BY <1>1, <1>2 DEF PlansChecked, CheckDerived

\* _REQUIRED_DERIVED_PLANS covers what the step adapters demand, in the full run
\* and in the network subset, for any set of toggles.
THEOREM NoPlanIsMissingAlways == Spec => []NoPlanIsMissing
<1>1. Init => PlansChecked
  BY DEF Init, PlansChecked
<1>2. PlansChecked /\ [Next]_vars => PlansChecked'
  BY NextPlansChecked
<1> QED
  BY <1>1, <1>2, TypeCorrect, PlansSuffice, PTL DEF Spec
===============================================================================
