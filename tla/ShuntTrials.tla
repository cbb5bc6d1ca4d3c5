----------------------------- MODULE ShuntTrials -----------------------------
(* pipeline/orchestration.py and shunt_sanity.py: full runs of edited copies   *)
(* of the input, kept when they agree better with the readings.                *)
(*                                                                             *)
(* A cold run is a function of the network it is given: what it returns is     *)
(* chosen when the network is first run and remembered in `seen`.  The base    *)
(* run may have started warm, so it is chosen apart.  A run is None (failed)   *)
(* or [rn2, volt]: the residuals over its live real readings and the solved    *)
(* voltage of every node (None if not finite).  Edits are a function from      *)
(* nodes to "off" and "flip".                                                  *)
EXTENDS MeasRows, InjectionParts, FiniteSetsExt, Sequences

CONSTANTS
    Inputs,         \* [shunts, readings, nominal]: the possible models
    BaseRuns, ColdRuns,     \* what a run may return
    Gate, MaxCandidates, Threshold      \* shunt_sanity_gate_drop, max_candidates, v_frac in percent

Modes == {"off", "flip"}

\* A run that did not fail has a sum of residuals; None is no outcome of a trial.
ASSUME RunsAssumption ==
    /\ Gate \in Int /\ MaxCandidates \in Nat
    /\ \A run \in (BaseRuns \cup ColdRuns) \ {None} : run.rn2 \in Int
    /\ None \notin [mode : Modes, run : ColdRuns]
    /\ \A i \in Inputs : IsFiniteSet(DOMAIN i.nominal)

VARIABLES
    input,      \* the model, never edited
    spc,        \* "base" | "classify" | "try" | "joint" | "done"
    base,       \* the base run
    seen,       \* shunt table -> cold run
    todo,       \* trials still to run, <<node, mode>> in order
    best,       \* None or [mode, run] of the candidate under trial
    accepted,   \* accepted edits
    last,       \* run of the candidate accepted last
    report,     \* None or [candidates, edits]
    final       \* None or the run that is returned

svars == <<input, spc, base, seen, todo, best, accepted, last, report, final>>

NoEdits == [n \in {} |-> "off"]

ShuntsInit ==
    /\ input \in Inputs /\ spc = "base" /\ base = None /\ seen = [t \in {} |-> None]
    /\ todo = <<>> /\ best = None /\ accepted = NoEdits /\ last = None
    /\ report = None /\ final = None

-----------------------------------------------------------------------------
(* classify_shunt_candidates: readings of any status.                        *)

Deviation(i) == Abs(input.readings[i].value - base.volt[input.readings[i].node])

Nominates(i) ==
    LET r == input.readings[i]
        nominal == input.nominal[r.node]
    IN /\ ~r.pseudo
       /\ \E s \in DOMAIN input.shunts : input.shunts[s].node = r.node /\ input.shunts[s].status
       /\ nominal > 0 /\ 2 * r.value > nominal /\ 2 * r.value < 3 * nominal
       /\ base.volt[r.node] # None
       /\ 100 * Deviation(i) > Threshold * nominal

Nominations(n) == {i \in DOMAIN input.readings : input.readings[i].node = n /\ Nominates(i)}

Nominated == {n \in DOMAIN input.nominal : Nominations(n) # {}}

\* By descending deviation, then in the order of the first nomination.
Place(n) ==
    LET worst(k) == Max({Deviation(i) : i \in Nominations(k)})
    IN 1 + Cardinality({k \in Nominated :
               \/ worst(k) > worst(n)
               \/ worst(k) = worst(n) /\ Min(Nominations(k)) < Min(Nominations(n))})

Candidates ==
    [k \in {j \in 1 .. Cardinality(Nominated) : j <= MaxCandidates} |->
        CHOOSE n \in Nominated : Place(n) = k]

\* edit_shunt on a copy of the input: all the shunts of a node.
EditShunts(edits) ==
    [s \in DOMAIN input.shunts |->
        LET shunt == input.shunts[s]
        IN IF shunt.node \notin DOMAIN edits THEN shunt
           ELSE IF edits[shunt.node] = "off" THEN [shunt EXCEPT !.status = FALSE]
           ELSE [shunt EXCEPT !.b = -@]]

EditsNothing(edits) ==
    \E n \in DOMAIN edits : ~\E s \in DOMAIN input.shunts : input.shunts[s].node = n

\* _trial: a cold run of the edited copy.
Trial(edits, run) ==
    LET table == EditShunts(edits)
    IN IF EditsNothing(edits) THEN run = None /\ UNCHANGED seen
       ELSE IF table \in DOMAIN seen THEN run = seen[table] /\ UNCHANGED seen
       ELSE seen' = [t \in DOMAIN seen \cup {table} |-> IF t = table THEN run ELSE seen[t]]

\* Agreement better than a bar; a failed run has none.
Below(run, bar) == run # None /\ run.rn2 < bar

Bar == base.rn2 - Gate

-----------------------------------------------------------------------------

BaseRun ==
    /\ spc = "base"
    /\ \E run \in BaseRuns :
          /\ base' = run
          /\ IF run = None THEN spc' = "done" /\ final' = run
             ELSE spc' = "classify" /\ UNCHANGED final
    /\ UNCHANGED <<input, seen, todo, best, accepted, last, report>>

Classify ==
    /\ spc = "classify"
    /\ IF Candidates = <<>>
       THEN /\ spc' = "done" /\ final' = base /\ report' = [candidates |-> 0, edits |-> NoEdits]
            /\ UNCHANGED todo
       ELSE /\ spc' = "try" /\ UNCHANGED final
            /\ report' = [candidates |-> Len(Candidates), edits |-> NoEdits]
            /\ todo' = [k \in 1 .. 2 * Len(Candidates) |->
                          <<Candidates[(k + 1) \div 2], IF k % 2 = 1 THEN "off" ELSE "flip">>]
    /\ UNCHANGED <<input, base, seen, best, accepted, last>>

\* One variant of one candidate; the best of the two is kept after the second.
TryVariant ==
    /\ spc = "try" /\ todo # <<>>
    /\ LET n == Head(todo)[1]
           mode == Head(todo)[2]
           bar == IF best = None THEN Bar ELSE best.run.rn2
       IN \E run \in ColdRuns :
            /\ Trial([k \in {n} |-> mode], run)
            /\ LET now == IF Below(run, bar) THEN [mode |-> mode, run |-> run] ELSE best
               IN IF mode = "off" THEN best' = now /\ UNCHANGED <<accepted, last>>
                  ELSE /\ best' = None
                       /\ accepted' = IF now = None THEN accepted
                                      ELSE [k \in DOMAIN accepted \cup {n} |->
                                               IF k = n THEN now.mode ELSE accepted[k]]
                       /\ last' = IF now = None THEN last ELSE now.run
    /\ todo' = Tail(todo)
    /\ UNCHANGED <<input, spc, base, report, final>>

Conclude(run) ==
    /\ spc' = "done"
    /\ IF Below(run, Bar) THEN final' = run /\ report' = [report EXCEPT !.edits = accepted]
       ELSE final' = base /\ UNCHANGED report

\* The last accepted trial stands for the joint run.
ConclusionNoJointRun ==
    /\ spc = "try" /\ todo = <<>>
    /\ IF accepted = NoEdits THEN final' = base /\ spc' = "done" /\ UNCHANGED report
       ELSE Conclude(last)
    /\ UNCHANGED <<input, base, seen, todo, best, accepted, last>>

\* No accepted candidate, or one whose trial is the joint run.
Conclusion ==
    /\ spc = "try" /\ todo = <<>>
    /\ IF accepted = NoEdits THEN final' = base /\ spc' = "done" /\ UNCHANGED report
       ELSE IF Cardinality(DOMAIN accepted) = 1 THEN Conclude(last)
       ELSE spc' = "joint" /\ UNCHANGED <<final, report>>
    /\ UNCHANGED <<input, base, seen, todo, best, accepted, last>>

JointRun ==
    /\ spc = "joint"
    /\ \E run \in ColdRuns : Trial(accepted, run) /\ Conclude(run)
    /\ UNCHANGED <<input, base, todo, best, accepted, last>>

ShuntsNext == BaseRun \/ Classify \/ TryVariant \/ Conclusion \/ JointRun
=============================================================================
