-------------------------------- MODULE Reruns --------------------------------
(* What calls the solver again: validation/bad_data.py, which estimates, drops *)
(* the worst reading and estimates again, and the trial runs of ShuntTrials.   *)
EXTENDS Estimate, ShuntTrials

CONSTANTS
    MaxRejections,      \* max_iterations of remove_bad_data
    DefaultConfig       \* the arguments remove_bad_data estimates with

\* remove_bad_data estimates by least squares and merges nothing.
ASSUME CleaningAssumption ==
    /\ MaxRejections \in Nat /\ None \notin BOOLEAN
    /\ DefaultConfig.alg = "wls" /\ DefaultConfig.merge = None

VARIABLES
    caller,     \* "estimate" | "bad data" | "shunts": who runs
    removed,    \* removed_meas_ids
    cleaned     \* None or converged of the BadDataResult

vars == <<evars, svars, caller, removed, cleaned>>
loop == <<svars, caller, removed, cleaned>>

Init ==
    /\ EstimateInit /\ ShuntsInit
    /\ caller \in {"estimate", "bad data", "shunts"}
    /\ caller = "bad data" => cfg = DefaultConfig
    /\ caller = "shunts" => case = CHOOSE c \in Cases : TRUE
    /\ caller # "shunts" => input = CHOOSE i \in Inputs : TRUE
    /\ removed = <<>> /\ cleaned = None

Solve == caller # "shunts" /\ EstimateNext /\ UNCHANGED loop

RunTrials == caller = "shunts" /\ ShuntsNext /\ UNCHANGED <<evars, caller, removed, cleaned>>

(* remove_bad_data after one estimate: `it` is the number of rejections.      *)
Cleaning == caller = "bad data" /\ pc = "done" /\ cleaned = None

\* compute_diagnostics: the rows of the tables as they are now.
Checked == UsedRows(m, nodes, Lines(nodes, branches, {}))

StopCleaning(converged) ==
    cleaned' = converged /\ UNCHANGED <<evars, svars, caller, removed>>

EstimateFailed == Cleaning /\ ~result.success /\ StopCleaning(FALSE)

\* Nothing to check, or no finite residual above the threshold.
TestPassed == Cleaning /\ result.success /\ StopCleaning(TRUE)

\* The worst of the finite residuals is above the threshold.
RejectWorst ==
    /\ Cleaning /\ result.success
    /\ \E bad \in Checked :
          /\ m' = [m EXCEPT ![bad].status = FALSE, ![bad].quality = Bad]
          /\ removed' = Append(removed, bad)
    /\ IF Len(removed) = MaxRejections THEN cleaned' = FALSE /\ UNCHANGED pc
       ELSE pc' = "call" /\ UNCHANGED cleaned
    /\ UNCHANGED <<case, nodes, branches, prob, sol, roleEst, result, svars, caller>>

Next == Solve \/ RunTrials \/ EstimateFailed \/ TestPassed \/ RejectWorst

Spec == Init /\ [][Next]_vars
-----------------------------------------------------------------------------
(* What the callers report is about the result they return.                   *)
(*                                                                             *)
(* Bad data: a clean-up that converged returns a successful estimate of the    *)
(* rows that are left, none of which was removed; one that gave up at its      *)
(* limit returns an estimate that still used the last reading it removed       *)
(* (bad_data.py 336-401, whose result is bound late).  Shunts: the returned    *)
(* run is the base run, or better than it by the gate and the run of exactly   *)
(* the reported edits, each of which earned the gate alone, one of them or     *)
(* several (orchestration.py 128-172).                                         *)
ReportMatchesResult ==
    /\ caller = "bad data" /\ cleaned # None =>
        LET gone == {removed[k] : k \in DOMAIN removed}
        IN /\ gone \cap Checked = {} /\ Cardinality(gone) = Len(removed)
           /\ cleaned => /\ result.success /\ result.used = Checked
                         /\ \A i \in gone : m[i].est = None
           /\ ~cleaned /\ result.success =>
                 /\ Len(removed) = MaxRejections + 1
                 /\ result.used = Checked \cup {removed[Len(removed)]}
    /\ caller = "shunts" /\ final # None =>
        IF report.edits = NoEdits THEN final = base
        ELSE /\ EditShunts(report.edits) \in DOMAIN seen
             /\ final = seen[EditShunts(report.edits)]
             /\ base.rn2 - final.rn2 > Gate
             /\ \A n \in DOMAIN report.edits : \E k \in DOMAIN Candidates : Candidates[k] = n
             /\ \A n \in DOMAIN report.edits :
                   LET alone == [k \in {n} |-> report.edits[n]]
                   IN base.rn2 - seen[EditShunts(alone)].rn2 > Gate
=============================================================================
