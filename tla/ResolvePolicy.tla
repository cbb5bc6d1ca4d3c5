---------------------------- MODULE ResolvePolicy ----------------------------
(***************************************************************************)
(* What a run of the estimation pipeline promises about its answer,        *)
(* whatever the post-solve passes try (gridstate/resolve_pass.py, "a pass  *)
(* can never turn a usable solution into an unusable one").                *)
(*                                                                         *)
(* The answer of a run is "none" until the main solve, then "usable" (it   *)
(* converged and its state is in range) or "unusable".  A later pass may   *)
(* replace an unusable answer by a usable one and a usable one by another  *)
(* usable one; the only other event is that the run raises, and then there *)
(* is no answer at all.                                                    *)
(***************************************************************************)

VARIABLE answer

Answers == {"none", "unusable", "usable", "raised"}

Init == answer = "none"

\* The main solve produces the first answer.
FirstSolve == /\ answer = "none"
              /\ answer' \in {"unusable", "usable"}

\* A pass replaces an unusable answer by a usable one.
Improve == /\ answer = "unusable"
           /\ answer' = "usable"

\* An exception ends the run: the caller gets no answer.
Raise == /\ answer # "raised"
         /\ answer' = "raised"

Next == FirstSolve \/ Improve \/ Raise

Spec == Init /\ [][Next]_answer
==============================================================================
