--------------------------- MODULE BadDataRepass ---------------------------
(* bad_data_repass.py: from the residuals of a solve, the rows whose sign is   *)
(* flipped, which are rejected and which only damped.  Ratios are percentages. *)
EXTENDS MeasRows

CONSTANTS
    Threshold,          \* bad_data_threshold, in detection sigmas
    SigmaCap,           \* bad_data_sigma_cap; 0: none
    FlipRatio,          \* bad_data_flip_ratio
    PairTolP, PairTolQ, PairZMin, PairSigmaMult,
    DampFactor

ASSUME DampingAssumption == DampFactor \in Int

Detectable(m) == Rows(m, FlowKinds \cup InjectionKinds, FALSE)

SigmaDet(row) ==
    IF SigmaCap > 0 /\ row.sigma > SigmaCap THEN SigmaCap ELSE row.sigma

Residual(row) == Abs(row.value - row.h)

Candidates(m) ==
    {i \in Detectable(m) : Residual(m[i]) > Threshold * SigmaDet(m[i])}

-----------------------------------------------------------------------------
(* Pair immunity: the medians of both ends of a flow agree.                   *)

Ends(m, kind, branch, side) ==
    {i \in Detectable(m) : m[i].kind = kind /\ m[i].obj = branch /\ m[i].side = side}

MedianOf(m, ids) == Median([i \in ids |-> m[i].value])

Larger(a, b) == IF a > b THEN a ELSE b

Consistent(m, kind, branch) ==
    LET begin == Ends(m, kind, branch, 0)
        end == Ends(m, kind, branch, 1)
        tol == IF kind = "P" THEN PairTolP ELSE PairTolQ
        zb == MedianOf(m, begin)
        ze == MedianOf(m, end)
        zmax == Larger(Abs(zb), Abs(ze))
    IN /\ begin # {} /\ end # {}
       /\ zmax >= PairZMin
       /\ \/ 100 * Abs(zb + ze) <= tol * zmax
          \/ \E i \in begin \cup end : Abs(zb + ze) <= PairSigmaMult * SigmaDet(m[i])

Immune(m) ==
    {i \in Detectable(m) : /\ m[i].kind \in {"P", "Q"} /\ m[i].side \in {0, 1}
                           /\ Consistent(m, m[i].kind, m[i].obj)}

-----------------------------------------------------------------------------
(* The plan.                                                                  *)

Flips(m) ==
    {i \in Candidates(m) \ Immune(m) :
        /\ 100 * Abs(m[i].value + m[i].h) < FlipRatio * Residual(m[i])
        /\ m[i].value # 0}

Gross(m) == (Candidates(m) \ Immune(m)) \ Flips(m)

Domain(kind) == IF kind \in {"P", "I", "Pinj"} THEN "P" ELSE "Q"

\* Rows that observe a node in a domain; V does not count.
Cover(m, net, node, domain) ==
    {i \in Detectable(m) : Domain(m[i].kind) = domain /\ node \in NodesOf(net, m[i])}

Observed(m, net) ==
    {o \in (UNION {NodesOf(net, m[i]) : i \in Detectable(m)}) \X {"P", "Q"} :
        Cover(m, net, o[1], o[2]) # {}}

\* Mutant: only the object a row hangs on is looked at.
RestoredByObject(m, net) ==
    {i \in Gross(m) : \A j \in Detectable(m) :
        m[j].obj = m[i].obj /\ Domain(m[j].kind) = Domain(m[i].kind) => j \in Gross(m)}

(* Where all rows of a node and a domain would go, all of them stay.          *)
Restored(m, net) ==
    UNION {c \in {Cover(m, net, o[1], o[2]) : o \in Observed(m, net)} : c \subseteq Gross(m)}

Damped(m) == {i \in Gross(m) : m[i].kind = "Qinj"}

Rejects(m, net) == (Gross(m) \ Damped(m)) \ Restored(m, net)

BadDataPlan(m, net) ==
    [flips |-> Flips(m), rejects |-> Rejects(m, net), damped |-> Damped(m)]

BadDataPlanEmpty(plan) == plan.flips \cup plan.rejects \cup plan.damped = {}

\* apply_bad_data_plan
ApplyBadData(m, plan) ==
    [i \in DOMAIN m |->
        [m[i] EXCEPT !.value = IF i \in plan.flips THEN -@ ELSE @,
                     !.status = @ /\ i \notin plan.rejects,
                     !.sigma = IF i \in plan.damped THEN DampFactor * @ ELSE @]]
=============================================================================
