---------------------------- MODULE RefineStages ----------------------------
(* pipeline/passes.py: the four stages that edit the measurements on the       *)
(* residuals of a solution, bad data, v_refine, v_mirror and v_mirror_chain,   *)
(* each with its own warm re-solve, or the last three with one (refine_merge). *)
(* A re-solve that lost convergence is reverted with everything edited.        *)
EXTENDS BadDataRepass, VoltageRefine

CONSTANTS
    Cases,      \* [net, vnom, tables, levels]: what a solved model may look like
    None

Measurement == [kind : FlowKinds \cup InjectionKinds \cup {"V"}, obj : Nat, side : Int,
                pseudo : BOOLEAN, status : BOOLEAN, value : Int, sigma : Int, h : Int]

IsTable(t) == t \in [DOMAIN t -> Measurement]

\* The nodes of a case are the active ones; active branches join two of them.
ASSUME CasesAssumption ==
    \A c \in Cases :
        /\ IsFiniteSet(DOMAIN c.vnom)
        /\ \A b \in ActiveBranches(c.net) : {c.net[b].from, c.net[b].to} \subseteq DOMAIN c.vnom
        /\ \A levels \in c.levels : levels \in [DOMAIN c.vnom -> Int]
        /\ \A t \in c.tables : IsTable(t)

VARIABLES
    case,       \* the case: its network and voltage classes do not change
    cross_at,   \* v_mirror_cross_at
    merge,      \* refine_merge
    m,          \* model.measurements, with the estimates of the last solve
    vm,         \* model.nodes.voltage_magnitude
    pc,         \* stage to run next, or "resolve"
    after,      \* stage after the re-solve
    snap,       \* None or [m, vm]: the snapshot of the pass
    moved       \* history: in this pass, node -> the values its prior was given

vars == <<case, cross_at, merge, m, vm, pc, after, snap, moved>>

net == case.net
vnom == case.vnom

\* write_measurement_estimates, for the rows the later stages read; a row of a
\* node that was not solved has no estimate.
Estimated(table, levels) ==
    [i \in DOMAIN table |->
        IF table[i].kind = "V" /\ table[i].obj \in DOMAIN levels
        THEN [table[i] EXCEPT !.h = levels[table[i].obj]]
        ELSE table[i]]

Init ==
    /\ case \in Cases
    /\ cross_at \in BOOLEAN /\ merge \in BOOLEAN
    /\ vm \in case.levels
    /\ \E t \in case.tables : m = Estimated(t, vm)
    /\ pc = "bad_data" /\ after = None
    /\ snap = None
    /\ moved = [n \in DOMAIN case.vnom |-> {}]

-----------------------------------------------------------------------------
(* _resolve_pass: an empty plan is passed over; an edit arms the snapshot and  *)
(* either goes to the next merged stage or to the re-solve.                    *)

Arm == snap' = IF snap = None THEN [m |-> m, vm |-> vm] ELSE snap

\* Of the merged stages only the last one is followed by the re-solve.
Shared(stage) == merge /\ stage \in {"v_refine", "v_mirror"}

LastMerged(stage) == merge /\ stage = "v_mirror_chain"

Skip(stage, next) ==
    /\ IF LastMerged(stage) /\ snap # None
       THEN pc' = "resolve" /\ after' = next
       ELSE pc' = next /\ UNCHANGED after
    /\ UNCHANGED <<m, snap, moved>>

Edit(stage, next, table) ==
    /\ Arm
    /\ m' = table
    /\ IF Shared(stage)
       THEN pc' = next /\ UNCHANGED after
       ELSE pc' = "resolve" /\ after' = next

BadData ==
    /\ pc = "bad_data"
    /\ LET plan == BadDataPlan(m, net)
       IN IF BadDataPlanEmpty(plan) THEN Skip("bad_data", "v_refine")
          ELSE Edit("bad_data", "v_refine", ApplyBadData(m, plan)) /\ UNCHANGED moved
    /\ UNCHANGED <<case, cross_at, merge, vm>>

VRefine ==
    /\ pc = "v_refine"
    /\ IF Tighten(m) = {} THEN Skip("v_refine", "v_mirror")
       ELSE Edit("v_refine", "v_mirror", ApplyVRefine(m, Tighten(m))) /\ UNCHANGED moved
    /\ UNCHANGED <<case, cross_at, merge, vm>>

Move(stage, next, plan) ==
    IF DOMAIN plan = {} THEN Skip(stage, next)
    ELSE /\ Edit(stage, next, ApplyVMirror(m, plan))
         /\ moved' = [n \in DOMAIN moved |->
                         moved[n] \cup IF n \in DOMAIN plan THEN {plan[n]} ELSE {}]

VMirror ==
    /\ pc = "v_mirror"
    /\ Move("v_mirror", "v_mirror_chain", VMirrorPlan(m, net, vnom, vm, cross_at))
    /\ UNCHANGED <<case, cross_at, merge, vm>>

VMirrorChain ==
    /\ pc = "v_mirror_chain"
    /\ Move("v_mirror_chain", "done", ChainPlan(m, net, vnom, vm, cross_at))
    /\ UNCHANGED <<case, cross_at, merge, vm>>

\* The warm re-solve is accepted with whatever levels it finds ...
Accept ==
    /\ vm' \in case.levels
    /\ m' = Estimated(m, vm')

\* ... or the snapshot comes back.
Revert == m' = snap.m /\ vm' = snap.vm

Resolve ==
    /\ pc = "resolve"
    /\ Accept \/ Revert
    /\ snap' = None
    /\ pc' = after /\ after' = None
    /\ moved' = [n \in DOMAIN moved |-> {}]
    /\ UNCHANGED <<case, cross_at, merge>>

Next == BadData \/ VRefine \/ VMirror \/ VMirrorChain \/ Resolve

Spec == Init /\ [][Next]_vars

-----------------------------------------------------------------------------
(* The bad-data stage never blinds the network: a node observed in a domain,   *)
(* active or reactive power, before its edits is observed in it after them, no *)
(* node with telemetry becomes one without any for the mirror stages, and a    *)
(* reactive injection is damped and never switched off.                        *)
BadDataKeepsCoverage ==
    [][pc = "bad_data" =>
         /\ Observed(m', net) = Observed(m, net)
         /\ MeasuredNodes(m', net) = MeasuredNodes(m, net)
         /\ \A i \in DOMAIN m : m[i].kind = "Qinj" => m'[i].status = m[i].status]_vars

SameClass(n) == {k \in DOMAIN vm : vnom[k] = vnom[n]}

(* The mirror stages only lift: what they change is the value of the pseudo-V  *)
(* rows of nodes that hold a flat prior and lie below, it ends above the       *)
(* solution by more than min_lift and no further from the nominal than         *)
(* max_pu_dev, and, unless levels may cross transformers, no higher than some  *)
(* solved level of the node's own voltage class.                               *)
Lifted(before, now) ==
    LET n == before.obj
    IN /\ before.pseudo /\ before.kind = "V" /\ n \in FlatNodes(m)
       /\ now = [before EXCEPT !.value = now.value]
       /\ now.value - vm[n] > MinLift
       /\ Plausible(now.value)
       /\ cross_at \/ \E k \in SameClass(n) : now.value <= Larger(Nominal, vm[k])

MirrorsOnlyLift ==
    [][\A i \in DOMAIN m :
         pc \in {"v_mirror", "v_mirror_chain"} /\ m'[i] # m[i] => Lifted(m[i], m'[i])]_vars

(* In one merged pass a prior is moved a second time only when the first move  *)
(* had left it at the nominal, where the chain stage still takes it for a      *)
(* placeholder; the pass then keeps the second value.                          *)
MovedAgainOnlyFromNominal ==
    \A n \in DOMAIN moved : Cardinality(moved[n]) > 1 => Nominal \in moved[n]

(* The comment on MERGED_STAGES: the chain stage classifies after v_mirror is  *)
(* applied, so the plans do not overlap.  It does not hold: a boundary solved  *)
(* at its nominal, a slack held there, gives the nominal back.                 *)
MergedPlansAreDisjoint ==
    \A n \in DOMAIN moved : Cardinality(moved[n]) <= 1
=============================================================================
