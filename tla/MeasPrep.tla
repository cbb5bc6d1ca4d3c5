------------------------------ MODULE MeasPrep ------------------------------
(* The measurement steps of a run (pipeline/steps.py, pipeline/preparation.py) *)
(* in their order: telemetry is applied, the network cascade switches objects  *)
(* off, the filters judge the readings, and mirrored, external and built-in    *)
(* pseudo rows fill what is missing.                                           *)
(*                                                                             *)
(* A case is one call: the tables, the plans and the configuration.            *)
EXTENDS TelemetryApply, MeasFilters, PseudoRows

CONSTANTS
    Cases,
    MirrorBase, ExternalBase, PseudoBase    \* measurement_ids.py

ASSUME FactorsAssumption ==
    /\ QuestionableFactor \in Nat \ {0}
    /\ QLossFactor \in Nat /\ GenVSigma2 \in Nat /\ RelaxSigma \in Nat
    /\ None \notin Int \X Int /\ Inf \in Nat
    /\ MirrorBase \in Int /\ ExternalBase \in Int /\ PseudoBase \in Int

(* What a call may come with: rows of distinct ids, any reading of any object, *)
(* one per placed kind.  The telemetry step has no toggle.                     *)
RowFields == {"id", "kind", "obj", "side", "pseudo", "status", "value", "var",
              "quality", "flag", "part"}

IsTable(s) == s \in Seq({s[i] : i \in DOMAIN s})

AreRows(rows) ==
    /\ IsTable(rows)
    /\ \A i \in DOMAIN rows :
          DOMAIN rows[i] = RowFields /\ rows[i].id \in Int /\ rows[i].var \in Nat
    /\ \A i, j \in DOMAIN rows : rows[i].id = rows[j].id => i = j

AreNodes(table) ==
    /\ IsTable(table)
    /\ \A n \in DOMAIN table :
          /\ {"status", "vn", "gp", "lp", "lq", "genP", "genQ", "loadP", "loadQ"}
                \subseteq DOMAIN table[n]
          /\ table[n].vn \in Nat /\ table[n].lp \in Int \X Int /\ table[n].lq \in Int \X Int

HaveRanges(table) ==
    \A n \in DOMAIN table :
        {"existGen", "existLoad"} \subseteq DOMAIN table[n] /\ table[n].gp \in Int \X Int

AreBranches(table) ==
    /\ IsTable(table)
    /\ \A b \in DOMAIN table :
          {"status", "charging"} \subseteq DOMAIN table[b] /\ table[b].charging \in Int

IsPlan(plan) ==
    /\ IsFiniteSet(DOMAIN plan)
    /\ \A k \in DOMAIN plan :
          /\ k \in Int \X STRING \X Nat /\ (IsPlaced(k) => k[3] = 0)
          /\ plan[k].value = None \/ plan[k].value \in Int
          /\ plan[k].ext = None \/ plan[k].ext \in Nat
          /\ plan[k].quality \in {Good, Questionable, Bad} /\ plan[k].scale \in Nat

IsCall(c) ==
    /\ AreRows(c.rows) /\ AreBranches(c.branches) /\ IsPlan(c.plan)
    /\ AreNodes(c.nodes) /\ HaveRanges(c.nodes)
    /\ IsTable(c.given)
    /\ \A j \in DOMAIN c.given : c.given[j].kind \in {"V"} \cup InjectionKinds
    /\ "telemetry" \notin c.cfg.off /\ c.cfg.floor \in Nat

ASSUME CasesAssumption == \A c \in Cases : IsCall(c)

VARIABLES
    case,       \* the call
    pc,         \* the step that is next, "done" or "failed"
    m,          \* measurements
    nodes, branches,
    fixed,      \* ctx.fixed_sigma2_ids
    released    \* ctx.released_injections, pairs <<node, part>>

vars == <<case, pc, m, nodes, branches, fixed, released>>

\* Mutant: minimums are relaxed before the load-only readings are released.
RelaxFirst ==
    [telemetry |-> "cascade", cascade |-> "range", range |-> "relax", relax |-> "release",
     release |-> "widen", widen |-> "genV", genV |-> "orphans", orphans |-> "mirror",
     mirror |-> "materialize", materialize |-> "external", external |-> "pseudo",
     pseudo |-> "floor", floor |-> "done"]

After == [telemetry |-> "cascade", cascade |-> "range", range |-> "release",
          release |-> "relax", relax |-> "widen", widen |-> "genV", genV |-> "orphans",
          orphans |-> "mirror", mirror |-> "materialize", materialize |-> "external",
          external |-> "pseudo", pseudo |-> "floor", floor |-> "done"]

Steps == DOMAIN After

Init ==
    /\ case \in Cases
    /\ pc = "telemetry"
    /\ m = case.rows
    /\ nodes = case.nodes
    /\ branches = case.branches
    /\ fixed = {}
    /\ released = {}

On(step) == pc = step /\ step \notin case.cfg.off /\ pc' = After[step]

\* A step whose toggle is off.
SkipStep ==
    /\ pc \in Steps \cap case.cfg.off
    /\ pc' = After[pc]
    /\ UNCHANGED <<case, m, nodes, branches, fixed, released>>

\* New rows of a step: their ids meet existing ones, or the batch is added.
Added(rows, first) ==
    IF Collides(m, rows, first) THEN pc' = "failed" /\ m' = m
    ELSE pc' = After[pc] /\ m' = AddMany(m, rows, first)

-----------------------------------------------------------------------------
TelemetryFails ==
    /\ pc = "telemetry"
    /\ PartlyCovered(case.plan, case.cfg)
    /\ pc' = "failed"
    /\ UNCHANGED <<case, m, nodes, branches, fixed, released>>

TelemetryStep ==
    /\ On("telemetry")
    /\ ~PartlyCovered(case.plan, case.cfg)
    /\ m' = Telemetry(m, case.plan, nodes, branches, case.cfg)
    /\ fixed' = FinalIds(m, case.plan, nodes, branches, case.cfg)
    /\ UNCHANGED <<case, nodes, branches, released>>

\* The status cascades (NetworkPrep), by what they leave: some nodes and all
\* branches at them are off.
Cascade ==
    /\ On("cascade")
    /\ \E dead \in case.outages :
          /\ nodes' = [n \in DOMAIN nodes |-> [nodes[n] EXCEPT !.status = @ /\ n \notin dead]]
          /\ branches' = [b \in DOMAIN branches |->
                [branches[b] EXCEPT !.status = @ /\ {branches[b].from, branches[b].to} \cap dead = {}]]
    /\ UNCHANGED <<case, m, fixed, released>>

VoltageRangeFilter ==
    /\ On("range")
    /\ m' = RangeFilter(m, nodes, fixed, case.cfg)
    /\ UNCHANGED <<case, nodes, branches, fixed, released>>

\* With measured parts a partial net injection does not arise.
ReleaseLoadOnly ==
    /\ On("release")
    /\ IF case.cfg.roles THEN UNCHANGED <<m, released>>
       ELSE /\ m' = Release(m, nodes, case.plan)
            /\ released' = ReleasedNodes(m, nodes, case.plan)
    /\ UNCHANGED <<case, nodes, branches, fixed>>

RelaxGenerationMin ==
    /\ On("relax")
    /\ nodes' = Relax(m, nodes, case.plan)
    /\ UNCHANGED <<case, m, branches, fixed, released>>

WidenGenerationOnly ==
    /\ On("widen")
    /\ m' = IF case.cfg.roles THEN m ELSE Widen(m, nodes, case.plan, fixed)
    /\ UNCHANGED <<case, nodes, branches, fixed, released>>

CalibrateGenVoltage ==
    /\ On("genV")
    /\ m' = GenVoltage(m, nodes, fixed, case.cfg)
    /\ UNCHANGED <<case, nodes, branches, fixed, released>>

DeactivateOrphans ==
    /\ On("orphans")
    /\ m' = Orphans(m, nodes, branches)
    /\ UNCHANGED <<case, nodes, branches, fixed, released>>

MirrorVoltage ==
    /\ pc = "mirror" /\ pc \notin case.cfg.off
    /\ Added(MirrorRows(m, nodes, branches), SkipTaken(m, MirrorBase))
    /\ UNCHANGED <<case, nodes, branches, fixed, released>>

MaterializeRegime ==
    /\ On("materialize")
    /\ nodes' = Materialize(nodes, case.obs)
    /\ UNCHANGED <<case, m, branches, fixed, released>>

AddExternal ==
    /\ pc = "external" /\ pc \notin case.cfg.off
    /\ Added(ExternalRows(nodes, case.given), SkipTaken(m, ExternalBase))
    /\ UNCHANGED <<case, nodes, branches, fixed, released>>

AddPseudo ==
    /\ pc = "pseudo" /\ pc \notin case.cfg.off
    /\ Added(Priors(m, nodes, branches, released, case.cfg), PseudoBase)
    /\ UNCHANGED <<case, nodes, branches, fixed, released>>

FlowSigmaFloor ==
    /\ On("floor")
    /\ m' = FlowFloor(m, nodes, branches, fixed, case.cfg)
    /\ UNCHANGED <<case, nodes, branches, fixed, released>>

Next ==
    \/ TelemetryFails \/ TelemetryStep \/ Cascade \/ VoltageRangeFilter \/ ReleaseLoadOnly
    \/ RelaxGenerationMin \/ WidenGenerationOnly \/ CalibrateGenVoltage \/ DeactivateOrphans
    \/ MirrorVoltage \/ MaterializeRegime \/ AddExternal \/ AddPseudo \/ FlowSigmaFloor
    \/ SkipStep

Spec == Init /\ [][Next]_vars

-----------------------------------------------------------------------------
(* Properties. *)

\* The readings that feed a row.
Feeding(row) ==
    {k \in DOMAIN case.plan : k[1] = row.obj /\
        IF IsComponent(k)
        THEN Part[k[2]] = row.kind /\ Usable(case.plan[k]) /\ row.part \in {0, Sign[k[2]]}
        ELSE IsPlaced(k) /\ Place[k[2]] = <<row.kind, row.side>>}

(* Where every reading summed into a row came with an external variance that  *)
(* is final, the row has their sum from the telemetry step to the end: no     *)
(* quality factor, filter, load box, calibration or floor changes it.         *)
FinalVarianceIsKept ==
    pc \notin {"telemetry", "failed"} /\ case.cfg.final =>
        \A i \in DOMAIN m :
            (/\ m[i].status /\ ~m[i].pseudo
             /\ Feeding(m[i]) # {} /\ Covered(case.plan, Feeding(m[i])))
                => m[i].var = ExternalSum(case.plan, Feeding(m[i]))

(* Once a reading is under suspicion, by its quality or its value, no later   *)
(* step trusts it more: a generator bus does not turn it into the strongest   *)
(* anchor of the estimate.                                                    *)
SuspectIsNeverTightened ==
    [][\A i \in DOMAIN m :
          pc # "telemetry" /\ m[i].status /\ m[i].quality = Questionable =>
              m'[i].quality = Questionable /\ m'[i].var >= m[i].var]_vars

(* Whatever was rejected, released or switched off on the way, at the end     *)
(* every live node has a voltage and an active power injection to go by.      *)
EveryNodeIsAnchored ==
    /\ pc = "done" /\ "pseudo" \notin case.cfg.off
    /\ case.cfg.pseudoV /\ case.cfg.pseudoInjections
    => \A n \in ActiveNodes(nodes) :
          LET anchored(kind) ==
                  \E i \in DOMAIN m : m[i].kind = kind /\ m[i].obj = n /\ m[i].status
          IN (nodes[n].vn > 0 => anchored("V")) /\ anchored("Pinj")

(* No two rows share an id, whichever ids the input came with, and what the   *)
(* solver is given hangs on live objects and is not of bad quality.           *)
ActiveRowsAreLive ==
    /\ \A i, j \in DOMAIN m : m[i].id = m[j].id => i = j
    /\ pc = "done" /\ "orphans" \notin case.cfg.off =>
          \A i \in DOMAIN m :
              m[i].status => Live(m[i], nodes, branches) /\ m[i].quality # Bad

(* The most load that a reading leaves to its node; None when its range is    *)
(* unknown.  A reading of generation that was not widened is one of           *)
(* generation still.                                                          *)
MostLoad(n) ==
    IF \/ ~nodes[n].existLoad
       \/ /\ n \in GenerationOnly(case.plan, "Pinj")
          /\ case.cfg.roles \/ ~Declared(nodes[n].lp)
    THEN 0
    ELSE IF DeclaredOrPoint(nodes[n].lp) THEN nodes[n].lp[2] ELSE None

Measured(n) == {i \in Rows(m, {"Pinj"}, FALSE) : m[i].obj = n}

(* The estimate is not given a minimum generation that the injection reading  *)
(* it is given too rules out, whatever shifts, widens or switches off that    *)
(* reading between the relaxation and the end.                                *)
MinimumAgreesWithReading ==
    pc = "done" /\ case.cfg.off = {} =>
        \A n \in Generating(nodes) :
            nodes[n].gp[1] > 0 /\ Measured(n) # {} /\ MostLoad(n) # None =>
                LET row == m[FirstReading(m, n)]
                IN ~Beyond(nodes[n].gp[1] - row.value - MostLoad(n), RelaxSigma, row.var)

\* Some component that feeds the active injection of the node is of generation.
GenerationWasRead(n) == \E k \in Components(case.plan, n, "Pinj") : Sign[k[2]] = 1

\* The minimum of a declared range was dropped.
MinimumDropped(n) ==
    Declared(case.nodes[n].gp) /\ nodes[n].gp # case.nodes[n].gp

(* A minimum of a declared range is dropped only on a reading that generation *)
(* feeds: a load-only reading, which states nothing of the generation, is     *)
(* released before any minimum is compared with it.                           *)
MinimumDropsOnGeneration ==
    "release" \notin case.cfg.off /\ ~case.cfg.roles =>
        \A n \in DOMAIN nodes : MinimumDropped(n) => GenerationWasRead(n)
=============================================================================
