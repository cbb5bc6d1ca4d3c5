------------------------------ MODULE MeasTable ------------------------------
(* working.py and measurement_ids.py: the measurement table of a run as a      *)
(* sequence of rows                                                            *)
(*   [id, kind, obj, side, pseudo, status, value, var, quality, flag, part]    *)
(* in the order of the array, the ids of new rows, and the noise model of      *)
(* telemetry/noise.py.  Variances count hundredths of the squared unit,        *)
(* rounded up; part is 1 or -1 on the row of one part of an injection, else 0. *)
EXTENDS MeasRows, InjectionParts, SequencesExt

CONSTANT QuestionableFactor   \* questionable_sigma2_multiplier

Ids(m) == {m[i].id : i \in DOMAIN m}

\* The row of a key: the first occurrence; 0 when there is none.
RowAt(m, kind, side, obj) ==
    LET hits == {i \in DOMAIN m : m[i].kind = kind /\ m[i].side = side /\ m[i].obj = obj}
    IN IF hits = {} THEN 0 ELSE Min(hits)

-----------------------------------------------------------------------------
(* IdAllocator. *)

AfterMax(m) == IF m = <<>> THEN 1 ELSE Max(Ids(m)) + 1

SkipTaken(m, start) == Min({k \in start .. start + Len(m) : k \notin Ids(m)})

\* Mutant: only the first id is compared.
FirstCollides(m, rows, first) == rows # <<>> /\ first \in Ids(m)

\* The ids of a batch meet one of the table: MeasurementIdCollisionError.
Collides(m, rows, first) == \E j \in DOMAIN rows : first + j - 1 \in Ids(m)

\* add_many: one batch, numbered from first.
AddMany(m, rows, first) ==
    m \o [j \in DOMAIN rows |-> [rows[j] EXCEPT !.id = first + j - 1]]

NodeRow(kind, node, value, var, quality, pseudo, part) ==
    [id |-> 0, kind |-> kind, obj |-> node, side |-> -1, pseudo |-> pseudo,
     status |-> TRUE, value |-> value, var |-> var, quality |-> quality,
     flag |-> None, part |-> part]

PseudoRow(kind, node, value, var) == NodeRow(kind, node, value, var, Good, TRUE, 0)

-----------------------------------------------------------------------------
(* Variances. *)

CeilDiv(a, b) == (a + b - 1) \div b

Largest(a, b) == IF a > b THEN a ELSE b

VarPower(value, percent, base) ==
    Largest(CeilDiv(percent * percent * value * value, 100), 25) + base

VarVoltage(vn) == Largest(CeilDiv(vn * vn, 100), 1)

VarBranchQ(value, charging) == Largest(VarPower(value, 7, 100), charging * charging)

VarInjection(value, part) == VarPower(value, 5, IF part = "Pinj" THEN 100 ELSE 50)

\* Of a load uniform in its box.
VarUniform(box) == CeilDiv(100 * (box[2] - box[1]) * (box[2] - box[1]), 12)

\* The gap exceeds k sigmas.
Beyond(gap, k, var) == gap > 0 /\ 100 * gap * gap > k * k * var

\* k sigmas, in whole units, where they are less than the gap.
Sigmas(gap, k, var) == Min({s \in 0 .. gap : Beyond(s + 1, k, var)})
=============================================================================
