----------------------------- MODULE Supernodes -----------------------------
(* supernodes.py: the rows of an interior point problem on the supernodes, and *)
(* the flows of the merged branches, which the reduced network does not have.  *)
(*                                                                             *)
(* A solved row is a row of the setup with form "plain", "super" (the balance  *)
(* of a supernode) or "converted" (the injection of a member on its boxes).    *)
EXTENDS IpmSetup

Plain(r) ==
    [block |-> r.block, kind |-> r.kind, part |-> r.part, obj |-> r.obj, side |-> r.side,
     value |-> r.value, var |-> r.var, id |-> r.id, eq |-> r.eq, form |-> "plain"]

HasBox(vars, n, axis) == \E part \in Parts : <<n, part, axis>> \in DOMAIN vars

IsMemberInjection(sn, r) ==
    r.block = "data" /\ r.kind \in InjectionKinds /\ IsMerged(sn, r.obj)

(* The balance of a supernode: the sum of the balances of its members, an     *)
(* equality only if all of them are, else as loose as the loosest.            *)
SuperBalance(rows, sn, r) ==
    LET parts == {b \in rows : b.block = "balance" /\ b.kind = r.kind /\ b.obj \in Members(sn, r.obj)}
        soft == {b \in parts : ~b.eq}
        of(k) == CHOOSE b \in parts : b.obj = k
    IN [Plain(r) EXCEPT !.form = "super",
                        !.value = SumFunction([k \in Members(sn, r.obj) |-> of(k).value]),
                        !.eq = soft = {},
                        !.var = IF soft = {} THEN r.var ELSE Max({b.var : b \in soft})]

ReduceRow(rows, vars, sn, r) ==
    IF r.block = "balance" /\ IsMerged(sn, r.obj)
    THEN IF r.obj = sn.rep[r.obj] THEN {SuperBalance(rows, sn, r)} ELSE {}
    ELSE IF ~IsMemberInjection(sn, r) THEN {Plain(r)}
    ELSE IF HasBox(vars, r.obj, AxisOf(r.kind)) THEN {[Plain(r) EXCEPT !.form = "converted"]}
    ELSE {}

ReduceRows(rows, vars, sn) == UNION {ReduceRow(rows, vars, sn, r) : r \in rows}

\* Readings of member injections that nothing in the problem can take up.
DroppedIds(rows, vars, sn) ==
    {r.id : r \in {q \in rows : IsMemberInjection(sn, q) /\ ~HasBox(vars, q.obj, AxisOf(q.kind))}}

\* solved_base_rows: rows that are functions of V and the angles alone.
BaseIds(m, used, sn) ==
    {i \in used : ~(m[i].kind \in InjectionKinds /\ IsMerged(sn, m[i].obj))}

-----------------------------------------------------------------------------
(* merged_branch_flows.  The flows meet the outflow of every member but the   *)
(* representative.  A branch without which its ends fall apart carries what   *)
(* its side sends out; parallel branches share it, as over equal impedances.  *)
(* (Longer loops split by least squares; they are not modelled.)              *)

Twins(branches, sn, b) ==
    {c \in sn.edges : {branches[c].from, branches[c].to} = {branches[b].from, branches[b].to}}

MergedFlow(nodes, branches, sn, outflow, b) ==
    LET near == Joined(nodes, branches, sn.edges \ Twins(branches, sn, b), branches[b].from)
        far == Joined(nodes, branches, sn.edges \ Twins(branches, sn, b), branches[b].to)
    IN (IF sn.rep[branches[b].from] \in near THEN -SumFunction([n \in far |-> outflow[n]])
        ELSE SumFunction([n \in near |-> outflow[n]])) \div Cardinality(Twins(branches, sn, b))

MergedFlows(nodes, branches, sn, outflow) ==
    [b \in sn.edges |-> [a \in Axes |-> MergedFlow(nodes, branches, sn, outflow[a], b)]]

\* write_merged_results: on the branches, and in the injections of their ends.
MergedBranchResults(branches, flows) ==
    [b \in DOMAIN branches |->
        IF b \in DOMAIN flows THEN [branches[b] EXCEPT !.flow = flows[b]] ELSE branches[b]]

MergedNodeResults(nodes, branches, sn, flows) ==
    [n \in DOMAIN nodes |->
        IF n \notin Buses(nodes) \/ ~IsMerged(sn, n) THEN nodes[n]
        ELSE LET extra(a) == Sent(branches, sn.edges, flows, a, n)
             IN [nodes[n] EXCEPT !.calc = [a \in Axes |-> @[a] + extra(a)],
                                 !.imb = [a \in Axes |-> @[a] + extra(a)]]]
=============================================================================
