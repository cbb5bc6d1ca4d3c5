----------------------------- MODULE SolveTables -----------------------------
(* units.py, z_vector.py and the first half of supernodes.py: the network and  *)
(* the rows one call of estimate works on.                                     *)
(*                                                                             *)
(* A node is [status, slack, priority, vn, gen, load (exist_gen, exist_load),  *)
(* box, input, est, calc, imb, vm, solved, lc]; box, input and est are         *)
(* functions of the part and the axis, calc and imb of the axis.  A branch is  *)
(* [from, to, status, z, ratio, flow] with z in the unit of the merge limit,   *)
(* flow by axis at the from side.  Measurements are a function from ids to     *)
(* [kind, obj, side, pseudo, status, value, var, quality, role, range, est].   *)
(* Ids are numbers in the order of the tables.  Powers and variances are in    *)
(* the units of the tables: the conversion to p.u. scales all of them alike.   *)
(* Voltages and ratios are logarithms of p.u. values, so that ratios add up.   *)
EXTENDS MeasRows, InjectionParts, FiniteSetsExt

Parts == {"gen", "load"}
Axes == {"P", "Q"}
PartSign == [gen |-> 1, load |-> -1]
InjKind == [P |-> "Pinj", Q |-> "Qinj"]
RolePart(row) == IF row.role = 1 THEN "gen" ELSE "load"

Largest(a, b) == IF a > b THEN a ELSE b
Smallest(a, b) == IF a < b THEN a ELSE b

-----------------------------------------------------------------------------
(* The network. *)

Buses(nodes) == {n \in DOMAIN nodes : nodes[n].status}

Slacks(nodes) == {n \in Buses(nodes) : nodes[n].slack}

NetworkFails(nodes) == Slacks(nodes) = {} \/ \E n \in Buses(nodes) : nodes[n].vn <= 0

\* The least priority, the first of them in the table.
SlackOf(nodes) ==
    LET least == Min({nodes[s].priority : s \in Slacks(nodes)})
    IN Min({s \in Slacks(nodes) : nodes[s].priority = least})

Lines(nodes, branches, merged) ==
    {b \in ActiveBranches(branches) \ merged : {branches[b].from, branches[b].to} \subseteq Buses(nodes)}

\* The branches that join their ends into one supernode; none without a limit.
MergedBranches(nodes, branches, limit) ==
    {b \in Lines(nodes, branches, {}) :
        /\ limit # None
        /\ branches[b].from # branches[b].to
        /\ branches[b].z <= limit * nodes[branches[b].from].vn}

\* The buses joined with n by some of the branches: the least set that they do
\* not lead out of.
Joined(nodes, branches, edges, n) ==
    LET around == {S \in SUBSET Buses(nodes) :
                      n \in S /\ \A a \in S : Neighbours(branches, edges, a) \subseteq S}
    IN {k \in Buses(nodes) : \A S \in around : k \in S}

\* The slack of its supernode, else the first member.
Representative(nodes, members) ==
    IF SlackOf(nodes) \in members THEN SlackOf(nodes) ELSE Min(members)

\* A branch whose ends earlier ones have joined closes a loop.
Forest(nodes, branches, edges) ==
    {b \in edges : branches[b].to \notin
        Joined(nodes, branches, {c \in edges : c < b}, branches[b].from)}

\* One step of the walk: the buses one branch of the forest away.
Onward(branches, forest, s) ==
    LET ahead == {b \in forest : branches[b].from \in DOMAIN s /\ branches[b].to \notin DOMAIN s}
        back == {b \in forest : branches[b].to \in DOMAIN s /\ branches[b].from \notin DOMAIN s}
        into(b) == IF b \in ahead THEN branches[b].to ELSE branches[b].from
        by(n) == CHOOSE b \in ahead \cup back : into(b) = n
    IN [n \in DOMAIN s \cup {into(b) : b \in ahead \cup back} |->
           IF n \in DOMAIN s THEN s[n]
           ELSE IF by(n) \in ahead THEN s[branches[by(n)].from] - branches[by(n)].ratio
           ELSE s[branches[by(n)].to] + branches[by(n)].ratio]

(* build_supernodes: the representative of every bus and the ratio of their   *)
(* voltages, added up over the forest (the phase shifts add up alike).        *)
Supernodes(nodes, branches, edges) ==
    LET rep == [n \in Buses(nodes) |->
                   Representative(nodes, Joined(nodes, branches, edges, n))]
        walk[k \in 0 .. Cardinality(edges)] ==
            IF k = 0 THEN [r \in {rep[n] : n \in Buses(nodes)} |-> 0]
            ELSE Onward(branches, Forest(nodes, branches, edges), walk[k - 1])
    IN [edges |-> edges, rep |-> rep, scale |-> walk[Cardinality(edges)]]

Members(sn, n) == {k \in DOMAIN sn.rep : sn.rep[k] = sn.rep[n]}

IsMerged(sn, n) == Cardinality(Members(sn, n)) > 1

-----------------------------------------------------------------------------
(* The rows. *)

\* without_branch_measurements: in a copy of the table.
WithoutFlows(m, merged) ==
    [i \in DOMAIN m |->
        [m[i] EXCEPT !.status = @ /\ ~(m[i].kind \in FlowKinds /\ m[i].obj \in merged)]]

\* build_z_and_r: the rows that enter the measurement vector.
UsedRows(m, nodes, lines) ==
    {i \in DOMAIN m :
        /\ m[i].status /\ m[i].quality # Bad
        /\ m[i].value # None /\ m[i].var # None /\ m[i].var > 0
        /\ IF m[i].kind \in FlowKinds THEN m[i].obj \in lines /\ m[i].side \in {0, 1}
           ELSE m[i].obj \in Buses(nodes)}

-----------------------------------------------------------------------------
(* Results by the state. *)

\* What a bus sends over the branches of the network, lossless.
Sent(branches, lines, flow, axis, n) ==
    SumFunction([b \in {c \in lines : branches[c].from = n} |-> flow[b][axis]])
    - SumFunction([b \in {c \in lines : branches[c].to = n} |-> flow[b][axis]])

\* write_results_to_model.
NodeResults(nodes, branches, lines, flow, volt) ==
    [n \in DOMAIN nodes |->
        IF n \notin Buses(nodes) THEN nodes[n]
        ELSE LET calc == [a \in Axes |-> Sent(branches, lines, flow, a, n)]
             IN [nodes[n] EXCEPT !.vm = volt[n], !.solved = TRUE, !.calc = calc,
                    !.imb = [a \in Axes |->
                        calc[a] - (nodes[n].input["gen"][a] - nodes[n].input["load"][a])]]]

BranchResults(branches, lines, flow) ==
    [b \in DOMAIN branches |->
        IF b \in lines THEN [branches[b] EXCEPT !.flow = flow[b]] ELSE branches[b]]
=============================================================================
