------------------------------ MODULE MeasRows ------------------------------
(* _arrays.py and utils.py: the selections over the measurement and branch     *)
(* tables that the stages of the refinement share, and their median.           *)
(*                                                                             *)
(* A measurement table is a function from row ids to records                   *)
(*   [kind, obj, side, pseudo, status, value, sigma, h]                        *)
(* with kind "P", "Q", "I" (flows of branch obj at side 0, 1 or neither),      *)
(* "Pinj", "Qinj" or "V" (of node obj) and h the estimate of the last solve.   *)
(* A branch table is a function to [from, to, status, trafo]; trafo means a    *)
(* transformer with a positive tap.                                            *)
EXTENDS Integers, FiniteSets

FlowKinds == {"P", "Q", "I"}
InjectionKinds == {"Pinj", "Qinj"}

\* meas_mask: active rows of these kinds, real or pseudo.
Rows(m, kinds, pseudo) ==
    {i \in DOMAIN m : m[i].status /\ m[i].kind \in kinds /\ m[i].pseudo = pseudo}

ActiveBranches(net) == {b \in DOMAIN net : net[b].status}

\* active_adjacency over the selected branches.
Neighbours(net, selected, n) ==
    {net[b].to : b \in {c \in selected : net[c].from = n}}
        \cup {net[b].from : b \in {c \in selected : net[c].to = n}}

(* The nodes a row says something about: its node, its side of the branch, or *)
(* both ends; none for a branch the table does not have.                      *)
NodesOf(net, row) ==
    IF row.kind \notin FlowKinds THEN {row.obj}
    ELSE IF row.obj \notin DOMAIN net THEN {}
    ELSE CASE row.side = 0 -> {net[row.obj].from}
           [] row.side = 1 -> {net[row.obj].to}
           [] OTHER -> {net[row.obj].from, net[row.obj].to}

\* np.median over a list, here a function: the mean of the two middle values.
Median(f) ==
    LET n == Cardinality(DOMAIN f)
        Kth(k) == CHOOSE v \in {f[i] : i \in DOMAIN f} :
                     /\ Cardinality({i \in DOMAIN f : f[i] < v}) < k
                     /\ Cardinality({i \in DOMAIN f : f[i] <= v}) >= k
    IN (Kth((n + 1) \div 2) + Kth(n \div 2 + 1)) \div 2

Abs(a) == IF a < 0 THEN -a ELSE a
=============================================================================
