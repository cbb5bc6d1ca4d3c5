------------------------------- MODULE MCReruns -------------------------------
(* Five buses and a disabled node: 1 -line- 2 =breaker= 3 =two breakers= 4     *)
(* -line- 5.  Node 1 generates, 2 generates and consumes, 3 consumes, 4 is a   *)
(* transit node and 5 a compensator.  The breakers merge 2, 3 and 4 when the   *)
(* call asks for it.                                                           *)
EXTENDS Reruns

Box(p, q) == [P |-> p, Q |-> q]
Power(p, q) == [P |-> p, Q |-> q]
None2 == Power(0, 0)
Nothing == [gen |-> None2, load |-> None2]

Node(gen, load) ==
    [status |-> TRUE, slack |-> FALSE, priority |-> 0, vn |-> 100, gen |-> gen, load |-> load,
     box |-> [gen |-> Box(<<0, 40>>, <<-20, 20>>), load |-> Box(<<4, 30>>, <<0, 0>>)],
     input |-> [gen |-> IF gen THEN Power(10, 4) ELSE None2,
                load |-> IF load THEN Power(20, 6) ELSE None2],
     est |-> Nothing, calc |-> None2, imb |-> None2, vm |-> 0, solved |-> FALSE, lc |-> 0]

Compensator ==
    [Node(TRUE, FALSE) EXCEPT !.box["gen"] = Box(<<0, 0>>, <<-10, 30>>), !.input["gen"] = Power(0, 4)]

Machines == [Node(TRUE, TRUE) EXCEPT !.lc = 1]
Consumer == [Node(FALSE, TRUE) EXCEPT !.lc = 2]
Off == [Node(TRUE, TRUE) EXCEPT !.status = FALSE]

Net(slack) ==
    [n \in 1 .. 6 |->
        LET node == <<Node(TRUE, FALSE), Machines, Consumer, Node(FALSE, FALSE), Compensator, Off>>[n]
        IN [node EXCEPT !.slack = n \in slack, !.priority = 9 - n]]

Branch(a, b, z, ratio) ==
    [from |-> a, to |-> b, status |-> TRUE, z |-> z, ratio |-> ratio, flow |-> [P |-> 0, Q |-> 0, I |-> 0]]

Grid ==
    <<Branch(1, 2, 9, 0), Branch(2, 3, 0, 2), Branch(3, 4, 0, 0), Branch(4, 3, 0, 0),
      Branch(4, 5, 9, 0), Branch(5, 6, 9, 0), [Branch(1, 5, 9, 0) EXCEPT !.status = FALSE]>>

Row(kind, obj, side, value, var) ==
    [kind |-> kind, obj |-> obj, side |-> side, pseudo |-> FALSE, status |-> TRUE, value |-> value,
     var |-> var, quality |-> Good, role |-> 0, range |-> NoRange, est |-> None]
Of(role, row) == [row EXCEPT !.role = role]

Readings ==
    <<Row("V", 1, -1, 0, 2), Row("P", 1, 0, 12, 4), Row("Q", 5, 1, 2, 4), Row("P", 2, 0, 8, 4),
      Row("Pinj", 3, -1, -20, 6), Row("Pinj", 4, -1, 0, 6),
      [Of(1, Row("Pinj", 2, -1, 12, 4)) EXCEPT !.range = <<2, 30>>], Of(-1, Row("Pinj", 2, -1, 18, 8)),
      Row("Pinj", 2, -1, -8, 4), Of(1, Row("Qinj", 5, -1, 6, 2)), Of(1, Row("Qinj", 2, -1, 8, 2)),
      Of(1, Row("Pinj", 5, -1, 2, 2)), Of(-1, Row("Pinj", 5, -1, 4, 2)),
      [Row("V", 2, -1, 0, 50) EXCEPT !.pseudo = TRUE], [Row("V", 3, -1, 0, 2) EXCEPT !.quality = Bad],
      [Row("Qinj", 3, -1, 4, 2) EXCEPT !.status = FALSE], Row("V", 6, -1, 0, 2), Row("P", 6, 1, 0, 2),
      Row("Qinj", 1, -1, 4, 0), [Row("Qinj", 1, -1, 4, 2) EXCEPT !.value = None]>>

Flows(p, q) == [b \in 1 .. 7 |-> [P |-> p + 2 * b, Q |-> q - 2 * b, I |-> b]]
Points ==
    {[flow |-> Flows(8, 4), volt |-> [n \in 1 .. 6 |-> n], gen |-> "start", load |-> "start"],
     [flow |-> Flows(-30, 10), volt |-> [n \in 1 .. 6 |-> -3], gen |-> "high", load |-> "low"]}

MCLow == -2

Config ==
    [alg |-> "wls", merge |-> None, roles |-> FALSE, fixed |-> TRUE, mode |-> "soft",
     transitMode |-> "soft", balance |-> None, loosen |-> 2, boxed |-> 0, transit |-> 0,
     partPrior |-> FALSE, normalVar |-> 0, split |-> "solver", policy |-> "legacy",
     reconcile |-> TRUE, respect |-> FALSE]

WlsConfigs ==
    {[Config EXCEPT !.reconcile = r, !.respect = b, !.policy = p] :
        r, b \in BOOLEAN, p \in {"legacy", "status"}} \cup {[Config EXCEPT !.merge = 0]}

\* Balances: soft, tightened, fixed, hard, hard at transit nodes.
Balances ==
    {[Config EXCEPT !.boxed = 0], [Config EXCEPT !.boxed = 2, !.transit = 4],
     [Config EXCEPT !.balance = 6], [Config EXCEPT !.mode = "hard"], [Config EXCEPT !.transitMode = "hard"]}

IpmConfigs ==
    {[c EXCEPT !.alg = alg, !.merge = limit, !.roles = roles, !.fixed = ~roles, !.partPrior = prior,
               !.normalVar = IF prior THEN 4 ELSE 0, !.split = split, !.respect = respect] :
        c \in Balances, alg \in {"ipm", "ipm_pd"}, limit \in {None, 0}, roles, prior, respect \in BOOLEAN,
        split \in {"solver", "generation_first"}}

Case(net, c) == [nodes |-> net, branches |-> Grid, rows |-> Readings, cfg |-> c, points |-> Points]

MCCases ==
    {Case(Net({1, 3}), c) : c \in WlsConfigs \cup IpmConfigs}
    \cup {Case(Net({1}), c) : c \in {k \in IpmConfigs : k.mode = "hard" /\ k.alg = "ipm"}}
    \cup {Case(Net({}), Config), Case([Net({1}) EXCEPT ![5].vn = 0], Config)}

MCCharacteristics ==
    <<[quad |-> Power(110, 90), seg |-> [P |-> None, Q |-> None]],
      [quad |-> Power(110, 90), seg |-> [P |-> 50, Q |-> None]]>>

-----------------------------------------------------------------------------

Shunt(n, on, b) == [node |-> n, status |-> on, b |-> b]
Volt(n, value, pseudo) == [node |-> n, value |-> value, pseudo |-> pseudo]
Nominal == <<100, 100, 100>>
Suspicious(v) ==
    [shunts |-> <<Shunt(1, TRUE, 2), Shunt(1, FALSE, 1), Shunt(2, TRUE, 3), Shunt(3, TRUE, 1)>>,
     readings |-> <<Volt(2, v, FALSE), Volt(1, 112, FALSE), Volt(3, 130, TRUE), Volt(2, 108, FALSE)>>,
     nominal |-> Nominal]
\* No suspect; two shunts of no susceptance.
Plausible == [Suspicious(101) EXCEPT !.shunts = <<Shunt(2, TRUE, 3)>>, !.readings = <<Volt(2, 101, FALSE)>>]
Empty == [Suspicious(106) EXCEPT !.shunts = <<Shunt(1, TRUE, 0), Shunt(2, TRUE, 0)>>]

MCInputs == {Suspicious(104), Suspicious(112), Suspicious(200), Plausible, Empty}

Returned(rn2s) == {None} \cup {[rn2 |-> r, volt |-> <<100, 101, 0>>] : r \in rn2s}
MCBaseRuns == Returned({20, 8})
MCColdRuns == Returned({4, 12, 18})
=============================================================================
