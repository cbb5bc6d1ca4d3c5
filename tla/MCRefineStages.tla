--------------------------- MODULE MCRefineStages ---------------------------
(* Two cases.  Flows: a branch with both ends of P, a P and a Q injection and  *)
(* a Q flow, each row honest, with its sign flipped, or a broken zero.         *)
(* Levels: a line of four nodes, the first with a V reading, the second with a *)
(* flow only, the last behind a transformer from a node of another class with  *)
(* a V reading; the priors are flat, one of them has an inactive twin.         *)
EXTENDS RefineStages

Row(kind, obj, side, z, h) ==
    [kind |-> kind, obj |-> obj, side |-> side, pseudo |-> FALSE, status |-> TRUE,
     value |-> z, sigma |-> 1, h |-> h]
Volt(n, z, s) == [Row("V", n, -1, z, z) EXCEPT !.sigma = s]
Prior(n) == [Volt(n, Nominal, 50) EXCEPT !.pseudo = TRUE]
Twin(n) == [Prior(n) EXCEPT !.status = FALSE, !.value = 950]
Line(a, b) == [from |-> a, to |-> b, status |-> TRUE, trafo |-> FALSE]
Trafo(a, b) == [Line(a, b) EXCEPT !.trafo = TRUE]

\* Honest, flipped, broken zero of a quantity whose true value is t.
Readings(t) == {<<t, t>>, <<-t, t>>, <<0, t>>}

FlowTables ==
    {<<Row("P", 1, 0, a[1], a[2]), Row("P", 1, 1, b[1], b[2]), Row("Pinj", 1, -1, c[1], c[2]),
       Row("Qinj", 1, -1, d[1], d[2]), Row("Q", 1, 0, e[1], e[2]), Prior(1), Prior(2)>> :
        a, c, d, e \in Readings(20), b \in Readings(-20)}

FlowCase ==
    [net |-> <<Line(1, 2)>>, vnom |-> <<110, 110>>,
     tables |-> FlowTables, levels |-> {<<1000, 960>>}]

LevelTables ==
    {<<Volt(1, z, s), Row("P", 1, 1, p[1], p[2]), Volt(5, 1080, 10),
       Prior(2), Prior(3), Prior(4), Twin(3)>> :
        z \in {1000, 1080}, s \in {10}, p \in {<<20, 20>>, <<0, 20>>}}

LevelCase ==
    [net |-> <<Line(1, 2), Line(2, 3), Line(3, 4), Trafo(5, 4)>>,
     vnom |-> <<110, 110, 110, 110, 220>>,
     tables |-> LevelTables,
     levels |-> {<<a, b, 960, d, e>> : a \in {1000, 1080, 1240}, b \in {960, 1000, 1040},
                                       d \in {960, 1000}, e \in {1000, 1120}}]

MCCases == {FlowCase, LevelCase}
=============================================================================
