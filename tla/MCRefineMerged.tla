--------------------------- MODULE MCRefineMerged ---------------------------
(* The line of MCRefineStages with the second node, the measured boundary of  *)
(* the blind ones, solved exactly at its nominal below a first node at 1.08.  *)
EXTENDS RefineStages

Row(kind, obj, side, pseudo, z, h) ==
    [kind |-> kind, obj |-> obj, side |-> side, pseudo |-> pseudo, status |-> TRUE,
     value |-> z, sigma |-> 10, h |-> h]
Line(a, b) == [from |-> a, to |-> b, status |-> TRUE, trafo |-> FALSE]

MCCases ==
    {[net |-> <<Line(1, 2), Line(2, 3), Line(3, 4)>>,
      vnom |-> <<110, 110, 110, 110>>,
      tables |-> {<<Row("V", 1, -1, FALSE, 1080, 1080), Row("P", 1, 1, FALSE, 20, 20),
                    Row("V", 2, -1, TRUE, Nominal, 0), Row("V", 3, -1, TRUE, Nominal, 0),
                    Row("V", 4, -1, TRUE, Nominal, 0)>>},
      levels |-> {<<1080, 1000, 960, 960>>}]}
=============================================================================
