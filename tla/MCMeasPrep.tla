----------------------------- MODULE MCMeasPrep -----------------------------
(* Five nodes: a slack with a generator, a plant with auxiliary load behind a  *)
(* metered line, two bare busbars behind unit transformers, a low-voltage load.*)
EXTENDS MeasPrep, TLC

Node == [status |-> TRUE, slack |-> FALSE, vn |-> 110, vcrit |-> 1, vmin |-> 90, vmax |-> 121,
         existGen |-> FALSE, existLoad |-> FALSE, machine |-> FALSE,
         gp |-> <<0, 0>>, gq |-> <<0, 0>>, lp |-> <<0, 0>>, lq |-> <<0, 0>>,
         genP |-> 0, genQ |-> 0, loadP |-> 0, loadQ |-> 0, vm |-> 0, vset |-> 0, area |-> 1]

Net(box) ==
    <<[Node EXCEPT !.slack = TRUE, !.existGen = TRUE, !.gp = <<0, 200>>, !.vset = 112,
                   !.existLoad = TRUE, !.lp = <<0, 30>>],
      [Node EXCEPT !.existGen = TRUE, !.existLoad = TRUE, !.machine = TRUE, !.vm = 118,
                   !.gp = <<50, 100>>, !.gq = <<-30, 30>>, !.lp = box, !.lq = box],
      [Node EXCEPT !.vmax = 0],
      [Node EXCEPT !.existLoad = TRUE, !.vn = 10],
      [Node EXCEPT !.area = 2]>>

Branch(f, t) == [from |-> f, to |-> t, status |-> TRUE, trafo |-> FALSE, unit |-> FALSE,
                 charging |-> 4, lossDiv |-> 100]
Lines == <<Branch(1, 2), [Branch(1, 3) EXCEPT !.unit = TRUE, !.trafo = TRUE, !.charging = 0],
           Branch(2, 4), [Branch(3, 4) EXCEPT !.status = FALSE],
           [Branch(5, 2) EXCEPT !.unit = TRUE, !.trafo = TRUE, !.charging = 0]>>

Row(i, kind, obj, side) ==
    [id |-> i, kind |-> kind, obj |-> obj, side |-> side, pseudo |-> FALSE, status |-> TRUE,
     value |-> 0, var |-> 100, quality |-> Good, flag |-> None, part |-> 0]
Rows0(last) ==
    <<Row(1, "V", 1, -1), Row(2, "V", 2, -1), Row(3, "P", 1, 0), Row(4, "P", 1, 1),
      Row(5, "Q", 1, 0), Row(6, "Q", 1, 1), Row(7, "P", 4, 0), Row(8, "Pinj", 4, -1),
      Row(last, "P", 3, 0)>>

Reading(value, quality, ext) == [value |-> value, quality |-> quality, ext |-> ext, scale |-> 100]

Config == [off |-> {}, final |-> FALSE, roles |-> FALSE, signCheck |-> TRUE,
           qFilter |-> "downweight", halfCheck |-> TRUE, nonPhysical |-> FALSE,
           tighten |-> FALSE, floor |-> 1, pseudoV |-> TRUE, pseudoInjections |-> TRUE,
           unobsFrac |-> None, minDeviation |-> 2, scope |-> "all", loosenUnknown |-> FALSE,
           tightTransit |-> FALSE]

\* Voltages and flows of the plan.
Grid(v, q, pTo, qTo, e) ==
    (<<1, "v", 0>> :> Reading(v, q, e)) @@ (<<2, "v", 0>> :> [Reading(115, Good, None) EXCEPT !.scale = 50])
    @@ (<<1, "p_from", 0>> :> Reading(60, Good, e)) @@ (<<1, "p_to", 0>> :> Reading(pTo, Good, None))
    @@ (<<1, "q_from", 0>> :> Reading(20, Good, None)) @@ (<<1, "q_to", 0>> :> Reading(qTo, q, e))
    @@ (<<3, "p_from", 0>> :> Reading(5, Good, e))
    @@ (<<4, "p_from", 0>> :> Reading(1, Good, None)) @@ (<<3, "other", 0>> :> Reading(1, Good, None))

\* The components of the plant.
Plants(e) ==
    {<<>>,
     <<2, "p_gen", 0>> :> Reading(24, Good, e),
     <<2, "p_gen", 0>> :> Reading(70, Questionable, e),
     <<2, "p_load", 0>> :> Reading(12, Good, e),
     (<<2, "p_load", 0>> :> Reading(12, Good, e)) @@ (<<2, "p_gen", 0>> :> Reading(90, Bad, e)),
     (<<2, "p_gen", 1>> :> Reading(30, Good, e)) @@ (<<2, "p_gen", 2>> :> Reading(5, Questionable, None))
         @@ (<<2, "q_gen", 0>> :> Reading(9, Good, e)),
     (<<2, "p_gen", 0>> :> Reading(60, Good, e)) @@ (<<2, "p_load", 0>> :> Reading(12, Good, e))
         @@ (<<2, "q_load", 0>> :> Reading(3, Good, e))}

Call(plan, box, last, cfg) ==
    [plan |-> plan, cfg |-> cfg, nodes |-> Net(box), branches |-> Lines, rows |-> Rows0(last),
     outages |-> {{}, {2}, {4}},
     obs |-> [loadP |-> 2 :> 14, loadQ |-> <<>>, genP |-> 2 :> 60, genQ |-> <<>>],
     given |-> <<[node |-> 4, kind |-> "V", value |-> 10, var |-> 9],
                 [node |-> 2, kind |-> "Pinj", value |-> 44, var |-> 900]>>]

\* The values of the readings, their variances and the rules they meet.
Readings ==
    {Call(Grid(v, q, pTo, qTo, e) @@ plant, box, 9,
          [Config EXCEPT !.final = f, !.roles = r]) :
        v \in {112, 150, 40}, q \in {Good, Questionable}, pTo \in {-60, 60}, qTo \in {-16, 90},
        e \in {None, 7}, plant \in Plants(7) \cup Plants(None),
        box \in {<<20, 24>>, <<0, 0>>}, f \in BOOLEAN, r \in BOOLEAN}

\* The options, over one plan.
Options ==
    {Call(Grid(v, Good, -60, -16, 7) @@ plant, <<0, 24>>, 9,
          [Config EXCEPT !.final = f, !.qFilter = qf, !.nonPhysical = np, !.tighten = np,
                         !.unobsFrac = u, !.scope = sc, !.tightTransit = tt,
                         !.loosenUnknown = TRUE, !.off = off]) :
        v \in {112, 200}, plant \in Plants(7), f \in BOOLEAN, qf \in {"off", "deactivate"},
        np \in BOOLEAN, u \in {None, 1}, sc \in {"generation", "none"},
        tt \in BOOLEAN, off \in {{}, {"orphans"}, {"external", "release", "mirror"}}}

\* Input ids that reach into the ranges of the steps.
InputIds ==
    {Call(Grid(112, Good, -60, -16, None) @@ plant, <<0, 24>>, last, Config) :
        plant \in Plants(None), last \in 18 .. 36}

MCCases == Readings \cup Options \cup InputIds
=============================================================================
