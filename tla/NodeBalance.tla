----------------------------- MODULE NodeBalance -----------------------------
(* post_processing.py: the injection of a node split into generation and load, *)
(* and the split closed with the injection of the state.                       *)
EXTENDS SolveTables

CONSTANT Characteristics    \* load_characteristics: [quad, seg], percent by axis at the solved V

\* _clip, of a resolved range: NoRange clips nothing, nor does an inverted one.
ClipTo(v, box) == LET r == Resolve(box) IN Smallest(Largest(v, r[1]), r[2])

\* split_free_injection: np.clip, where the upper side wins, of raw boxes.
RawClip(v, box) == Smallest(Largest(v, box[1]), box[2])

SplitFree(net, genBox, loadBox) ==
    LET genSet == genBox # <<0, 0>>
        loadSet == loadBox # <<0, 0>>
        load == IF loadSet THEN RawClip(-net, loadBox) ELSE Largest(-net, 0)
        gen == IF genSet /\ ~loadSet THEN RawClip(net, genBox)
               ELSE IF genSet THEN RawClip(net + load, genBox)
               ELSE net + load
    IN [gen |-> gen, load |-> IF genSet THEN gen - net ELSE load]

\* Generation and load by an injection; with both, the nominal one is kept.
RawSplit(node, a) ==
    LET inj == node.calc[a]
        gen == node.input["gen"][a]
        load == node.input["load"][a]
        untied == IF a = "P" THEN gen + Abs(load) <= 0 ELSE gen = 0 /\ load = 0
    IN IF ~node.gen /\ ~node.load THEN [gen |-> 0, load |-> 0]
       ELSE IF ~node.load THEN [gen |-> inj, load |-> 0]
       ELSE IF ~node.gen THEN [gen |-> 0, load |-> -inj]
       ELSE IF untied THEN [gen |-> Largest(inj, 0), load |-> Largest(-inj, 0)]
       ELSE IF inj >= 0 THEN [gen |-> inj + load, load |-> load]
       ELSE [gen |-> gen, load |-> gen - inj]

\* write_node_estimates_from_inj.
SplitInjection(node) ==
    [part \in Parts |-> [a \in Axes |->
        IF node[part] THEN ClipTo(RawSplit(node, a)[part], node.box[part][a]) ELSE 0]]

SplitInjections(nodes) ==
    [n \in DOMAIN nodes |->
        IF nodes[n].status THEN [nodes[n] EXCEPT !.est = SplitInjection(nodes[n])] ELSE nodes[n]]

(* apply_load_characteristic: the quadratic row, or the segment, which takes  *)
(* a positive nominal load only.                                              *)
AtCharacteristic(node, a) ==
    LET lc == Characteristics[node.lc]
        nominal == node.input["load"][a]
    IN IF lc.seg[a] = None THEN (nominal * lc.quad[a]) \div 100
       ELSE IF nominal > 0 THEN (nominal * lc.seg[a]) \div 100
       ELSE node.est["load"][a]

ApplyLoadCharacteristic(nodes) ==
    [n \in DOMAIN nodes |->
        IF nodes[n].status /\ nodes[n].load /\ nodes[n].lc \in DOMAIN Characteristics
        THEN [nodes[n] EXCEPT !.est["load"] = [a \in Axes |-> AtCharacteristic(nodes[n], a)]]
        ELSE nodes[n]]

-----------------------------------------------------------------------------
(* reconcile_node_balance. *)

Residual(node, a) == node.calc[a] - (node.est["gen"][a] - node.est["load"][a])

\* The part that takes the residual up.
Taker(node) == IF node.gen /\ ~node.load THEN "gen" ELSE "load"

\* The residual of generation added to a load.
TargetUnsigned(node, a) == node.est[Taker(node)][a] + Residual(node, a)

Target(node, a) == node.est[Taker(node)][a] + PartSign[Taker(node)] * Residual(node, a)

\* A transit node is given no load; a compensator no active power.
WithinBounds(node, a) ==
    LET box == node.box[Taker(node)][a]
    IN IF Taker(node) = "load"
       THEN IF node.load THEN ClipTo(Target(node, a), box) ELSE 0
       ELSE IF a = "P" /\ box = <<0, 0>> /\ Declared(node.box["gen"]["Q"]) THEN 0
       ELSE ClipTo(Target(node, a), box)

Reconciled(node, respect) ==
    LET value(a) == IF respect THEN WithinBounds(node, a) ELSE Target(node, a)
    IN IF \A a \in Axes : Residual(node, a) = 0 THEN node
       ELSE [node EXCEPT !.est[Taker(node)] = [a \in Axes |-> value(a)]]

ReconcileNodeBalance(nodes, respect) ==
    [n \in DOMAIN nodes |->
        IF nodes[n].status /\ nodes[n].solved THEN Reconciled(nodes[n], respect) ELSE nodes[n]]
=============================================================================
