--------------------------- MODULE InjectionParts ---------------------------
(* bounds.py, telemetry/kinds.py and the component signs of                    *)
(* telemetry/load_only_injection.py: what a declared range of a node means,    *)
(* and of which parts the injection of a node was measured.                    *)
(*                                                                             *)
(* A telemetry plan is a function from keys <<object, kind, number>> to        *)
(* readings [value, quality, ext, scale]; the number tells the components of   *)
(* one kind apart (p_gen:1, p_gen:2), ext is the external variance or None and *)
(* scale the factor of the producer's variance plan, in percent.               *)
EXTENDS Integers

CONSTANTS
    None,
    Sentinel,       \* SENTINEL_VALUE: "no data"
    Inf             \* beyond every declared bound

Good == 0
Questionable == 1
Bad == 2

-----------------------------------------------------------------------------
(* Ranges <<lo, hi>>. *)

NoRange == <<-Inf, Inf>>

Resolve(box) ==
    IF \/ box = <<0, 0>>
       \/ box[1] \in {-Sentinel, Sentinel} /\ box[2] \in {-Sentinel, Sentinel}
       \/ box[1] > box[2]
    THEN NoRange
    ELSE box

Declared(box) == Resolve(box) # NoRange /\ box[1] < box[2]

DeclaredOrPoint(box) == Resolve(box) # NoRange

Unset(box) == Resolve(box) = NoRange

-----------------------------------------------------------------------------
(* Components of a node injection. *)

Part == [p_gen |-> "Pinj", p_load |-> "Pinj", q_gen |-> "Qinj", q_load |-> "Qinj"]
Sign == [p_gen |-> 1, p_load |-> -1, q_gen |-> 1, q_load |-> -1]

IsComponent(key) == key[2] \in DOMAIN Part

Usable(reading) == reading.value # None /\ reading.quality # Bad

\* The usable components of the injection of a node.
Components(plan, node, part) ==
    {k \in DOMAIN plan : /\ k[1] = node /\ IsComponent(k) /\ Part[k[2]] = part
                         /\ Usable(plan[k])}

\* The nodes whose injection is built from components of one sign alone.
OneSided(plan, part, sign) ==
    LET node(k) == k[1]
    IN {n \in {node(k) : k \in DOMAIN plan} :
           {Sign[k[2]] : k \in Components(plan, n, part)} = {sign}}

LoadOnly(plan, part) == OneSided(plan, part, -1)
GenerationOnly(plan, part) == OneSided(plan, part, 1)
=============================================================================
