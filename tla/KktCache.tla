------------------------------ MODULE KktCache ------------------------------
(***************************************************************************)
(* What the solver of a sequence of systems promises about its cache       *)
(* (gridstate/algorithms/kkt_solver.py): every system is factorized on the *)
(* union of the patterns seen since the last reset, in the order analysed  *)
(* for that union; after a breakdown once more on its own pattern alone;   *)
(* after a second one it is solved without the cache.  Nothing else        *)
(* decides which factorization answers a system, least of all the          *)
(* representation the solver happens to keep.                              *)
(*                                                                         *)
(* A system is known by the set of its non-zero lower positions.           *)
(***************************************************************************)
CONSTANTS Lower, Unset

VARIABLES
    cached,     \* FALSE: the solver keeps no cache at all
    asked,      \* the system being solved or solved last
    attempt,    \* "idle", "first" or "retry"
    seen,       \* the superset pattern, or Unset
    answer      \* how the last attempt went: [by, order]

vars == <<cached, asked, attempt, seen, answer>>

Superset(s) == IF seen = Unset THEN s ELSE seen \cup s

Init ==
    /\ cached \in BOOLEAN
    /\ asked = Unset
    /\ attempt = "idle"
    /\ seen = Unset
    /\ answer = Unset

Ask ==
    /\ attempt = "idle"
    /\ asked' \in SUBSET Lower
    /\ attempt' = "first"
    /\ answer' = Unset
    /\ UNCHANGED <<cached, seen>>

Factorize(pattern, broken) ==
    /\ seen' = pattern
    /\ \/ answer' = [by |-> "factor", order |-> pattern] /\ attempt' = "idle"
       \/ broken
    /\ UNCHANGED <<cached, asked>>

First ==
    /\ cached /\ attempt = "first"
    /\ Factorize(Superset(asked), answer' = Unset /\ attempt' = "retry")

Retry ==
    /\ cached /\ attempt = "retry"
    /\ Factorize(asked, answer' = [by |-> "direct", order |-> Unset] /\ attempt' = "idle")

\* Without a cache (backend "scipy") every system is solved on its own.
Uncached ==
    /\ ~cached /\ attempt = "first"
    /\ answer' = [by |-> "direct", order |-> Unset]
    /\ attempt' = "idle"
    /\ UNCHANGED <<cached, asked, seen>>

Next == Ask \/ First \/ Retry \/ Uncached

Spec == Init /\ [][Next]_vars
=============================================================================
