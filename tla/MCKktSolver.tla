---------------------------- MODULE MCKktSolver ----------------------------
(* A 2 x 2 system: two diagonal positions, one below and one above them.      *)
(* Jacobians that couple the two variables and that do not, in canonical form *)
(* or not; four systems in a row.                                             *)
EXTENDS KktSolver, TLC

CONSTANTS d1, d2, l21, u12

MCLower == {d1, d2, l21}
MCDiagonal == {d1, d2}
MCMirror == l21 :> u12
MCJacobians == {[low |-> {d1, d2, l21}, canonical |-> TRUE],
                [low |-> {d1}, canonical |-> TRUE],
                [low |-> {d1, d2, l21}, canonical |-> FALSE]}
=============================================================================
