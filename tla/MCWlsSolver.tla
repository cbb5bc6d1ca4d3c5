---------------------------- MODULE MCWlsSolver ----------------------------
(* solve_wls on three iterations, with tolerances on both sides of the limit  *)
(* of NoStallAtUsableTolerance: 1e-4, 7e-7, 1.7e-7, 8e-8 and about 7e-10.     *)
EXTENDS WlsSolver

MCTolerances == {12, 19, 21, 22, 29}
MCStepSizes == {0, 12, 19, 28, 49}
MCObjectives == 0..1
=============================================================================
