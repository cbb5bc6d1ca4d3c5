--------------------------- MODULE MCIpmSchedule ---------------------------
(* The same solver on the smallest schedule that outer_max cuts: two rounds,  *)
(* mu_min two factors away.                                                   *)
EXTENDS IpmSolver
=============================================================================
