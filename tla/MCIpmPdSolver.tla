--------------------------- MODULE MCIpmPdSolver ---------------------------
(* Four iterations, two trials in a search, two failed searches allowed: the  *)
(* test, the limit of failures and the iteration limit can each come first.   *)
EXTENDS IpmPdSolver
=============================================================================
