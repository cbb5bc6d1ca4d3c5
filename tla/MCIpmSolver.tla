---------------------------- MODULE MCIpmSolver ----------------------------
(* Starts up to five factors above mu_min against four outer rounds: the      *)
(* schedule ends in time, ends on the last round, is lowered to mu_min by it  *)
(* without being solved there, or is cut before; two extra rounds for the     *)
(* equality rows fit or do not.                                               *)
EXTENDS IpmSolver
=============================================================================
