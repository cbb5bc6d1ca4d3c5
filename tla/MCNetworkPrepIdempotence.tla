----------------------- MODULE MCNetworkPrepIdempotence -----------------------
(* The default configuration: every step of the cascade on. *)
EXTENDS MCNetworkPrep

MCDefault == {Toggles}
===============================================================================
