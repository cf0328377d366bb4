--------------------------- MODULE MCHaloExchange ---------------------------
(* Instances of HaloExchange for TLC; the constants are given in the cfgs. *)
EXTENDS HaloExchange
=============================================================================
