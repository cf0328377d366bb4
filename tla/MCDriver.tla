----------------------------- MODULE MCDriver ------------------------------
(* Instances of Driver for TLC; the constant is given in the cfgs. *)
EXTENDS Driver
=============================================================================
