---------------------------- MODULE MCCoreGroup -----------------------------
(* Instances of CoreGroup for TLC; the constants are given in the cfgs.    *)
EXTENDS CoreGroup
=============================================================================
