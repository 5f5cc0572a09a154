---------------------------- MODULE MC_NatCache ----------------------------
(* Model-checking instance of NatCache: the constants, model values and    *)
(* bounds come from the NatCache_*.cfg files.                              *)
EXTENDS NatCache, TLC
=============================================================================
