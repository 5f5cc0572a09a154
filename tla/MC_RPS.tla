------------------------------- MODULE MC_RPS -------------------------------
(* Instance of RPS for TLC: threads and CPUs are model values (the .cfg).  *)
EXTENDS RPS
=============================================================================
