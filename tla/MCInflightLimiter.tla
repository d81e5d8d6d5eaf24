------------------------- MODULE MCInflightLimiter -------------------------
(* InflightLimiter on small instances.                                     *)
EXTENDS InflightLimiter, TLC

Symmetry == Permutations(Requests)
=============================================================================
