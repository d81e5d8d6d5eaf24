------------------------- MODULE MCAuthMiddleware -------------------------
EXTENDS AuthMiddleware, TLC

\* Callers run the same code, in any order.
Symmetry == Permutations(Callers)
===========================================================================
