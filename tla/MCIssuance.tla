---------------------------- MODULE MCIssuance ----------------------------
EXTENDS Issuance, TLC

\* Calls, subjects and jtis are interchangeable.
Symmetry ==
    Permutations(Calls) \union Permutations(Jtis) \union Permutations(Subjects)
===========================================================================
