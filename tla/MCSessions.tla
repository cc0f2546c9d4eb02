---------------------------- MODULE MCSessions ----------------------------
(* Sessions of one user: the cfg gives the sets.                         *)
EXTENDS Sessions, TLC

Symmetry == Permutations(Families) \cup Permutations(Tokens) \cup Permutations(Handlers)
============================================================================
