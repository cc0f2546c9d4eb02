--------------------------- MODULE MCSaleLifecycle ---------------------------
(* SaleLifecycle on a small shop: the cfg files give the sets.             *)
EXTENDS SaleLifecycle, TLC

Symmetry == Permutations(Units)
=============================================================================
