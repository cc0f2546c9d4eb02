----------------------------- MODULE MCInventory -----------------------------
(* Inventory on small companies: the cfg files give the sets.              *)
EXTENDS Inventory, TLC

Symmetry == Permutations(Warehouses) \cup Permutations(Transfers) \cup
            Permutations(Approvals) \cup Permutations(Users) \cup Permutations(Counts)
=============================================================================
