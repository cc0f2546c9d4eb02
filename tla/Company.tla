------------------------------- MODULE Company -------------------------------
(* What Inventory, the quantities of a company's stock, and StockValue,    *)
(* what that stock is worth, are both about.                               *)
EXTENDS FiniteSets

CONSTANTS
  Warehouses,
  Transfers      \* ids of the transfers between them

ASSUME CompanyAssumption == IsFiniteSet(Warehouses) /\ IsFiniteSet(Transfers)
=============================================================================
